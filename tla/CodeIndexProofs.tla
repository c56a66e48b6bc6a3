-------------------------- MODULE CodeIndexProofs --------------------------
(***************************************************************************)
(* Proofs about CodeIndex, for any files, texts, symbols and bounds: the   *)
(* rows of a file are whole, a vector answers for the symbol it is under,  *)
(* and a mutation that ends well has caught up with the tree.              *)
(***************************************************************************)
EXTENDS CodeIndex, FiniteSetTheorems, TLAPS

Row == [file : File, text : Symbol]

LEMMA RowsAreFinite == IsFiniteSet(Row)
<1> DEFINE g == [p \in File \X Symbol |-> [file |-> p[1], text |-> p[2]]]
<1>1. IsFiniteSet(File \X Symbol)
  BY CodeIndexAssumption, FS_Product DEF CodeIndexAssumption
<1>2. g \in [File \X Symbol -> Row]
  BY DEF Row
<1>3. ASSUME NEW r \in Row PROVE \E p \in File \X Symbol : g[p] = r
  <2>1. <<r.file, r.text>> \in File \X Symbol
    BY <1>3 DEF Row
  <2>2. g[<<r.file, r.text>>] = r
    BY <2>1 DEF Row
  <2> QED
    BY <2>1, <2>2
<1>4. g \in Surjection(File \X Symbol, Row)
  BY <1>2, <1>3 DEF Surjection
<1> QED
  BY <1>1, <1>4, FS_Surjection

LEMMA KeepFacts ==
  ASSUME NEW h, NEW D
  PROVE  /\ DOMAIN Keep(h, D) = DOMAIN h \cap D
         /\ \A x \in DOMAIN h \cap D : Keep(h, D)[x] = h[x]
BY DEF Keep

\* What a batch writes: new rows above all the others, those of its texts.
LEMMA CommitFacts ==
  ASSUME TypeOK, NEW B, Commit(B)
  PROVE  /\ B \subseteq DOMAIN staged /\ B \subseteq File
         /\ Live \subseteq Live' /\ Live' \subseteq Nat \ {0}
         /\ symbols' \in [Live' -> Row]
         /\ \A i \in Live : symbols'[i] = symbols[i]
         /\ \A i \in Live' \ Live :
              symbols'[i].file \in B /\ symbols'[i].text \in Symbols[staged[symbols'[i].file]]
         /\ \A f \in B : \A t \in Symbols[staged[f]] :
              \E i \in Live' \ Live : symbols'[i] = [file |-> f, text |-> t]
<1> DEFINE found == UNION {[file : {f}, text : Symbols[staged[f]]] : f \in B}
<1>1. B \subseteq DOMAIN staged /\ B \subseteq File
  BY DEF Commit, TypeOK
<1>2. \A f \in B : Symbols[staged[f]] \subseteq Symbol
  BY <1>1, CodeIndexAssumption DEF CodeIndexAssumption, TypeOK
<1>3. found \subseteq Row
  BY <1>1, <1>2 DEF Row
<1>4. Cardinality(found) \in Nat
  BY <1>3, RowsAreFinite, FS_Subset, FS_CardinalityType
<1>5. PICK top \in {0} \cup Live :
        /\ \A i \in Live : i =< top
        /\ \E row \in [top + 1 .. top + Cardinality(found) -> found] :
             /\ \A r \in found : \E i \in top + 1 .. top + Cardinality(found) : row[i] = r
             /\ symbols' = [i \in Live \cup (top + 1 .. top + Cardinality(found)) |->
                              IF i \in Live THEN symbols[i] ELSE row[i]]
  BY Zenon DEF Commit
<1> DEFINE ids == top + 1 .. top + Cardinality(found)
<1>6. PICK row \in [ids -> found] :
        /\ \A r \in found : \E i \in ids : row[i] = r
        /\ symbols' = [i \in Live \cup ids |-> IF i \in Live THEN symbols[i] ELSE row[i]]
  BY <1>5
<1>7. top \in Nat /\ Live \subseteq Nat \ {0}
  BY DEF TypeOK
<1>8. ids \subseteq Nat \ {0} /\ ids \cap Live = {}
  BY <1>4, <1>5, <1>7
<1>9. Live' = Live \cup ids
  BY <1>6 DEF Live
<1>10. \A i \in Live : symbols'[i] = symbols[i]
  BY <1>6
<1>11. \A i \in ids : symbols'[i] = row[i] /\ row[i] \in found
  BY <1>6, <1>8
<1>12. \A r \in found : r.file \in B /\ r.text \in Symbols[staged[r.file]]
  OBVIOUS
<1>13. symbols' \in [Live' -> Row]
  <2>1. \A i \in Live : symbols[i] \in Row
    BY DEF TypeOK, Row
  <2>2. \A i \in Live' : symbols'[i] \in Row
    BY <2>1, <1>3, <1>9, <1>10, <1>11
  <2>3. symbols' = [i \in Live' |-> symbols'[i]]
    BY <1>6, <1>9
  <2> QED
    BY <2>2, <2>3
<1>14. ASSUME NEW f \in B, NEW t \in Symbols[staged[f]]
       PROVE  \E i \in Live' \ Live : symbols'[i] = [file |-> f, text |-> t]
  <2>1. [file |-> f, text |-> t] \in found
    BY <1>14
  <2>2. PICK i \in ids : row[i] = [file |-> f, text |-> t]
    BY <1>6, <2>1
  <2> QED
    BY <2>2, <1>8, <1>9, <1>11
<1> HIDE DEF found, ids
<1> QED
  BY <1>1, <1>7, <1>8, <1>9, <1>10, <1>11, <1>12, <1>13, <1>14

----------------------------------------------------------------------------
(* Types.                                                                  *)

LEMMA NothingFacts ==
  /\ DOMAIN Nothing = {}
  /\ Nothing \in [DOMAIN Nothing -> Row] /\ Nothing \in [DOMAIN Nothing -> Symbol]
  /\ Nothing \in [DOMAIN Nothing -> Text \ Skipped]
BY DEF Nothing

\* The locals of a mutation that has returned.
LocalsGone ==
  /\ pc' = "idle" /\ kind' = "none" /\ outcome' \in {"ok", "error"}
  /\ fresh' = FALSE /\ failed' = FALSE /\ after' = "end" /\ half' = Absent
  /\ scope' = {} /\ walk' = {} /\ changed' = {} /\ queue' = {} /\ excused' = {}
  /\ taken' = {} /\ dropped' = {}
  /\ DOMAIN reuse' = {} /\ reuse' \in [DOMAIN reuse' -> Symbol]
  /\ DOMAIN staged' = {} /\ staged' \in [DOMAIN staged' -> Text \ Skipped]

\* What outlives it.
StoresOK ==
  /\ tree \in [File -> Text \cup {Absent}] /\ stamped \subseteq File
  /\ hash \in [File -> (Text \ Skipped) \cup {Absent}]
  /\ Live \subseteq Nat \ {0} /\ symbols \in [Live -> [file : File, text : Symbol]]
  /\ DOMAIN vectors \subseteq Nat \ {0} /\ vectors \in [DOMAIN vectors -> Symbol]
  /\ hollow \subseteq File /\ lost \in BOOLEAN /\ wrong \in BOOLEAN
  /\ faults \in 0..MaxFaults /\ edits \in 0..MaxEdits

LEMMA ReturnType == ASSUME StoresOK', LocalsGone PROVE TypeOK'
BY DEF StoresOK, LocalsGone, TypeOK, PCs, Kinds

LEMMA ReturnFacts ==
  ASSUME NEW result \in {"ok", "error"}, Return(result)
  PROVE  LocalsGone
BY NothingFacts DEF Return, LocalsGone

LEMMA FaultFacts == ASSUME TypeOK, Fault \/ faults' = faults PROVE faults' \in 0..MaxFaults
BY CodeIndexAssumption DEF CodeIndexAssumption, Fault, TypeOK

LEMMA KeepTyped ==
  ASSUME TypeOK, NEW D
  PROVE  /\ Keep(vectors, D) \in [DOMAIN Keep(vectors, D) -> Symbol]
         /\ Keep(symbols, D) \in [DOMAIN Keep(symbols, D) -> Row]
         /\ Keep(staged, D) \in [DOMAIN Keep(staged, D) -> Text \ Skipped]
BY DEF Keep, TypeOK, Row

LEMMA VectorsTyped ==
  ASSUME TypeOK, NEW D, vectors' = Keep(vectors, D) \/ vectors' = vectors
  PROVE  DOMAIN vectors' \subseteq Nat \ {0} /\ vectors' \in [DOMAIN vectors' -> Symbol]
<1>1. DOMAIN vectors \subseteq Nat \ {0} /\ vectors \in [DOMAIN vectors -> Symbol]
  BY DEF TypeOK
<1>2. DOMAIN Keep(vectors, D) \subseteq DOMAIN vectors
  BY KeepFacts
<1> QED
  BY <1>1, <1>2, KeepTyped

LEMMA ReusableTyped ==
  ASSUME TypeOK, NEW F, NEW r \in Reusable(F)
  PROVE  DOMAIN r \subseteq Symbol /\ r \in [DOMAIN r -> Symbol]
<1>1. CASE r = Nothing
  BY <1>1, NothingFacts
<1>2. CASE r # Nothing
  <2> DEFINE texts == {symbols[i].text : i \in IdsIn(F) \cap DOMAIN vectors}
  <2>1. texts \subseteq Symbol
    BY DEF IdsIn, TypeOK
  <2>2. r \in [texts -> Symbol]
    BY <1>2 DEF Reusable
  <2> QED
    BY <2>1, <2>2
<1> QED
  BY <1>1, <1>2

LEMMA InitType == Init => TypeOK
<1> SUFFICES ASSUME Init PROVE TypeOK
  OBVIOUS
<1>1. 0 \in 0..MaxFaults /\ 0 \in 0..MaxEdits
  BY CodeIndexAssumption DEF CodeIndexAssumption
<1>2. /\ hash \in [File -> (Text \ Skipped) \cup {Absent}]
      /\ DOMAIN symbols = {} /\ symbols \in [Live -> Row] /\ Live = {}
      /\ DOMAIN vectors = {} /\ vectors \in [DOMAIN vectors -> Symbol]
      /\ DOMAIN reuse = {} /\ reuse \in [DOMAIN reuse -> Symbol]
      /\ DOMAIN staged = {} /\ staged \in [DOMAIN staged -> Text \ Skipped]
  BY NothingFacts DEF Init, Live
<1> QED
  BY <1>1, <1>2 DEF Init, TypeOK, PCs, Kinds, Row

LEMMA StepType == TypeOK /\ [Next]_vars => TypeOK'
<1> SUFFICES ASSUME TypeOK, [Next]_vars PROVE TypeOK'
  OBVIOUS
<1> USE CodeIndexAssumption DEF CodeIndexAssumption
<1> USE DEF disk, db, job, deletes, work, ghosts, Live, PCs, Kinds, Goto, Fault, Rows, Present
<1>1. ASSUME NEW f \in File, NEW t \in Text \cup {Absent}, Edit(f, t) PROVE TypeOK'
  BY <1>1 DEF Edit, TypeOK
<1>2. CASE Update
  BY <1>2 DEF Update, Begin, Prune, TypeOK
<1>3. ASSUME NEW S \in SUBSET File, ReindexFiles(S) PROVE TypeOK'
  BY <1>3 DEF ReindexFiles, Begin, TypeOK
<1>4. ASSUME NEW S \in SUBSET File, IndexScope(S) PROVE TypeOK'
  BY <1>4 DEF IndexScope, Begin, Prune, TypeOK
<1>5. ASSUME NEW S \in SUBSET File, ReindexScope(S) PROVE TypeOK'
  BY <1>5 DEF ReindexScope, Begin, TypeOK
<1>6. ASSUME NEW f \in File, DeleteSymbols(f) PROVE TypeOK'
  <2>1. symbols' = Keep(symbols, DOMAIN symbols \ IdsIn({f}))
    BY <1>6 DEF DeleteSymbols
  <2>2. DOMAIN symbols' \subseteq DOMAIN symbols /\ symbols' \in [DOMAIN symbols' -> Row]
    BY <2>1, KeepTyped, KeepFacts
  <2>3. taken' \subseteq Nat /\ faults' \in 0..MaxFaults /\ lost' \in BOOLEAN
    <3>1. taken' = {} \/ taken' = IdsIn({f})
      BY <1>6 DEF DeleteSymbols, Taken
    <3>2. IdsIn({f}) \subseteq Nat
      BY DEF IdsIn, TypeOK
    <3>3. faults' \in 0..MaxFaults /\ lost' \in BOOLEAN
      <4>1. lost \in BOOLEAN
        BY DEF TypeOK
      <4> QED
        BY <1>6, <4>1, FaultFacts DEF DeleteSymbols
    <3> QED
      BY <3>1, <3>2, <3>3
  <2> QED
    BY <1>6, <2>2, <2>3 DEF DeleteSymbols, Row, TypeOK
<1>7. CASE DeleteRow
  BY <1>7 DEF DeleteRow, TypeOK
<1>8. CASE DeleteFails
  <2>1. hollow' \subseteq File /\ lost' \in BOOLEAN
    BY <1>8 DEF DeleteFails, TypeOK
  <2> QED
    BY <1>8, <2>1 DEF DeleteFails, TypeOK
<1>9. CASE RemoveVectors
  <2>1. /\ DOMAIN vectors' \subseteq Nat \ {0} /\ vectors' \in [DOMAIN vectors' -> Symbol]
        /\ lost' \in BOOLEAN /\ faults' \in 0..MaxFaults
    <3>1. vectors' = Keep(vectors, DOMAIN vectors \ dropped) \/ vectors' = vectors
      BY <1>9 DEF RemoveVectors
    <3>2. lost' \in BOOLEAN /\ faults' \in 0..MaxFaults
      <4>1. lost \in BOOLEAN /\ wrong \in BOOLEAN
        BY DEF TypeOK
      <4> QED
        BY <1>9, <4>1, FaultFacts DEF RemoveVectors
    <3> QED
      BY <3>1, <3>2, VectorsTyped
  <2>2. CASE \E result \in {"ok", "error"} : Return(result)
    <3>1. LocalsGone
      BY <2>2, ReturnFacts
    <3>2. StoresOK'
      BY <1>9, <2>1 DEF RemoveVectors, StoresOK, TypeOK
    <3> QED
      BY <3>1, <3>2, ReturnType
  <2>3. CASE ~ \E result \in {"ok", "error"} : Return(result)
    BY <1>9, <2>1, <2>3 DEF RemoveVectors, TypeOK
  <2> QED
    BY <2>2, <2>3
<1>10. CASE Sweep
  <2>1. /\ DOMAIN vectors' \subseteq Nat \ {0} /\ vectors' \in [DOMAIN vectors' -> Symbol]
        /\ lost' \in BOOLEAN /\ faults' \in 0..MaxFaults
    <3>1. vectors' = Keep(vectors, Live) \/ vectors' = vectors
      BY <1>10 DEF Sweep
    <3>2. lost' \in BOOLEAN /\ faults' \in 0..MaxFaults
      <4>1. lost \in BOOLEAN /\ wrong \in BOOLEAN
        BY DEF TypeOK
      <4> QED
        BY <1>10, <4>1, FaultFacts DEF Sweep
    <3> QED
      BY <3>1, <3>2, VectorsTyped
  <2> QED
    BY <1>10, <2>1 DEF Sweep, TypeOK
<1>11. CASE Diff
  BY <1>11, ReusableTyped DEF Diff, TypeOK
<1>12. CASE Scan
  BY <1>12, ReusableTyped DEF Scan, TypeOK
<1>13. CASE Read
  BY <1>13 DEF Read, TypeOK
<1>14. CASE Stat
  BY <1>14 DEF Stat, TypeOK
<1>15. ASSUME NEW B \in SUBSET File, Commit(B) PROVE TypeOK'
  <2>1. symbols' \in [DOMAIN symbols' -> Row] /\ DOMAIN symbols' \subseteq Nat \ {0}
    BY <1>15, CommitFacts
  <2>2. staged' = Keep(staged, DOMAIN staged \ B) /\ B \subseteq DOMAIN staged
    BY <1>15 DEF Commit
  <2>3. DOMAIN staged' \subseteq File /\ staged' \in [DOMAIN staged' -> Text \ Skipped]
    <3>1. DOMAIN staged' \subseteq DOMAIN staged
      BY <2>2, KeepFacts
    <3>2. staged' \in [DOMAIN staged' -> Text \ Skipped]
      BY <2>2, KeepTyped
    <3> QED
      BY <3>1, <3>2 DEF TypeOK
  <2>4. hash' \in [File -> (Text \ Skipped) \cup {Absent}] /\ hollow' \subseteq File
    BY <1>15, <2>2 DEF Commit, HashOf, TypeOK
  <2> QED
    <3>1. UNCHANGED <<disk, vectors, pc, job, deletes, fresh, walk, changed, reuse, excused, lost,
                      wrong, faults, edits>>
      BY <1>15 DEF Commit
    <3> QED
      BY <2>1, <2>3, <2>4, <3>1 DEF Row, TypeOK
<1>16. CASE CommitFails
  <2>1. Return("error") /\ wrong' \in BOOLEAN
    BY <1>16 DEF CommitFails, MissEmbedding, TypeOK
  <2> QED
    <3>1. LocalsGone
      BY <2>1, ReturnFacts
    <3>2. faults' \in 0..MaxFaults
      BY <1>16, FaultFacts DEF CommitFails
    <3>3. StoresOK'
      BY <1>16, <2>1, <3>2 DEF CommitFails, StoresOK, TypeOK
    <3> QED
      BY <3>1, <3>3, ReturnType
<1>17. CASE Embed
  <2>1. PICK result \in {"ok", "error"} : Return(result)
    BY <1>17 DEF Embed
  <2>2. lost' \in BOOLEAN /\ wrong' \in BOOLEAN
    BY <1>17 DEF Embed, TypeOK
  <2>3. \A i \in Pending : NewVector(i) \in Symbol /\ i \in DOMAIN symbols
    BY DEF NewVector, Pending, IdsIn, TypeOK
  <2>4. DOMAIN vectors' \subseteq Nat \ {0} /\ vectors' \in [DOMAIN vectors' -> Symbol]
    BY <1>17, <2>3 DEF Embed, TypeOK
  <2> QED
    <3>1. LocalsGone
      BY <2>1, ReturnFacts
    <3>2. faults' \in 0..MaxFaults
      BY <1>17, FaultFacts DEF Embed
    <3>3. StoresOK'
      BY <1>17, <2>1, <2>2, <2>4, <3>2 DEF Embed, StoresOK, TypeOK
    <3> QED
      BY <3>1, <3>3, ReturnType
<1>18. CASE EmbedFails
  <2>1. PICK result \in {"ok", "error"} : Return(result)
    BY <1>18 DEF EmbedFails
  <2>2. wrong' \in BOOLEAN
    BY <1>18 DEF EmbedFails, MissEmbedding, TypeOK
  <2> QED
    <3>1. LocalsGone
      BY <2>1, ReturnFacts
    <3>2. faults' \in 0..MaxFaults
      BY <1>18, FaultFacts DEF EmbedFails
    <3>3. StoresOK'
      BY <1>18, <2>1, <2>2, <3>2 DEF EmbedFails, StoresOK, TypeOK
    <3> QED
      BY <3>1, <3>3, ReturnType
<1>19. CASE ClearSymbols
  BY <1>19, NothingFacts DEF ClearSymbols, TypeOK, Row
<1>20. CASE ClearFiles
  BY <1>20 DEF ClearFiles, TypeOK
<1>21. CASE ClearFails
  <2>1. hollow' \subseteq File /\ lost' \in BOOLEAN /\ Return("error")
    BY <1>21 DEF ClearFails, TypeOK
  <2> QED
    <3>1. LocalsGone
      BY <2>1, ReturnFacts
    <3>2. faults' \in 0..MaxFaults
      BY <1>21, FaultFacts DEF ClearFails
    <3>3. StoresOK'
      BY <1>21, <2>1, <3>2 DEF ClearFails, StoresOK, TypeOK
    <3> QED
      BY <3>1, <3>3, ReturnType
<1>22. CASE ClearVectors
  <2>1. /\ DOMAIN vectors' \subseteq Nat \ {0} /\ vectors' \in [DOMAIN vectors' -> Symbol]
        /\ lost' \in BOOLEAN /\ wrong' \in BOOLEAN /\ faults' \in 0..MaxFaults
    <3>1. vectors' = Nothing \/ vectors' = vectors
      BY <1>22 DEF ClearVectors
    <3>2. lost' \in BOOLEAN /\ wrong' \in BOOLEAN /\ faults' \in 0..MaxFaults
      <4>1. lost \in BOOLEAN /\ wrong \in BOOLEAN
        BY DEF TypeOK
      <4> QED
        BY <1>22, <4>1, FaultFacts DEF ClearVectors
    <3> QED
      BY <3>1, <3>2, NothingFacts DEF TypeOK
  <2> QED
    BY <1>22, <2>1 DEF ClearVectors, TypeOK
<1>23. CASE Crash
  <2>1. hollow' \subseteq File /\ lost' \in BOOLEAN /\ wrong' \in BOOLEAN /\ Return("error")
    BY <1>23 DEF Crash, MissEmbedding, TypeOK
  <2> QED
    <3>1. LocalsGone
      BY <2>1, ReturnFacts
    <3>2. faults' \in 0..MaxFaults
      BY <1>23, FaultFacts DEF Crash
    <3>3. StoresOK'
      BY <1>23, <2>1, <3>2 DEF Crash, StoresOK, TypeOK
    <3> QED
      BY <3>1, <3>3, ReturnType
<1>24. CASE UNCHANGED vars
  BY <1>24 DEF vars, TypeOK
<1> QED
  BY <1>1, <1>2, <1>3, <1>4, <1>5, <1>6, <1>7, <1>8, <1>9, <1>10, <1>11, <1>12, <1>13, <1>14,
     <1>15, <1>16, <1>17, <1>18, <1>19, <1>20, <1>21, <1>22, <1>23, <1>24
     DEF Next, Start, Delete, Pipeline, Clear

\* Every variable of the code index keeps its type; the deletes, the diff and
\* the pipeline never leave a local of a finished mutation behind.
THEOREM Typing == Spec => []TypeOK
<1>1. Init => TypeOK
  BY InitType
<1>2. TypeOK /\ [Next]_vars => TypeOK'
  BY StepType
<1> QED
  BY <1>1, <1>2, PTL DEF Spec

----------------------------------------------------------------------------
(* The rows.                                                               *)

\* A file without a row has no symbols.
NoStray == \A f \in File : hash[f] = Absent => SymbolsOf(f) = {}

\* What the steps of a mutation owe each other before they write new rows.
Order ==
  /\ pc = "row" => half \in queue /\ SymbolsOf(half) = {} /\ ~failed
  /\ pc = "clearFiles" => Live = {}
  /\ failed => queue = {} /\ pc = "delete"
  /\ pc \in {"delete", "row"} /\ after = "read" /\ ~failed => changed \cap Rows \subseteq queue
  /\ pc \in {"read", "stat"} => changed \cap Rows = {}
  /\ pc = "commit" => DOMAIN staged \cap Rows = {}
  /\ pc \in {"stat", "commit"} => DOMAIN staged \subseteq changed
  /\ fresh => /\ pc \in {"delete", "row", "read", "stat", "commit"} /\ after = "read"
              /\ reuse = Nothing
  /\ fresh /\ pc \in {"delete", "row", "read"} => Rows = {}
  /\ pc \in {"delete", "row"} /\ after = "end" => changed = {}

RowsInv == TypeOK /\ RowsAreWhole /\ NoStray /\ Order

LEMMA NothingToReuse == \A r \in Reusable({}) : r = Nothing
<1>1. IdsIn({}) = {}
  BY DEF IdsIn
<1>2. {symbols[i].text : i \in IdsIn({}) \cap DOMAIN vectors} = {}
  BY <1>1
<1> QED
  BY <1>2 DEF Reusable, Nothing

LEMMA WholeFrame ==
  ASSUME RowsAreWhole, NoStray, UNCHANGED db, \A f \in File : Torn(f) => Torn(f)'
  PROVE  RowsAreWhole' /\ NoStray'
<1>1. hash' = hash /\ \A f \in File : SymbolsOf(f)' = SymbolsOf(f)
  BY DEF db, SymbolsOf, IdsIn, Live
<1> QED
  BY <1>1 DEF RowsAreWhole, NoStray

LEMMA InitRows == Init => RowsInv
<1> SUFFICES ASSUME Init PROVE RowsInv
  OBVIOUS
<1>1. TypeOK /\ Live = {} /\ Rows = {}
  BY InitType, NothingFacts DEF Init, Live, Rows
<1>2. \A f \in File : SymbolsOf(f) = {} /\ hash[f] = Absent
  BY <1>1 DEF Init, SymbolsOf, IdsIn
<1> QED
  BY <1>1, <1>2 DEF Init, RowsInv, RowsAreWhole, NoStray, Order

LEMMA StepRows == RowsInv /\ [Next]_vars => RowsInv'
<1> SUFFICES ASSUME RowsInv, [Next]_vars PROVE (RowsAreWhole /\ NoStray /\ Order)'
  BY StepType DEF RowsInv
<1> USE DEF disk, db, job, deletes, work, ghosts, Goto, Fault, RowsInv
<1> DEFINE Goal == (RowsAreWhole /\ NoStray /\ Order)'
<1>1. ASSUME NEW f \in File, NEW t \in Text \cup {Absent}, Edit(f, t) PROVE Goal
  <2>1. Order'
    BY <1>1 DEF Edit, Order, SymbolsOf, IdsIn, Live, Rows
  <2> QED
    BY <1>1, <2>1, WholeFrame DEF Edit, Torn
<1>2. CASE Update
  <2>1. Order'
    BY <1>2 DEF Update, Begin, Prune, Order
  <2> QED
    BY <1>2, <2>1, WholeFrame DEF Update, Begin, Torn, TypeOK
<1>3. ASSUME NEW S \in SUBSET File, ReindexFiles(S) PROVE Goal
  <2>1. Order'
    BY <1>3 DEF ReindexFiles, Begin, Order
  <2> QED
    BY <1>3, <2>1, WholeFrame DEF ReindexFiles, Begin, Torn
<1>4. ASSUME NEW S \in SUBSET File, IndexScope(S) PROVE Goal
  <2>1. Order'
    BY <1>4 DEF IndexScope, Begin, Prune, Order
  <2> QED
    BY <1>4, <2>1, WholeFrame DEF IndexScope, Begin, Torn
<1>5. ASSUME NEW S \in SUBSET File, ReindexScope(S) PROVE Goal
  <2>1. Order'
    BY <1>5 DEF ReindexScope, Begin, Order
  <2> QED
    BY <1>5, <2>1, WholeFrame DEF ReindexScope, Begin, Torn
<1>6. ASSUME NEW f \in File, DeleteSymbols(f) PROVE Goal
  <2>1. symbols' = Keep(symbols, DOMAIN symbols \ IdsIn({f}))
    BY <1>6 DEF DeleteSymbols, Live
  <2>2. /\ DOMAIN symbols' = DOMAIN symbols \ IdsIn({f})
        /\ \A i \in DOMAIN symbols' : symbols'[i] = symbols[i]
    <3>1. DOMAIN symbols' = DOMAIN symbols \cap (DOMAIN symbols \ IdsIn({f}))
      BY <2>1, KeepFacts
    <3> QED
      BY <3>1, <2>1, KeepFacts
  <2>3. SymbolsOf(f)' = {}
    BY <2>2 DEF SymbolsOf, IdsIn, Live
  <2>4. \A g \in File \ {f} : SymbolsOf(g)' = SymbolsOf(g)
    BY <2>2 DEF SymbolsOf, IdsIn, Live
  <2>5. pc = "delete" /\ pc' = "row" /\ half' = f /\ UNCHANGED <<hash, hollow>>
    BY <1>6 DEF DeleteSymbols
  <2>6. RowsAreWhole' /\ NoStray'
    BY <2>3, <2>4, <2>5 DEF RowsAreWhole, NoStray, Torn
  <2>7. Order'
    BY <1>6, <2>3 DEF DeleteSymbols, Order, Rows
  <2> QED
    BY <2>6, <2>7
<1>7. CASE DeleteRow
  <2>1. \A f \in File : SymbolsOf(f)' = SymbolsOf(f)
    BY <1>7 DEF DeleteRow, SymbolsOf, IdsIn, Live
  <2>2. half \in File /\ half \in queue /\ SymbolsOf(half) = {} /\ ~failed
    BY <1>7 DEF DeleteRow, Order, TypeOK
  <2>3. hash' = [hash EXCEPT ![half] = Absent] /\ hash'[half] = Absent
    BY <1>7, <2>2 DEF DeleteRow, TypeOK
  <2>4. RowsAreWhole' /\ NoStray'
    BY <1>7, <2>1, <2>2, <2>3 DEF DeleteRow, RowsAreWhole, NoStray, Torn, TypeOK
  <2>5. Rows' = Rows \ {half}
    BY <2>2, <2>3 DEF Rows, TypeOK
  <2>6. Order'
    BY <1>7, <2>2, <2>5 DEF DeleteRow, Order
  <2> QED
    BY <2>4, <2>6
<1>8. CASE DeleteFails
  <2>1. Order'
    BY <1>8 DEF DeleteFails, Order, Rows
  <2> QED
    BY <1>8, <2>1, WholeFrame DEF DeleteFails, Torn
<1>9. CASE RemoveVectors
  <2>1. Order'
    <3>1. CASE \E result \in {"ok", "error"} : Return(result)
      BY <3>1 DEF Return, Order
    <3>2. CASE ~ \E result \in {"ok", "error"} : Return(result)
      <4>1. /\ pc = "delete" /\ queue = {} /\ ~failed /\ after # "end" /\ pc' = after
            /\ UNCHANGED <<queue, half, failed, after, fresh, changed, reuse, staged, hash, symbols>>
        BY <1>9, <3>2 DEF RemoveVectors
      <4>2. after \in {"sweep", "read"}
        BY <4>1 DEF TypeOK
      <4> QED
        BY <4>1, <4>2 DEF Order, Rows
    <3> QED
      BY <3>1, <3>2
  <2> QED
    BY <1>9, <2>1, WholeFrame DEF RemoveVectors, Torn
<1>10. CASE Sweep
  <2>1. Order'
    BY <1>10 DEF Sweep, Order, Rows
  <2> QED
    BY <1>10, <2>1, WholeFrame DEF Sweep, Torn
<1>11. CASE Diff
  <2>1. Order'
    <3>1. /\ pc = "diff" /\ pc' = "delete" /\ UNCHANGED <<hash, symbols, failed, fresh, staged>>
          /\ queue' = ((walk \ Present) \cup changed') \cap Rows
          /\ after' = (IF changed' = {} THEN "end" ELSE "read")
      BY <1>11 DEF Diff
    <3> QED
      BY <3>1 DEF Order, Rows
  <2> QED
    BY <1>11, <2>1, WholeFrame DEF Diff, Torn
<1>12. CASE Scan
  <2>1. Order'
    <3>1. /\ pc = "scan" /\ pc' = "delete" /\ UNCHANGED <<hash, symbols, failed, staged>>
          /\ queue' = changed' \cap Rows
          /\ after' = (IF changed' = {} /\ ~fresh' THEN "end" ELSE "read")
          /\ fresh' => Rows = {} /\ changed' = {} /\ after' = "read" /\ reuse' \in Reusable({})
      BY <1>12 DEF Scan
    <3> QED
      BY <3>1, NothingToReuse DEF Order, Rows
  <2> QED
    BY <1>12, <2>1, WholeFrame DEF Scan, Torn
<1>13. CASE Read
  <2>1. Order'
    BY <1>13 DEF Read, Order, Rows
  <2> QED
    BY <1>13, <2>1, WholeFrame DEF Read, Torn
<1>14. CASE Stat
  <2>1. Order'
    BY <1>14 DEF Stat, Order, Rows
  <2> QED
    BY <1>14, <2>1, WholeFrame DEF Stat, Torn
<1>15. ASSUME NEW B \in SUBSET File, Commit(B) PROVE Goal
  <2>1. /\ B \subseteq DOMAIN staged /\ Live \subseteq Live' /\ symbols' \in [Live' -> Row]
        /\ \A i \in Live : symbols'[i] = symbols[i]
        /\ \A i \in Live' \ Live :
             symbols'[i].file \in B /\ symbols'[i].text \in Symbols[staged[symbols'[i].file]]
        /\ \A f \in B : \A t \in Symbols[staged[f]] :
             \E i \in Live' \ Live : symbols'[i] = [file |-> f, text |-> t]
    BY <1>15, CommitFacts
  <2>2. /\ pc = "commit" /\ UNCHANGED <<pc, half, fresh, after, failed, queue, changed, reuse>>
        /\ hash' = [f \in File |-> IF f \in B THEN staged[f] ELSE hash[f]]
        /\ staged' = Keep(staged, DOMAIN staged \ B) /\ hollow' = hollow \ B
    BY <1>15 DEF Commit, HashOf
  <2>3. \A f \in File \ B : SymbolsOf(f)' = SymbolsOf(f)
    BY <2>1 DEF SymbolsOf, IdsIn
  <2>4. \A f \in B : SymbolsOf(f) = {}
    BY <2>1, <2>2 DEF Order, NoStray, Rows
  <2>5. \A f \in B : SymbolsOf(f)' = Symbols[staged[f]]
    <3> SUFFICES ASSUME NEW f \in B PROVE SymbolsOf(f)' = Symbols[staged[f]]
      OBVIOUS
    <3>1. \A i \in Live : symbols[i].file # f
      BY <2>4 DEF SymbolsOf, IdsIn
    <3>2. \A i \in Live' : symbols'[i].file = f => symbols'[i].text \in Symbols[staged[f]]
      BY <2>1, <3>1
    <3>3. ASSUME NEW t \in Symbols[staged[f]]
          PROVE  \E i \in Live' : symbols'[i].file = f /\ symbols'[i].text = t
      <4>1. PICK i \in Live' \ Live : symbols'[i] = [file |-> f, text |-> t]
        BY <2>1
      <4> QED
        BY <4>1
    <3>4. SymbolsOf(f)' = {symbols'[i].text : i \in {j \in Live' : symbols'[j].file \in {f}}}
      BY DEF SymbolsOf, IdsIn
    <3> QED
      BY <3>2, <3>3, <3>4
  <2>6. RowsAreWhole' /\ NoStray'
    BY <2>1, <2>2, <2>3, <2>5, CodeIndexAssumption
       DEF RowsAreWhole, NoStray, Torn, CodeIndexAssumption, TypeOK
  <2>7. DOMAIN staged' = DOMAIN staged \ B
    <3>1. DOMAIN staged' = DOMAIN staged \cap (DOMAIN staged \ B)
      BY <2>2, KeepFacts
    <3> QED
      BY <3>1
  <2>8. Order'
    BY <2>1, <2>2, <2>7 DEF Order, Rows
  <2> QED
    BY <2>6, <2>8
<1>16. CASE CommitFails
  <2>1. Order'
    BY <1>16 DEF CommitFails, Return, Order
  <2> QED
    BY <1>16, <2>1, WholeFrame DEF CommitFails, Torn
<1>17. CASE Embed
  <2>1. Order'
    BY <1>17 DEF Embed, Return, Order
  <2> QED
    BY <1>17, <2>1, WholeFrame DEF Embed, Torn
<1>18. CASE EmbedFails
  <2>1. Order'
    BY <1>18 DEF EmbedFails, Return, Order
  <2> QED
    BY <1>18, <2>1, WholeFrame DEF EmbedFails, Torn
<1>19. CASE ClearSymbols
  <2>1. Live' = {} /\ \A f \in File : SymbolsOf(f)' = {}
    BY <1>19, NothingFacts DEF ClearSymbols, Live, SymbolsOf, IdsIn
  <2>2. RowsAreWhole' /\ NoStray'
    BY <1>19, <2>1 DEF ClearSymbols, RowsAreWhole, NoStray, Torn
  <2>3. Order'
    BY <1>19, <2>1 DEF ClearSymbols, Order
  <2> QED
    BY <2>2, <2>3
<1>20. CASE ClearFiles
  <2>1. \A f \in File : SymbolsOf(f)' = {} /\ hash'[f] = Absent
    BY <1>20 DEF ClearFiles, Order, SymbolsOf, IdsIn, Live
  <2>2. RowsAreWhole' /\ NoStray'
    BY <2>1 DEF RowsAreWhole, NoStray
  <2>3. Order'
    BY <1>20, <2>1 DEF ClearFiles, Order
  <2> QED
    BY <2>2, <2>3
<1>21. CASE ClearFails
  <2>1. Order'
    BY <1>21 DEF ClearFails, Return, Order
  <2>2. RowsAreWhole' /\ NoStray'
    <3>1. CASE pc = "clear"
      BY <1>21, <3>1, WholeFrame DEF ClearFails, Torn
    <3>2. CASE pc = "clearFiles"
      BY <1>21, <3>2 DEF ClearFails, Return, RowsAreWhole, NoStray, Torn, Rows, SymbolsOf, IdsIn, Live
    <3> QED
      BY <1>21, <3>1, <3>2 DEF ClearFails
  <2> QED
    BY <2>1, <2>2
<1>22. CASE ClearVectors
  <2>1. Order'
    BY <1>22 DEF ClearVectors, Order
  <2> QED
    BY <1>22, <2>1, WholeFrame DEF ClearVectors, Torn
<1>23. CASE Crash
  <2>1. Order'
    BY <1>23 DEF Crash, Return, Order
  <2>2. RowsAreWhole' /\ NoStray'
    <3>1. CASE pc = "clearFiles"
      BY <1>23, <3>1 DEF Crash, Return, RowsAreWhole, NoStray, Torn, Rows, SymbolsOf, IdsIn, Live
    <3>2. CASE pc # "clearFiles"
      BY <1>23, <3>2, WholeFrame DEF Crash, Torn
    <3> QED
      BY <3>1, <3>2
  <2> QED
    BY <2>1, <2>2
<1>24. CASE UNCHANGED vars
  <2>1. Order'
    BY <1>24 DEF vars, Order, Rows, SymbolsOf, IdsIn, Live
  <2> QED
    BY <1>24, <2>1, WholeFrame DEF vars, Torn
<1> HIDE DEF Goal
<1> QED
  BY <1>1, <1>2, <1>3, <1>4, <1>5, <1>6, <1>7, <1>8, <1>9, <1>10, <1>11, <1>12, <1>13, <1>14,
     <1>15, <1>16, <1>17, <1>18, <1>19, <1>20, <1>21, <1>22, <1>23, <1>24
     DEF Next, Start, Delete, Pipeline, Clear, Goal

\* A row in code_files stands for all the symbols of the text it has the hash
\* of, but for one that an interrupted delete left behind.
THEOREM WholeRows == Spec => []RowsAreWhole
<1>1. Init => RowsInv
  BY InitRows
<1>2. RowsInv /\ [Next]_vars => RowsInv'
  BY StepRows
<1>3. RowsInv => RowsAreWhole
  BY DEF RowsInv
<1> QED
  BY <1>1, <1>2, <1>3, PTL DEF Spec

----------------------------------------------------------------------------
(* The vectors.                                                            *)

\* The ids whose vectors are still to be removed, and when there are none; a
\* mutation that has looked at nothing carries nothing over.
Owed ==
  /\ pc \in {"idle", "clear", "clearFiles", "clearVectors"} => DOMAIN reuse = {}
  /\ pc # "row" /\ pc # "clearFiles" => taken = {}
  /\ pc \notin {"delete", "row", "clearVectors"} => dropped = {}
  /\ ~lost => DOMAIN vectors \subseteq Live \cup dropped \cup taken

\* Only an id the run has just written may be under a vector that was missed.
Answered ==
  /\ ~wrong => \A i \in Live \cap DOMAIN vectors :
       Answers(i) \/ (lost /\ pc = "commit" /\ i \in Pending)
  /\ ~wrong => \A t \in DOMAIN reuse : reuse[t] = t

VectorsInv == RowsInv /\ Owed /\ Answered

\* What a step that adds no symbol and no vector preserves.
LEMMA AnsweredFrame ==
  ASSUME Answered, pc # "commit", wrong' = wrong, ~wrong => reuse' = reuse,
         DOMAIN symbols' \subseteq DOMAIN symbols, DOMAIN vectors' \subseteq DOMAIN vectors,
         \A i \in DOMAIN symbols' : symbols'[i] = symbols[i],
         \A i \in DOMAIN vectors' : vectors'[i] = vectors[i]
  PROVE  Answered'
BY DEF Answered, Answers, Live

\* Carried-over vectors answer for their text when those they come from do.
LEMMA ReusedAnswer ==
  ASSUME Answered, pc # "commit", ~wrong, NEW F, NEW r \in Reusable(F), NEW t \in DOMAIN r
  PROVE  r[t] = t
<1>1. r # Nothing
  BY NothingFacts
<1>2. PICK i \in IdsIn(F) \cap DOMAIN vectors : symbols[i].text = t /\ vectors[i] = r[t]
  BY <1>1 DEF Reusable
<1> QED
  BY <1>2 DEF Answered, Answers, IdsIn

\* When the run ends, no vector is left under an id it has written, or it is wrong.
LEMMA MissedAnswer ==
  ASSUME Answered, UNCHANGED <<symbols, vectors>>, pc' = "idle", DOMAIN reuse' = {},
         pc = "commit" => MissEmbedding, pc # "commit" => wrong' = wrong
  PROVE  Answered'
<1>1. CASE pc = "commit"
  BY <1>1 DEF Answered, Answers, MissEmbedding, Live
<1>2. CASE pc # "commit"
  BY <1>2 DEF Answered, Answers, Live
<1> QED
  BY <1>1, <1>2

LEMMA InitVectors == Init => VectorsInv
<1> SUFFICES ASSUME Init PROVE VectorsInv
  OBVIOUS
<1>1. Live = {} /\ DOMAIN vectors = {} /\ DOMAIN reuse = {}
  BY NothingFacts DEF Init, Live
<1> QED
  BY <1>1, InitRows DEF Init, VectorsInv, Owed, Answered

LEMMA StepVectors == VectorsInv /\ [Next]_vars => VectorsInv'
<1> SUFFICES ASSUME VectorsInv, [Next]_vars PROVE (Owed /\ Answered)'
  BY StepRows DEF VectorsInv
<1> USE DEF disk, db, job, deletes, work, ghosts, Goto, Fault, VectorsInv
<1> DEFINE Goal == (Owed /\ Answered)'
<1>1. ASSUME NEW f \in File, NEW t \in Text \cup {Absent}, Edit(f, t) PROVE Goal
  BY <1>1 DEF Edit, Owed, Answered, Answers, Live, Pending, IdsIn
<1>2. CASE Update
  <2>1. pc # "commit" /\ UNCHANGED <<symbols, vectors, wrong, reuse>>
    BY <1>2 DEF Update, Begin
  <2>2. Owed'
    BY <1>2 DEF Update, Begin, Owed, Live
  <2> QED
    BY <2>1, <2>2, AnsweredFrame
<1>3. ASSUME NEW S \in SUBSET File, ReindexFiles(S) PROVE Goal
  <2>1. pc # "commit" /\ UNCHANGED <<symbols, vectors, wrong, reuse>>
    BY <1>3 DEF ReindexFiles, Begin
  <2>2. Owed'
    BY <1>3 DEF ReindexFiles, Begin, Owed, Live
  <2> QED
    BY <2>1, <2>2, AnsweredFrame
<1>4. ASSUME NEW S \in SUBSET File, IndexScope(S) PROVE Goal
  <2>1. pc # "commit" /\ UNCHANGED <<symbols, vectors, wrong, reuse>>
    BY <1>4 DEF IndexScope, Begin
  <2>2. Owed'
    BY <1>4 DEF IndexScope, Begin, Owed, Live
  <2> QED
    BY <2>1, <2>2, AnsweredFrame
<1>5. ASSUME NEW S \in SUBSET File, ReindexScope(S) PROVE Goal
  <2>1. pc # "commit" /\ UNCHANGED <<symbols, vectors, wrong, reuse>>
    BY <1>5 DEF ReindexScope, Begin
  <2>2. Owed'
    BY <1>5 DEF ReindexScope, Begin, Owed, Live
  <2> QED
    BY <2>1, <2>2, AnsweredFrame
<1>6. ASSUME NEW f \in File, DeleteSymbols(f) PROVE Goal
  <2>1. /\ pc = "delete" /\ pc' = "row" /\ UNCHANGED <<vectors, wrong, reuse, dropped>>
        /\ symbols' = Keep(symbols, Live \ IdsIn({f}))
        /\ (taken' = IdsIn({f}) /\ lost' = lost) \/ lost'
    BY <1>6 DEF DeleteSymbols, Taken
  <2>2. /\ DOMAIN symbols' = DOMAIN symbols \cap (Live \ IdsIn({f}))
        /\ \A i \in DOMAIN symbols' : symbols'[i] = symbols[i]
    BY <2>1, KeepFacts
  <2>3. Live' = Live \ IdsIn({f})
    BY <2>2 DEF Live
  <2>4. Owed'
    BY <2>1, <2>3 DEF Owed
  <2> QED
    BY <2>1, <2>2, <2>4, AnsweredFrame
<1>7. CASE DeleteRow
  <2>1. pc # "commit" /\ UNCHANGED <<symbols, vectors, wrong, reuse>>
    BY <1>7 DEF DeleteRow
  <2>2. Owed'
    BY <1>7 DEF DeleteRow, Owed, Live
  <2> QED
    BY <2>1, <2>2, AnsweredFrame
<1>8. CASE DeleteFails
  <2>1. pc # "commit" /\ UNCHANGED <<symbols, vectors, wrong, reuse>>
    BY <1>8 DEF DeleteFails
  <2>2. Owed'
    BY <1>8 DEF DeleteFails, Owed, Live
  <2> QED
    BY <2>1, <2>2, AnsweredFrame
<1>9. CASE RemoveVectors
  <2>1. /\ pc = "delete" /\ pc' # "row" /\ pc' # "clearFiles" /\ UNCHANGED <<symbols, wrong>>
        /\ dropped' = {} /\ taken' = {} /\ (reuse' = reuse \/ reuse' = Nothing)
        /\ pc' \in {"idle", "sweep", "read"} /\ (pc' = "idle" => reuse' = Nothing)
    BY <1>9 DEF RemoveVectors, Return, Owed, TypeOK, RowsInv
  <2>2. \/ vectors' = Keep(vectors, DOMAIN vectors \ dropped) /\ lost' = lost
        \/ vectors' = vectors /\ lost'
    BY <1>9 DEF RemoveVectors
  <2>3. /\ DOMAIN vectors' \subseteq DOMAIN vectors
        /\ \A i \in DOMAIN vectors' : vectors'[i] = vectors[i]
        /\ ~lost' => ~lost /\ DOMAIN vectors' \subseteq DOMAIN vectors \ dropped
    <3>1. /\ DOMAIN Keep(vectors, DOMAIN vectors \ dropped)
               = DOMAIN vectors \cap (DOMAIN vectors \ dropped)
          /\ \A i \in DOMAIN vectors \cap (DOMAIN vectors \ dropped) :
               Keep(vectors, DOMAIN vectors \ dropped)[i] = vectors[i]
      BY KeepFacts
    <3> QED
      BY <2>2, <3>1
  <2>4. Owed'
    BY <2>1, <2>3, NothingFacts DEF Owed, Live
  <2>5. Answered'
    BY <2>1, <2>3, NothingFacts DEF Answered, Answers, Live
  <2> QED
    BY <2>4, <2>5
<1>10. CASE Sweep
  <2>1. /\ pc = "sweep" /\ pc' \in {"diff", "scan"} /\ UNCHANGED <<symbols, wrong, reuse, taken, dropped>>
        /\ (vectors' = Keep(vectors, Live) \/ (vectors' = vectors /\ lost' = lost))
    BY <1>10 DEF Sweep
  <2>2. /\ DOMAIN vectors' \subseteq DOMAIN vectors
        /\ \A i \in DOMAIN vectors' : vectors'[i] = vectors[i]
        /\ DOMAIN vectors' \subseteq Live \/ (vectors' = vectors /\ lost' = lost)
    <3>1. /\ DOMAIN Keep(vectors, Live) = DOMAIN vectors \cap Live
          /\ \A i \in DOMAIN vectors \cap Live : Keep(vectors, Live)[i] = vectors[i]
      BY KeepFacts
    <3> QED
      BY <2>1, <3>1
  <2>3. Owed'
    BY <2>1, <2>2 DEF Owed, Live
  <2> QED
    BY <2>1, <2>2, <2>3, AnsweredFrame
<1>11. CASE Diff
  <2>1. /\ pc = "diff" /\ pc' = "delete" /\ reuse' \in Reusable(changed')
        /\ UNCHANGED <<symbols, vectors, wrong, lost, taken, dropped>>
    BY <1>11 DEF Diff
  <2>2. Owed'
    BY <2>1 DEF Owed, Live
  <2>3. ~wrong => \A t \in DOMAIN reuse' : reuse'[t] = t
    BY <2>1, ReusedAnswer
  <2> QED
    BY <2>1, <2>2, <2>3 DEF Answered, Answers, Live
<1>12. CASE Scan
  <2>1. /\ pc = "scan" /\ pc' = "delete" /\ reuse' \in Reusable(changed')
        /\ UNCHANGED <<symbols, vectors, wrong, lost, taken, dropped>>
    BY <1>12 DEF Scan
  <2>2. Owed'
    BY <2>1 DEF Owed, Live
  <2>3. ~wrong => \A t \in DOMAIN reuse' : reuse'[t] = t
    BY <2>1, ReusedAnswer
  <2> QED
    BY <2>1, <2>2, <2>3 DEF Answered, Answers, Live
<1>13. CASE Read
  <2>1. pc = "read" /\ pc' = "stat" /\ UNCHANGED <<symbols, vectors, wrong, reuse, lost, taken, dropped>>
    BY <1>13 DEF Read
  <2> QED
    BY <2>1, AnsweredFrame DEF Owed, Live
<1>14. CASE Stat
  <2>1. pc = "stat" /\ pc' = "commit" /\ UNCHANGED <<symbols, vectors, wrong, reuse, lost, taken, dropped>>
    BY <1>14 DEF Stat
  <2> QED
    BY <2>1, AnsweredFrame DEF Owed, Live
<1>15. ASSUME NEW B \in SUBSET File, Commit(B) PROVE Goal
  <2>1. /\ B \subseteq DOMAIN staged /\ Live \subseteq Live'
        /\ \A i \in Live : symbols'[i] = symbols[i]
        /\ \A i \in Live' \ Live : symbols'[i].file \in B
    BY <1>15, CommitFacts DEF RowsInv
  <2>2. pc = "commit" /\ UNCHANGED <<pc, vectors, wrong, reuse, lost, taken, dropped, changed>>
    BY <1>15 DEF Commit
  <2>3. DOMAIN staged \subseteq changed
    BY <2>2 DEF RowsInv, Order
  <2>4. Pending \subseteq Pending' /\ Live' \ Live \subseteq Pending'
    BY <2>1, <2>2, <2>3 DEF Pending, IdsIn
  <2>5. taken = {} /\ dropped = {}
    BY <2>2 DEF Owed
  <2>6. Owed'
    BY <2>1, <2>2 DEF Owed
  <2>7. ASSUME ~wrong, NEW i \in Live' \cap DOMAIN vectors
        PROVE  Answers(i)' \/ (lost /\ i \in Pending')
    <3>1. CASE i \in Live
      BY <2>1, <2>2, <2>4, <2>7, <3>1 DEF Answered, Answers
    <3>2. CASE i \notin Live
      BY <2>4, <2>5, <2>7, <3>2 DEF Owed
    <3> QED
      BY <3>1, <3>2
  <2>8. Answered'
    BY <2>2, <2>7 DEF Answered
  <2> QED
    BY <2>6, <2>8
<1>16. CASE CommitFails
  <2>1. /\ pc = "commit" /\ pc' = "idle" /\ MissEmbedding /\ UNCHANGED <<symbols, vectors, lost>>
        /\ DOMAIN reuse' = {} /\ taken' = {} /\ dropped' = {}
    BY <1>16, NothingFacts DEF CommitFails, Return
  <2> QED
    BY <2>1, MissedAnswer DEF Owed, Live
<1>17. CASE Embed
  <2> DEFINE whole == fresh /\ Pending # {}
  <2>1. /\ pc = "commit" /\ pc' = "idle" /\ UNCHANGED symbols
        /\ DOMAIN reuse' = {} /\ taken' = {} /\ dropped' = {}
        /\ vectors' = [i \in Pending \cup (IF whole THEN {} ELSE DOMAIN vectors) |->
                         IF i \in Pending THEN NewVector(i) ELSE vectors[i]]
        /\ lost' = (lost /\ ~whole) /\ wrong' = (wrong /\ ~whole)
    BY <1>17, NothingFacts DEF Embed, Return
  <2>2. Pending \subseteq Live
    BY DEF Pending, IdsIn
  <2>3. ASSUME ~wrong \/ fresh, NEW i \in Pending PROVE NewVector(i) = symbols[i].text
    BY <2>3, NothingFacts DEF NewVector, Answered, RowsInv, Order
  <2>4. Owed'
    BY <2>1, <2>2 DEF Owed, Live
  <2>5. ASSUME ~wrong', NEW i \in Live' \cap DOMAIN vectors' PROVE Answers(i)'
    <3>1. CASE i \in Pending
      BY <2>1, <2>3, <2>5, <3>1 DEF Answers
    <3>2. CASE i \notin Pending
      BY <2>1, <2>5, <3>2 DEF Answered, Answers, Live
    <3> QED
      BY <3>1, <3>2
  <2>6. Answered'
    BY <2>1, <2>5 DEF Answered
  <2> QED
    BY <2>4, <2>6
<1>18. CASE EmbedFails
  <2>1. /\ pc = "commit" /\ pc' = "idle" /\ MissEmbedding /\ UNCHANGED <<symbols, vectors, lost>>
        /\ DOMAIN reuse' = {} /\ taken' = {} /\ dropped' = {}
    BY <1>18, NothingFacts DEF EmbedFails, Return
  <2> QED
    BY <2>1, MissedAnswer DEF Owed, Live
<1>19. CASE ClearSymbols
  <2>1. /\ pc = "clear" /\ pc' = "clearFiles" /\ symbols' = Nothing /\ taken' = Live
        /\ UNCHANGED <<vectors, dropped, lost, wrong, reuse>>
    BY <1>19 DEF ClearSymbols
  <2>2. DOMAIN symbols' = {}
    BY <2>1, NothingFacts
  <2> QED
    BY <2>1, <2>2, AnsweredFrame DEF Owed, Live
<1>20. CASE ClearFiles
  <2>1. pc # "commit" /\ UNCHANGED <<symbols, vectors, wrong, reuse>>
    BY <1>20 DEF ClearFiles
  <2>2. Owed'
    BY <1>20 DEF ClearFiles, Owed, Live
  <2> QED
    BY <2>1, <2>2, AnsweredFrame
<1>21. CASE ClearFails
  <2>1. /\ pc \in {"clear", "clearFiles"} /\ pc' = "idle" /\ UNCHANGED <<symbols, vectors, wrong>>
        /\ DOMAIN reuse' = {} /\ taken' = {} /\ dropped' = {}
        /\ (pc = "clear" /\ lost' = lost) \/ lost'
    BY <1>21, NothingFacts DEF ClearFails, Return
  <2>2. Owed'
    BY <2>1 DEF Owed, Live
  <2> QED
    BY <2>1, <2>2, MissedAnswer
<1>22. CASE ClearVectors
  <2>1. /\ pc = "clearVectors" /\ pc' = "sweep" /\ dropped' = {} /\ UNCHANGED <<symbols, reuse, taken>>
        /\ \/ vectors' = Nothing /\ ~lost' /\ wrong' = FALSE
           \/ vectors' = vectors /\ lost' /\ wrong' = wrong
    BY <1>22 DEF ClearVectors
  <2>2. Owed'
    BY <2>1, NothingFacts DEF Owed, Live
  <2>3. Answered'
    <3>1. CASE vectors' = Nothing /\ wrong' = FALSE
      <4>1. DOMAIN vectors' = {}
        BY <3>1, NothingFacts
      <4>2. pc # "commit" /\ reuse' = reuse
        BY <2>1
      <4>3. \A t \in DOMAIN reuse : reuse[t] = t
        BY <2>1 DEF Owed
      <4> QED
        BY <4>1, <4>2, <4>3 DEF Answered, Live
    <3>2. CASE vectors' = vectors /\ wrong' = wrong
      BY <2>1, <3>2, AnsweredFrame
    <3> QED
      BY <2>1, <3>1, <3>2
  <2> QED
    BY <2>2, <2>3
<1>23. CASE Crash
  <2>1. /\ pc' = "idle" /\ UNCHANGED <<symbols, vectors>>
        /\ DOMAIN reuse' = {} /\ taken' = {} /\ dropped' = {}
        /\ lost' = (lost \/ taken \cup dropped # {})
        /\ pc = "commit" => MissEmbedding
        /\ pc # "commit" => wrong' = wrong
    BY <1>23, NothingFacts DEF Crash, Return
  <2>2. Owed'
    BY <2>1 DEF Owed, Live
  <2> QED
    BY <2>1, <2>2, MissedAnswer
<1>24. CASE UNCHANGED vars
  BY <1>24 DEF vars, Owed, Answered, Answers, Live, Pending, IdsIn
<1> HIDE DEF Goal
<1> QED
  BY <1>1, <1>2, <1>3, <1>4, <1>5, <1>6, <1>7, <1>8, <1>9, <1>10, <1>11, <1>12, <1>13, <1>14,
     <1>15, <1>16, <1>17, <1>18, <1>19, <1>20, <1>21, <1>22, <1>23, <1>24
     DEF Next, Start, Delete, Pipeline, Clear, Goal

\* Between mutations, a vector found under a live id is the one of its symbol,
\* unless a removal was missed and then an embedding.
THEOREM OwnVectors == Spec => []VectorsAnswer
<1>1. Init => VectorsInv
  BY InitVectors
<1>2. VectorsInv /\ [Next]_vars => VectorsInv'
  BY StepVectors
<1>3. VectorsInv => VectorsAnswer
  BY DEF VectorsInv, Answered, VectorsAnswer
<1> QED
  BY <1>1, <1>2, <1>3, PTL DEF Spec

----------------------------------------------------------------------------
(* The mutations and the tree.                                             *)

\* The hash the tree asks for.
Want(f) == IF tree[f] \in Text \ Skipped THEN tree[f] ELSE Absent

\* Which steps each mutation takes, and from which state.
Course ==
  /\ pc # "idle" => outcome = "none"
  /\ fresh => kind \in {"index", "reindex"}
  /\ pc \in {"delete", "row"} /\ after = "sweep" => kind \in {"update", "index"}
  /\ pc = "diff" => kind \in {"update", "files"}
  /\ pc = "scan" => kind \in {"index", "reindex"}
  /\ pc = "sweep" => kind # "files"
  /\ kind = "files" => walk = scope
  /\ pc \in {"clear", "clearFiles", "clearVectors"} => kind = "reindex"
  /\ pc \in {"clearVectors", "sweep", "scan"} /\ kind = "reindex" => Rows = {}
  /\ pc \in {"delete", "row", "read"} /\ kind = "reindex" => fresh

\* How far update has pruned a file that was not in its walk.
Pruned(f) ==
  /\ pc \in {"delete", "row"} /\ after = "sweep" /\ kind = "update" /\ ~failed /\ f \notin walk =>
       tree[f] = Absent /\ (hash[f] = Absent \/ f \in queue)
  /\ pc \in {"sweep", "diff"} /\ kind = "update" /\ f \notin walk =>
       tree[f] = Absent /\ hash[f] = Absent

\* A file is still to be read again, still to be deleted, or right.
Sorted(f) ==
  kind # "index" =>
    /\ pc \in {"delete", "row"} /\ after # "sweep" /\ ~failed /\ ~fresh /\ f \notin changed =>
         IF f \in queue THEN tree[f] = Absent ELSE hash[f] = Want(f)
    /\ pc = "read" /\ ~fresh /\ f \notin changed => hash[f] = Want(f)
    /\ pc \in {"stat", "commit"} =>
         IF f \in DOMAIN staged THEN staged[f] = tree[f] ELSE hash[f] = Want(f)

Tracked == \A f \in scope \ excused : Pruned(f) /\ Sorted(f)

CatchInv == RowsInv /\ Course /\ Tracked

\* What a step that leaves the files, the rows and the plan alone preserves.
LEMMA TrackedFrame ==
  ASSUME Tracked, UNCHANGED <<tree, hash, scope, kind, walk, changed, queue, staged, after, failed,
                              fresh, pc>>,
         excused \subseteq excused'
  PROVE  Tracked'
BY DEF Tracked, Pruned, Sorted, Want

LEMMA IdleTracked == ASSUME pc' = "idle" PROVE Tracked'
BY DEF Tracked, Pruned, Sorted

LEMMA InitCatch == Init => CatchInv
<1> SUFFICES ASSUME Init PROVE CatchInv
  OBVIOUS
<1> QED
  BY InitRows DEF Init, CatchInv, Course, Tracked

LEMMA StepCatch == CatchInv /\ [Next]_vars => CatchInv'
<1> SUFFICES ASSUME CatchInv, [Next]_vars PROVE (Course /\ Tracked)'
  BY StepRows DEF CatchInv
<1>0. TypeOK /\ Order
  BY DEF CatchInv, RowsInv
<1> USE DEF disk, db, job, deletes, work, ghosts, Goto, Fault, CatchInv
<1> DEFINE Goal == (Course /\ Tracked)'
<1>1. ASSUME NEW f \in File, NEW t \in Text \cup {Absent}, Edit(f, t) PROVE Goal
  <2>1. Course'
    BY <1>1 DEF Edit, Course, Rows
  <2>2. /\ \A g \in File \ {f} : tree'[g] = tree[g]
        /\ UNCHANGED <<hash, pc, kind, scope, walk, changed, queue, staged, after, failed, fresh>>
        /\ pc # "idle" => excused' = excused \cup {f}
        /\ excused \subseteq excused'
    BY <1>0, <1>1 DEF Edit, TypeOK
  <2>3. scope \subseteq File
    BY <1>0 DEF TypeOK
  <2>4. CASE pc = "idle"
    BY <2>1, <2>2, <2>4, IdleTracked
  <2>5. CASE pc # "idle"
    <3> SUFFICES ASSUME NEW g \in scope \ excused' PROVE (Pruned(g) /\ Sorted(g))'
      BY <2>1, <2>2 DEF Tracked
    <3>1. tree'[g] = tree[g] /\ Pruned(g) /\ Sorted(g)
      BY <2>2, <2>3, <2>5 DEF Tracked
    <3>2. Want(g)' = Want(g)
      BY <3>1 DEF Want
    <3> QED
      BY <2>2, <3>1, <3>2 DEF Pruned, Sorted
  <2> QED
    BY <2>1, <2>4, <2>5
<1>2. CASE Update
  <2>1. Course'
    BY <1>0, <1>2 DEF Update, Begin, Prune, Course, Order
  <2>2. Tracked'
    BY <1>0, <1>2 DEF Update, Begin, Prune, Tracked, Pruned, Sorted, Rows, Present, TypeOK
  <2> QED
    BY <2>1, <2>2
<1>3. ASSUME NEW S \in SUBSET File, ReindexFiles(S) PROVE Goal
  BY <1>0, <1>3 DEF ReindexFiles, Begin, Course, Order, Tracked, Pruned, Sorted
<1>4. ASSUME NEW S \in SUBSET File, IndexScope(S) PROVE Goal
  BY <1>0, <1>4 DEF IndexScope, Begin, Prune, Course, Order, Tracked, Pruned, Sorted
<1>5. ASSUME NEW S \in SUBSET File, ReindexScope(S) PROVE Goal
  BY <1>0, <1>5 DEF ReindexScope, Begin, Course, Order, Tracked, Pruned, Sorted
<1>6. ASSUME NEW f \in File, DeleteSymbols(f) PROVE Goal
  <2>1. /\ pc = "delete" /\ pc' = "row"
        /\ UNCHANGED <<tree, hash, scope, kind, walk, changed, queue, staged, after, failed, fresh,
                       excused, outcome>>
    BY <1>6 DEF DeleteSymbols
  <2>2. Course'
    BY <2>1 DEF Course, Rows
  <2> QED
    BY <2>1, <2>2 DEF Tracked, Pruned, Sorted, Want
<1>7. CASE DeleteRow
  <2>1. /\ pc = "row" /\ pc' = "delete"
        /\ hash' = [hash EXCEPT ![half] = Absent] /\ queue' = queue \ {half}
        /\ UNCHANGED <<tree, scope, kind, walk, changed, staged, after, failed, fresh, excused,
                       outcome>>
    BY <1>7 DEF DeleteRow
  <2>2. half \in queue /\ half \in File /\ ~failed
    BY <1>0, <2>1 DEF Order, TypeOK
  <2>3. hash'[half] = Absent /\ \A f \in File \ {half} : hash'[f] = hash[f]
    BY <1>0, <2>1, <2>2 DEF TypeOK
  <2>4. Course'
    BY <2>1 DEF Course
  <2>5. Absent \notin Text /\ scope \subseteq File
    BY <1>0, CodeIndexAssumption DEF CodeIndexAssumption, TypeOK
  <2>6. Tracked'
    BY <2>1, <2>2, <2>3, <2>5 DEF Tracked, Pruned, Sorted, Want
  <2> QED
    BY <2>4, <2>6
<1>8. CASE DeleteFails
  <2>1. /\ pc' = "delete" /\ failed' = TRUE /\ pc \in {"delete", "row"}
        /\ UNCHANGED <<tree, hash, scope, kind, walk, changed, staged, after, fresh, excused, outcome>>
    BY <1>8 DEF DeleteFails
  <2> QED
    BY <2>1 DEF Course, Tracked, Pruned, Sorted, Rows
<1>9. CASE RemoveVectors
  <2>1. CASE \E result \in {"ok", "error"} : Return(result)
    BY <2>1 DEF Return, Course, Tracked
  <2>2. CASE ~ \E result \in {"ok", "error"} : Return(result)
    <3>1. /\ pc = "delete" /\ queue = {} /\ ~failed /\ after # "end" /\ pc' = after
          /\ UNCHANGED <<tree, hash, kind, scope, outcome, queue, failed, after, fresh, walk, changed,
                         staged, excused>>
      BY <1>9, <2>2 DEF RemoveVectors
    <3>2. after \in {"sweep", "read"}
      BY <1>0, <3>1 DEF TypeOK
    <3>3. fresh => after = "read"
      BY <1>0 DEF Order
    <3>4. Course'
      BY <3>1, <3>2, <3>3 DEF Course, Rows
    <3>5. Tracked'
      BY <3>1, <3>2 DEF Tracked, Pruned, Sorted, Want
    <3> QED
      BY <3>4, <3>5
  <2> QED
    BY <2>1, <2>2
<1>10. CASE Sweep
  <2>1. /\ pc = "sweep" /\ pc' = (IF kind = "update" THEN "diff" ELSE "scan")
        /\ UNCHANGED <<tree, hash, scope, kind, walk, excused, outcome, fresh>>
    BY <1>10 DEF Sweep
  <2>2. kind \in {"update", "index", "reindex"}
    BY <1>0, <2>1 DEF Course, TypeOK, Kinds
  <2> QED
    BY <2>1, <2>2 DEF Course, Tracked, Pruned, Sorted, Rows
<1>11. CASE Diff
  <2>1. PICK U \in SUBSET (walk \cap Present) :
          /\ excused' = excused \cup U
          /\ changed' = {f \in (walk \cap Present) \ U : Differs(f)}
          /\ queue' = ((walk \ Present) \cup changed') \cap Rows
    BY <1>11 DEF Diff
  <2>2. /\ pc = "diff" /\ pc' = "delete" /\ after' \in {"end", "read"}
        /\ UNCHANGED <<tree, hash, scope, kind, walk, outcome, fresh, staged>>
    BY <1>11 DEF Diff
  <2>3. kind \in {"update", "files"} /\ ~fresh
    BY <1>0, <2>2 DEF Course, Order
  <2>4. Course'
    BY <2>2, <2>3 DEF Course
  <2>5. ASSUME NEW f \in scope \ excused', f \notin changed'
        PROVE  IF f \in queue' THEN tree[f] = Absent ELSE hash[f] = Want(f)
    <3>1. f \in File /\ f \notin excused
      BY <1>0, <2>1, <2>5 DEF TypeOK
    <3>2. CASE f \notin walk
      BY <1>0, <2>1, <2>2, <2>3, <2>5, <3>1, <3>2, CodeIndexAssumption
         DEF Tracked, Pruned, Course, Want, CodeIndexAssumption
    <3>3. CASE f \in walk \ Present
      BY <1>0, <2>1, <3>1, <3>3, CodeIndexAssumption
         DEF Present, Rows, Want, CodeIndexAssumption
    <3>4. CASE f \in walk \cap Present
      <4>1. hash[f] = tree[f] /\ tree[f] # Absent
        BY <2>1, <2>5, <3>4 DEF Differs, Present
      <4>2. tree[f] \in Text \ Skipped
        BY <1>0, <3>1, <4>1 DEF TypeOK
      <4>3. f \notin queue'
        BY <2>1, <2>5, <3>4
      <4> QED
        BY <4>1, <4>2, <4>3 DEF Want
    <3> QED
      BY <3>2, <3>3, <3>4
  <2>6. Tracked'
    BY <2>2, <2>5 DEF Tracked, Pruned, Sorted, Want
  <2> QED
    BY <2>4, <2>6
<1>12. CASE Scan
  <2>1. /\ pc = "scan" /\ pc' = "delete" /\ fresh' = (Rows = {}) /\ after' \in {"end", "read"}
        /\ UNCHANGED <<tree, hash, scope, kind, walk, outcome, excused>>
    BY <1>12 DEF Scan
  <2>2. kind \in {"index", "reindex"} /\ (kind = "reindex" => fresh')
    BY <2>1 DEF Course
  <2>3. Course'
    BY <2>1, <2>2 DEF Course
  <2> QED
    BY <2>1, <2>2, <2>3 DEF Tracked, Pruned, Sorted
<1>13. CASE Read
  <2>1. /\ pc = "read" /\ pc' = "stat"
        /\ changed' = IF fresh THEN scope \cap Present ELSE changed
        /\ UNCHANGED <<tree, hash, scope, kind, walk, outcome, fresh, after>>
    BY <1>13 DEF Read
  <2>2. PICK U \in SUBSET (changed' \cap Present) :
          /\ excused' = excused \cup U
          /\ staged' = [f \in {g \in (changed' \cap Present) \ U : tree[g] \notin Skipped} |-> tree[f]]
    BY <1>13 DEF Read
  <2>3. Course'
    BY <2>1 DEF Course
  <2>4. ASSUME NEW f \in scope \ excused', kind # "index"
        PROVE  IF f \in DOMAIN staged' THEN staged'[f] = tree[f] ELSE hash[f] = Want(f)
    <3>1. f \in File /\ f \notin excused /\ f \notin U
      BY <1>0, <2>2, <2>4 DEF TypeOK
    <3>2. CASE f \in DOMAIN staged'
      BY <2>2, <3>2
    <3>3. CASE f \notin DOMAIN staged' /\ f \in changed'
      <4>1. hash[f] = Absent
        BY <1>0, <2>1, <3>1, <3>3 DEF Order, Rows
      <4>2. tree[f] \notin Text \ Skipped
        BY <2>2, <3>1, <3>3, CodeIndexAssumption DEF Present, CodeIndexAssumption
      <4> QED
        BY <3>3, <4>1, <4>2 DEF Want
    <3>4. CASE f \notin DOMAIN staged' /\ f \notin changed' /\ fresh
      <4>1. hash[f] = Absent /\ tree[f] = Absent
        BY <1>0, <2>1, <2>4, <3>1, <3>4 DEF Order, Rows, Present
      <4> QED
        BY <3>4, <4>1, CodeIndexAssumption DEF Want, CodeIndexAssumption
    <3>5. CASE f \notin DOMAIN staged' /\ f \notin changed' /\ ~fresh
      BY <2>1, <2>4, <3>1, <3>5 DEF Tracked, Sorted
    <3> QED
      BY <3>2, <3>3, <3>4, <3>5
  <2>5. Tracked'
    BY <2>1, <2>4 DEF Tracked, Pruned, Sorted, Want
  <2> QED
    BY <2>3, <2>5
<1>14. CASE Stat
  <2>1. /\ pc = "stat" /\ pc' = "commit"
        /\ UNCHANGED <<tree, hash, scope, kind, walk, outcome, fresh, staged, excused>>
    BY <1>14 DEF Stat
  <2> QED
    BY <2>1 DEF Course, Tracked, Pruned, Sorted, Want
<1>15. ASSUME NEW B \in SUBSET File, Commit(B) PROVE Goal
  <2>1. /\ pc = "commit" /\ B \subseteq DOMAIN staged
        /\ hash' = [f \in File |-> IF f \in B THEN staged[f] ELSE hash[f]]
        /\ staged' = Keep(staged, DOMAIN staged \ B)
        /\ UNCHANGED <<pc, tree, scope, kind, walk, outcome, fresh, excused>>
    BY <1>15 DEF Commit, HashOf
  <2>2. /\ DOMAIN staged' = DOMAIN staged \cap (DOMAIN staged \ B)
        /\ \A f \in DOMAIN staged' : staged'[f] = staged[f]
    BY <2>1, KeepFacts
  <2>3. Course'
    BY <2>1 DEF Course
  <2>4. ASSUME NEW f \in scope \ excused, kind # "index"
        PROVE  IF f \in DOMAIN staged' THEN staged'[f] = tree[f] ELSE hash'[f] = Want(f)
    <3>1. f \in File /\ IF f \in DOMAIN staged THEN staged[f] = tree[f] ELSE hash[f] = Want(f)
      BY <1>0, <2>1, <2>4 DEF Tracked, Sorted, TypeOK
    <3>2. f \in DOMAIN staged => staged[f] \in Text \ Skipped
      BY <1>0 DEF TypeOK
    <3> QED
      BY <2>1, <2>2, <3>1, <3>2 DEF Want
  <2>5. Tracked'
    BY <2>1, <2>4 DEF Tracked, Pruned, Sorted, Want
  <2> QED
    BY <2>3, <2>5
<1>16. CASE CommitFails
  BY <1>16 DEF CommitFails, Return, Course, Tracked
<1>17. CASE Embed
  BY <1>17 DEF Embed, Return, Course, Tracked
<1>18. CASE EmbedFails
  BY <1>18 DEF EmbedFails, Return, Course, Tracked
<1>19. CASE ClearSymbols
  BY <1>19 DEF ClearSymbols, Course, Tracked, Pruned, Sorted
<1>20. CASE ClearFiles
  <2>1. Rows' = {}
    BY <1>20 DEF ClearFiles, Rows
  <2> QED
    BY <1>20, <2>1 DEF ClearFiles, Course, Tracked, Pruned, Sorted
<1>21. CASE ClearFails
  BY <1>21 DEF ClearFails, Return, Course, Tracked
<1>22. CASE ClearVectors
  BY <1>22 DEF ClearVectors, Course, Tracked, Pruned, Sorted, Rows
<1>23. CASE Crash
  BY <1>23 DEF Crash, Return, Course, Tracked
<1>24. CASE UNCHANGED vars
  BY <1>24, TrackedFrame DEF vars, Course, Rows
<1> HIDE DEF Goal
<1> QED
  BY <1>1, <1>2, <1>3, <1>4, <1>5, <1>6, <1>7, <1>8, <1>9, <1>10, <1>11, <1>12, <1>13, <1>14,
     <1>15, <1>16, <1>17, <1>18, <1>19, <1>20, <1>21, <1>22, <1>23, <1>24
     DEF Next, Start, Delete, Pipeline, Clear, Goal

\* A file whose row has the hash the tree asks for is caught up with, if its
\* row is whole.
LEMMA RightRows ==
  ASSUME CatchInv, pc \in {"delete", "commit"}, NEW f \in File, f \notin hollow, hash[f] = Want(f),
         UNCHANGED <<tree, hash, symbols>>
  PROVE  CaughtUp(f)'
<1>1. SymbolsOf(f)' = SymbolsOf(f)
  BY DEF SymbolsOf, IdsIn, Live
<1>2. CASE tree[f] \in Text \ Skipped
  BY <1>1, <1>2, CodeIndexAssumption
     DEF CatchInv, RowsInv, RowsAreWhole, Torn, Want, CaughtUp, CodeIndexAssumption
<1>3. CASE tree[f] \notin Text \ Skipped
  BY <1>1, <1>3 DEF CatchInv, RowsInv, NoStray, Want, CaughtUp
<1> QED
  BY <1>2, <1>3

LEMMA EndsCaughtUp ==
  ASSUME CatchInv, [Next]_vars, pc # "idle", outcome' = "ok", kind # "index"
  PROVE  \A f \in scope \ (excused \cup hollow) : CaughtUp(f)'
<1>0. TypeOK /\ Order /\ Course /\ Tracked /\ outcome = "none"
  BY DEF CatchInv, RowsInv, Course
<1> SUFFICES ASSUME NEW f \in scope \ (excused \cup hollow) PROVE CaughtUp(f)'
  OBVIOUS
<1>1. f \in File
  BY <1>0 DEF TypeOK
<1> USE DEF disk, db, job, deletes, work, ghosts, Goto, Fault
<1>2. CASE RemoveVectors
  <2>1. /\ pc = "delete" /\ queue = {} /\ ~failed /\ after = "end"
        /\ UNCHANGED <<tree, hash, symbols>>
    BY <1>0, <1>2 DEF RemoveVectors, Return
  <2>2. ~fresh /\ f \notin changed => hash[f] = Want(f)
    BY <1>0, <2>1 DEF Tracked, Sorted
  <2>3. ~fresh /\ changed = {}
    BY <1>0, <2>1 DEF Order
  <2> QED
    BY <1>1, <2>1, <2>2, <2>3, RightRows
<1>3. CASE Embed \/ EmbedFails
  <2>1. pc = "commit" /\ staged = Nothing /\ UNCHANGED <<tree, hash, symbols>>
    BY <1>3 DEF Embed, EmbedFails
  <2>2. hash[f] = Want(f)
    BY <1>0, <2>1, NothingFacts DEF Tracked, Sorted
  <2> QED
    BY <1>1, <2>1, <2>2, RightRows
<1>4. CASE ~ (RemoveVectors \/ Embed \/ EmbedFails)
  <2>1. outcome' # "ok"
    BY <1>0, <1>4 DEF Next, Start, Delete, Pipeline, Clear, vars, Edit, Update, ReindexFiles,
       IndexScope, ReindexScope, Begin, DeleteSymbols, DeleteRow, DeleteFails, Sweep, Diff, Scan,
       Read, Stat, Commit, CommitFails, ClearSymbols, ClearFiles, ClearFails, ClearVectors, Crash,
       Return
  <2> QED
    BY <2>1
<1> QED
  BY <1>2, <1>3, <1>4

\* A mutation that ends well leaves every file of its scope as the tree has it.
THEOREM MutationsCatchUp == Spec => CatchesUp
<1>1. Init => CatchInv
  BY InitCatch
<1>2. CatchInv /\ [Next]_vars => CatchInv'
  BY StepCatch
<1>3. CatchInv /\ [Next]_vars =>
        [pc # "idle" /\ outcome' = "ok" /\ kind # "index"
         => \A f \in scope \ (excused \cup hollow) : CaughtUp(f)']_vars
  BY EndsCaughtUp
<1> QED
  BY <1>1, <1>2, <1>3, PTL DEF Spec, CatchesUp

=============================================================================
