--------------------------- MODULE QuarantineProofs ---------------------------
(***************************************************************************)
(* Proofs about Quarantine, for any processes, rows, tables and number of  *)
(* replacements: the variables keep their types, no row that reached the   *)
(* database and was not torn is lost, and a fresh database meets the WAL   *)
(* of another generation only after a stop between the two renames.        *)
(***************************************************************************)
EXTENDS Quarantine, TLAPS

LEMMA GenFacts ==
  /\ Nobody \notin Proc
  /\ 1 \in Gen /\ NoGen \notin Gen /\ 1 \in 1..(Tables + 1)
  /\ \A g \in Gen : g \in Nat /\ (g < MaxGen => g + 1 \in Gen)
  /\ MaxGen \in Nat /\ Tables \in Nat
BY QuarantineAssumption DEF Gen, NoGen, QuarantineAssumption

LEMMA InitTyping == Init => TypeOK
BY GenFacts DEF Init, TypeOK, PCs

LEMMA UseTyping == TypeOK /\ Use => TypeOK'
<1> SUFFICES ASSUME TypeOK, Use PROVE TypeOK'
  OBVIOUS
<1>1. ASSUME NEW p \in Proc, NEW r \in Row, Write(p, r) PROVE TypeOK'
  BY <1>1 DEF Write, TypeOK, notes, salvage
<1>2. CASE Checkpoint
  BY <1>2 DEF Checkpoint, Checkpointed, TypeOK, places, notes, salvage, history
<1>3. ASSUME NEW p \in Proc, Close(p) PROVE TypeOK'
  <2>1. /\ main' \in [Gen -> SUBSET Row] /\ wal' \in [Gen -> SUBSET Row]
        /\ walAt' \in [Gen -> {"none", "path", "copy", "gone"}]
    BY <1>3 DEF Close, LastCloses, Checkpointed, TypeOK
  <2> QED
    BY <1>3, <2>1 DEF Close, TypeOK, notes, salvage, history
<1>4. ASSUME NEW p \in Proc, Die(p) PROVE TypeOK'
  BY <1>4, GenFacts DEF Die, Fails, TypeOK, PCs, places, data, notes, salvage, history
<1>5. ASSUME NEW R \in SUBSET Row, Tear(R) PROVE TypeOK'
  BY <1>5 DEF Tear, TypeOK, places, notes, salvage
<1>6. ASSUME NEW g \in Gen, Expire(g) PROVE TypeOK'
  BY <1>6 DEF Expire, TypeOK, places, data, salvage, history
<1> QED
  BY <1>1, <1>2, <1>3, <1>4, <1>5, <1>6 DEF Use

LEMMA OpenTyping == TypeOK /\ Open => TypeOK'
<1> SUFFICES ASSUME TypeOK, Open PROVE TypeOK'
  OBVIOUS
<1> USE GenFacts
<1>1. ASSUME NEW p \in Proc, BeginOpen(p) PROVE TypeOK'
  BY <1>1 DEF BeginOpen, TypeOK, PCs, places, data, notes, salvage, history
<1>2. CASE Probe
  <2>1. /\ main' \in [Gen -> SUBSET Row] /\ wal' \in [Gen -> SUBSET Row]
        /\ walAt' \in [Gen -> {"none", "path", "copy", "gone"}]
    BY <1>2 DEF Probe, ProbeNothing, ProbeTrusts, ProbeReads, ProbeUndetermined,
                LastCloses, Checkpointed, TypeOK
  <2>2. Fails \/ (pc' \in {"connect", "condemned"} /\ UNCHANGED <<opener, healing>>)
    BY <1>2 DEF Probe, ProbeNothing, ProbeTrusts, ProbeReads, ProbeUndetermined
  <2>3. opener # Nobody
    BY <1>2 DEF Probe, TypeOK
  <2>4. /\ pc' \in PCs /\ (pc' = "idle") = (opener' = Nobody)
        /\ opener' \in Proc \cup {Nobody} /\ healing' \in Gen \cup {NoGen}
    BY <2>2, <2>3 DEF Fails, TypeOK, PCs
  <2> QED
    BY <1>2, <2>1, <2>4 DEF Probe, TypeOK, notes, salvage, history
<1>3. CASE NotRenamed
  BY <1>3 DEF NotRenamed, Fails, TypeOK, PCs, places, data, notes, salvage, history
<1>4. CASE RenameMain
  BY <1>4 DEF RenameMain, TypeOK, PCs, data, notes, salvage
<1>5. CASE RenameWal
  BY <1>5 DEF RenameWal, TypeOK, PCs, data, notes, salvage, history
<1>6. CASE RenameWalFails
  BY <1>6 DEF RenameWalFails, Fails, TypeOK, PCs, data, notes, salvage
<1>7. CASE Connect
  <2>1. CASE Missing
    <3>1. latest' \in Gen
      BY <1>7, <2>1 DEF Connect, TypeOK
    <3>2. /\ mainAt' \in [Gen -> {"none", "path", "copy", "gone"}]
          /\ walAt' \in [Gen -> {"none", "path", "copy", "gone"}]
      BY <1>7, <2>1, <3>1 DEF Connect, TypeOK
    <3> QED
      BY <1>7, <3>1, <3>2 DEF Connect, TypeOK, PCs, data, notes, salvage, history
  <2>2. CASE ~Missing
    BY <1>7, <2>2 DEF Connect, TypeOK, PCs, places, data, notes, salvage, history
  <2> QED
    BY <2>1, <2>2
<1>8. CASE OpenFails
  <2>1. /\ main' \in [Gen -> SUBSET Row] /\ wal' \in [Gen -> SUBSET Row]
        /\ walAt' \in [Gen -> {"none", "path", "copy", "gone"}]
    BY <1>8 DEF OpenFails, LastCloses, Checkpointed, TypeOK
  <2> QED
    BY <1>8, <2>1 DEF OpenFails, Fails, TypeOK, PCs, notes, salvage, history
<1>9. CASE SetUp
  BY <1>9 DEF SetUp, TypeOK, PCs, places, data, notes, history
<1>10. CASE SalvageTable
  <2>1. PICK S \in SUBSET Readable :
          /\ wal' = [wal EXCEPT ![latest] = @ \cup S]
          /\ walAt' = [walAt EXCEPT ![latest] = "path"]
          /\ whole' \in IF S = Readable THEN {whole, FALSE} ELSE {FALSE}
    BY <1>10 DEF SalvageTable
  <2>2. S \subseteq Row
    BY <2>1 DEF Readable
  <2>3. whole' \in BOOLEAN
    BY <1>10, <2>1 DEF TypeOK
  <2>4. table' \in 1..(Tables + 1)
    BY <1>10 DEF SalvageTable, TablesLeft, TypeOK
  <2> QED
    BY <1>10, <2>1, <2>2, <2>3, <2>4 DEF SalvageTable, TypeOK, notes, history
<1>11. CASE EndSalvage
  BY <1>11 DEF EndSalvage, TypeOK, PCs, places, data, notes, salvage, history
<1>12. CASE WriteReport
  BY <1>12 DEF WriteReport, TypeOK, PCs, places, data, salvage, history
<1>13. CASE Sweep
  <2>1. /\ mainAt' \in [Gen -> {"none", "path", "copy", "gone"}]
        /\ walAt' \in [Gen -> {"none", "path", "copy", "gone"}]
    BY <1>13 DEF Sweep, Without, TypeOK
  <2>2. holders' \subseteq Proc
    BY <1>13 DEF Sweep, TypeOK
  <2> QED
    BY <1>13, <2>1, <2>2 DEF Sweep, TypeOK, PCs, data, notes, salvage, history
<1> QED
  BY <1>1, <1>2, <1>3, <1>4, <1>5, <1>6, <1>7, <1>8, <1>9, <1>10, <1>11, <1>12, <1>13
     DEF Open, Quarantining, Salvaging

\* Every variable of the store's files keeps its type.
THEOREM FilesTyping == Spec => []TypeOK
<1>1. TypeOK /\ [Next]_vars => TypeOK'
  <2>1. TypeOK /\ UNCHANGED vars => TypeOK'
    BY DEF vars, TypeOK, places, data, notes, salvage, history
  <2> QED
    BY <2>1, UseTyping, OpenTyping DEF Next
<1> QED
  BY <1>1, InitTyping, PTL DEF Spec

-----------------------------------------------------------------------------
(* Nothing is lost.                                                         *)

\* Row r is gone by damage or with a WAL, or is in a file the sweep leaves alone.
Saved(r) ==
  \/ r \in torn \cup tail
  \/ \E g \in Gen : Holds(g, r) /\ report[g] # "whole"

\* Where the files are while an open proceeds: only the latest generation is at
\* the path, and it is reported on only after another took its place.
Shape ==
  /\ \A g \in Gen : g # latest => walAt[g] # "path" /\ mainAt[g] # "path"
  /\ \A g \in Gen : g >= latest => report[g] = "none"
  /\ Missing => wal[latest] \subseteq tail /\ holders = {}
  /\ pc \in {"condemned", "setup", "salvage", "report", "sweep"} => ~Missing
  /\ pc = "sides" => Missing /\ healing = latest
  /\ pc \in {"salvage", "report"} => healing \in Gen
  /\ healing # NoGen => healing <= latest /\ mainAt[healing] = "copy"

\* A salvage that still counts as whole has brought every row of the tables it is
\* done with into the store.
SalvagedSoFar ==
  pc \in {"salvage", "report"} /\ whole =>
    \A r \in main[healing] :
      pc = "report" \/ TableOf[r] < table => r \in torn \cup tail \/ Holds(latest, r)

\* The inductive invariant: a copy may be swept once its report says whole, so what
\* is saved must be in a file of another generation by then.
IInv == TypeOK /\ Shape /\ SalvagedSoFar /\ \A r \in committed : Saved(r)

LEMMA InitIInv == Init => IInv
<1> SUFFICES ASSUME Init PROVE IInv
  OBVIOUS
<1>1. Shape
  BY GenFacts DEF Init, Shape, Missing
<1>2. SalvagedSoFar /\ \A r \in committed : Saved(r)
  BY DEF Init, SalvagedSoFar
<1> QED
  BY <1>1, <1>2, InitTyping DEF IInv

LEMMA LatestUnreported == IInv => latest \in Gen /\ latest \in Nat /\ report[latest] = "none"
<1> SUFFICES ASSUME IInv PROVE latest \in Gen /\ latest \in Nat /\ report[latest] = "none"
  OBVIOUS
<1>1. latest \in Gen /\ latest \in Nat
  BY GenFacts DEF IInv, TypeOK
<1>2. latest >= latest
  BY <1>1
<1> QED
  BY <1>1, <1>2 DEF IInv, Shape

\* Moving the WAL into the database loses no row, whether or not the WAL goes.
LEMMA ClosesKeep ==
  ASSUME TypeOK, ~Missing, mainAt' = mainAt, latest' = latest,
         LastCloses \/ (Checkpointed /\ UNCHANGED walAt)
  PROVE  /\ \A g \in Gen, r \in Row : Holds(g, r) => Holds(g, r)'
         /\ \A g \in Gen : g # latest => main'[g] = main[g]
         /\ \A g \in Gen : walAt'[g] = walAt[g] \/ walAt'[g] = "none"
<1>1. CASE Checkpointed
  <2>1. /\ \A g \in Gen : walAt'[g] = walAt[g] \/ (g = latest /\ walAt'[g] = "none")
    BY <1>1 DEF LastCloses, TypeOK
  <2>2. \A g \in Gen : main'[g] = IF g = latest THEN main[g] \cup wal[g] ELSE main[g]
    BY <1>1 DEF Checkpointed, TypeOK
  <2>3. \A g \in Gen : g # latest => wal'[g] = wal[g]
    BY <1>1 DEF Checkpointed, TypeOK
  <2>4. mainAt[latest] = "path"
    BY DEF Missing
  <2>5. ASSUME NEW g \in Gen, NEW r \in Row, Holds(g, r) PROVE Holds(g, r)'
    <3>1. CASE g = latest
      BY <2>2, <2>4, <2>5, <3>1 DEF Holds
    <3>2. CASE g # latest
      BY <2>1, <2>2, <2>3, <2>5, <3>2 DEF Holds
    <3> QED
      BY <3>1, <3>2
  <2> QED
    BY <2>1, <2>2, <2>5
<1>2. CASE UNCHANGED <<main, wal, walAt>>
  BY <1>2 DEF Holds
<1> QED
  BY <1>1, <1>2 DEF LastCloses

\* A step that leaves the places of the databases, the reports and the histories
\* alone, takes nothing from a file and starts no salvage keeps the invariant.
LEMMA QuietStep ==
  ASSUME IInv, UNCHANGED <<mainAt, report, latest, history>>,
         \A g \in Gen, r \in Row : Holds(g, r) => Holds(g, r)',
         \A g \in Gen : g # latest => main'[g] = main[g],
         \A g \in Gen : walAt'[g] = walAt[g] \/ walAt'[g] = "none",
         Missing => wal'[latest] = wal[latest] /\ holders' = {},
         \/ UNCHANGED <<pc, healing, salvage>>
         \/ pc' \in {"idle", "probe", "condemned", "connect", "sweep"}
            /\ healing' \in {NoGen, healing},
         pc' \in {"condemned", "setup", "salvage", "report", "sweep"} => ~Missing
  PROVE  Shape' /\ SalvagedSoFar' /\ \A r \in committed' : Saved(r)'
<1>1. Missing' = Missing /\ latest' = latest
  BY DEF Missing
<1>2. Shape'
  <2>1. \A g \in Gen : g # latest => walAt'[g] # "path" /\ mainAt'[g] # "path"
    BY DEF IInv, Shape
  <2>2. \A g \in Gen : g >= latest => report'[g] = "none"
    BY DEF IInv, Shape
  <2>3. Missing => wal'[latest] \subseteq tail' /\ holders' = {}
    BY DEF IInv, Shape, history
  <2>4. /\ pc' = "sides" => Missing /\ healing' = latest
        /\ pc' \in {"salvage", "report"} => healing' \in Gen
        /\ healing' # NoGen => healing' <= latest /\ mainAt'[healing'] = "copy"
    BY DEF IInv, Shape
  <2> QED
    BY <1>1, <2>1, <2>2, <2>3, <2>4 DEF Shape
<1>3. SalvagedSoFar'
  <2> SUFFICES ASSUME pc' \in {"salvage", "report"}, whole', NEW r \in main'[healing'],
                      pc' = "report" \/ TableOf[r] < table'
               PROVE  r \in torn' \cup tail' \/ Holds(latest, r)'
    BY DEF SalvagedSoFar
  <2>1. UNCHANGED <<pc, healing, table, whole>>
    BY DEF salvage
  <2>2. healing \in Gen /\ healing # latest
    <3>1. healing \in Gen /\ healing # NoGen /\ ~Missing
      BY <2>1, GenFacts DEF IInv, Shape
    <3> QED
      BY <3>1 DEF IInv, Shape, Missing
  <2>3. r \in main[healing] /\ r \in Row
    BY <2>1, <2>2 DEF IInv, TypeOK
  <2>4. r \in torn \cup tail \/ Holds(latest, r)
    BY <2>1, <2>3 DEF IInv, SalvagedSoFar
  <2> QED
    BY <2>3, <2>4 DEF IInv, TypeOK, history
<1>4. ASSUME NEW r \in committed' PROVE Saved(r)'
  <2>1. r \in committed /\ r \in Row
    BY DEF IInv, TypeOK, history
  <2> QED
    BY <2>1 DEF IInv, Saved, history
<1> QED
  BY <1>2, <1>3, <1>4

\* The conclusion every action is shown to reach.
Kept == Shape' /\ SalvagedSoFar' /\ \A r \in committed' : Saved(r)'

LEMMA HoldsDepends ==
  UNCHANGED <<mainAt, walAt, main, wal>> => \A g \in Gen, r \in Row : Holds(g, r) => Holds(g, r)'
BY DEF Holds

LEMMA QuietActions ==
  ASSUME IInv,
         \/ Checkpoint \/ (\E p \in Proc : Close(p) \/ Die(p)) \/ (\E g \in Gen : Expire(g))
         \/ (\E p \in Proc : BeginOpen(p)) \/ Probe \/ NotRenamed \/ OpenFails
  PROVE  Kept
<1>1. CASE Checkpoint
  <2>1. ~Missing
    BY <1>1 DEF Checkpoint, Connected, IInv, Shape
  <2> QED
    BY <1>1, <2>1, ClosesKeep, QuietStep DEF Checkpoint, Kept, IInv, notes, places
<1>2. ASSUME NEW p \in Proc, Close(p) PROVE Kept
  <2>1. ~Missing
    BY <1>2 DEF Close, IInv, Shape
  <2>2. UNCHANGED <<mainAt, report, latest, history, pc, healing, salvage>>
    BY <1>2 DEF Close, notes
  <2>3. LastCloses \/ UNCHANGED <<main, wal, walAt>>
    BY <1>2 DEF Close
  <2>4. /\ \A g \in Gen, r \in Row : Holds(g, r) => Holds(g, r)'
        /\ \A g \in Gen : g # latest => main'[g] = main[g]
        /\ \A g \in Gen : walAt'[g] = walAt[g] \/ walAt'[g] = "none"
    BY <2>1, <2>2, <2>3, ClosesKeep, HoldsDepends DEF IInv
  <2> QED
    BY <2>1, <2>2, <2>4, QuietStep DEF Kept
<1>3. ASSUME NEW p \in Proc, Die(p) PROVE Kept
  <2>1. UNCHANGED <<mainAt, walAt, main, wal, report, latest, history, salvage>>
    BY <1>3 DEF Die, places, data, notes
  <2>2. UNCHANGED <<pc, healing>> \/ (pc' = "idle" /\ healing' = NoGen)
    BY <1>3 DEF Die, Fails
  <2>3. Missing => holders' = {}
    BY <1>3 DEF Die, IInv, Shape
  <2>4. pc' \in {"condemned", "setup", "salvage", "report", "sweep"} => ~Missing
    BY <2>2 DEF IInv, Shape
  <2> QED
    BY <2>1, <2>2, <2>3, <2>4, HoldsDepends, QuietStep DEF Kept
<1>4. ASSUME NEW g \in Gen, Expire(g) PROVE Kept
  <2>1. UNCHANGED <<mainAt, walAt, main, wal, report, latest, history, salvage, pc, healing, holders>>
    BY <1>4 DEF Expire, places, data
  <2> QED
    BY <2>1, HoldsDepends, QuietStep DEF Kept, IInv, Shape
<1>5. ASSUME NEW p \in Proc, BeginOpen(p) PROVE Kept
  <2>1. /\ UNCHANGED <<mainAt, walAt, main, wal, report, latest, history, salvage, holders>>
        /\ pc' = "probe" /\ healing' = NoGen
    BY <1>5 DEF BeginOpen, places, data, notes
  <2> QED
    BY <2>1, HoldsDepends, QuietStep DEF Kept, IInv, Shape
<1>6. CASE Probe
  <2>1. UNCHANGED <<mainAt, report, latest, history, salvage, holders>>
    BY <1>6 DEF Probe, notes
  <2>2. UNCHANGED <<main, wal, walAt>> \/ (~Missing /\ LastCloses)
    BY <1>6 DEF Probe, ProbeNothing, ProbeTrusts, ProbeReads, ProbeUndetermined
  <2>3. /\ pc' \in {"idle", "condemned", "connect"} /\ healing' \in {NoGen, healing}
        /\ pc' = "condemned" => ~Missing
    BY <1>6 DEF Probe, ProbeNothing, ProbeTrusts, ProbeReads, ProbeUndetermined, Fails
  <2>4. /\ \A g \in Gen, r \in Row : Holds(g, r) => Holds(g, r)'
        /\ \A g \in Gen : g # latest => main'[g] = main[g]
        /\ \A g \in Gen : walAt'[g] = walAt[g] \/ walAt'[g] = "none"
    BY <2>1, <2>2, ClosesKeep, HoldsDepends DEF IInv
  <2>5. Missing => wal'[latest] = wal[latest] /\ holders' = {}
    BY <2>1, <2>2 DEF IInv, Shape
  <2> QED
    BY <2>1, <2>3, <2>4, <2>5, QuietStep DEF Kept
<1>7. CASE NotRenamed
  <2>1. /\ UNCHANGED <<mainAt, walAt, main, wal, report, latest, history, salvage, holders>>
        /\ pc' = "idle" /\ healing' = NoGen
    BY <1>7 DEF NotRenamed, Fails, places, data, notes
  <2> QED
    BY <2>1, HoldsDepends, QuietStep DEF Kept, IInv, Shape
<1>8. CASE OpenFails
  <2>1. /\ UNCHANGED <<mainAt, report, latest, history, salvage, holders>>
        /\ pc' = "idle" /\ healing' = NoGen
    BY <1>8 DEF OpenFails, Fails, notes
  <2>2. UNCHANGED <<main, wal, walAt>> \/ (~Missing /\ LastCloses)
    BY <1>8 DEF OpenFails, IInv, Shape
  <2>3. /\ \A g \in Gen, r \in Row : Holds(g, r) => Holds(g, r)'
        /\ \A g \in Gen : g # latest => main'[g] = main[g]
        /\ \A g \in Gen : walAt'[g] = walAt[g] \/ walAt'[g] = "none"
    BY <2>1, <2>2, ClosesKeep, HoldsDepends DEF IInv
  <2>4. Missing => wal'[latest] = wal[latest] /\ holders' = {}
    BY <2>1, <2>2 DEF IInv, Shape
  <2> QED
    BY <2>1, <2>3, <2>4, QuietStep DEF Kept
<1> QED
  BY <1>1, <1>2, <1>3, <1>4, <1>5, <1>6, <1>7, <1>8

LEMMA WriteKeeps ==
  ASSUME IInv, NEW p \in Proc, NEW x \in Row, Write(p, x)
  PROVE  Kept
<1>1. pc = "idle" /\ pc' = "idle" /\ ~Missing /\ latest \in Gen
  BY DEF Write, IInv, TypeOK, Shape
<1>2. /\ UNCHANGED <<mainAt, main, report, latest, healing, torn, tail>>
      /\ \A g \in Gen : walAt'[g] = IF g = latest THEN "path" ELSE walAt[g]
      /\ \A g \in Gen : wal'[g] = IF g = latest THEN wal[g] \cup {x} ELSE wal[g]
  BY DEF Write, notes, IInv, TypeOK
<1>3. ~Missing'
  BY <1>1, <1>2 DEF Missing
<1>4. Shape'
  BY <1>1, <1>2, <1>3 DEF IInv, Shape
<1>5. \A g \in Gen, r \in Row : Holds(g, r) => Holds(g, r)'
  <2>1. mainAt[latest] = "path"
    BY <1>1 DEF Missing
  <2> QED
    BY <1>2, <2>1 DEF Holds
<1>6. ASSUME NEW r \in committed' PROVE Saved(r)'
  <2>1. CASE r = x
    <3>1. walAt'[latest] = "path" /\ x \in wal'[latest]
      BY <1>1, <1>2
    <3>2. report'[latest] # "whole"
      BY <1>2, LatestUnreported
    <3> QED
      BY <1>1, <1>2, <2>1, <3>1, <3>2 DEF Saved, Holds
  <2>2. CASE r # x
    <3>1. r \in committed /\ r \in Row
      BY <2>2 DEF Write, IInv, TypeOK
    <3> QED
      BY <1>2, <1>5, <3>1 DEF IInv, Saved
  <2> QED
    BY <2>1, <2>2
<1> QED
  BY <1>1, <1>4, <1>6 DEF Kept, SalvagedSoFar

LEMMA TearKeeps ==
  ASSUME IInv, NEW R \in SUBSET Row, Tear(R)
  PROVE  Kept
<1>1. /\ UNCHANGED <<mainAt, walAt, wal, report, latest, holders, pc, healing, table, whole,
                     committed, tail>>
      /\ torn' = torn \cup R
      /\ \A g \in Gen : main'[g] = IF g = latest THEN main[g] \ R ELSE main[g]
  BY DEF Tear, places, notes, salvage, IInv, TypeOK
<1>2. \A g \in Gen, r \in Row \ R : Holds(g, r) => Holds(g, r)'
  BY <1>1 DEF Holds
<1>3. Shape'
  BY <1>1 DEF IInv, Shape, Missing
<1>4. ASSUME NEW r \in committed' PROVE Saved(r)'
  <2>1. r \in committed /\ r \in Row
    BY <1>1 DEF IInv, TypeOK
  <2> QED
    BY <1>1, <1>2, <2>1 DEF IInv, Saved
<1>5. SalvagedSoFar'
  <2> SUFFICES ASSUME pc \in {"salvage", "report"}, whole, NEW r \in main'[healing],
                      pc = "report" \/ TableOf[r] < table
               PROVE  r \in torn' \cup tail \/ Holds(latest, r)'
    BY <1>1 DEF SalvagedSoFar
  <2>1. healing \in Gen /\ r \in main[healing] /\ r \in Row
    BY <1>1 DEF IInv, Shape, TypeOK
  <2>2. r \in torn \cup tail \/ Holds(latest, r)
    BY <2>1 DEF IInv, SalvagedSoFar
  <2> QED
    BY <1>1, <1>2, <2>1, <2>2 DEF IInv, TypeOK
<1> QED
  BY <1>3, <1>4, <1>5 DEF Kept

LEMMA RenamesKeep ==
  ASSUME IInv, RenameMain \/ RenameWal \/ RenameWalFails
  PROVE  Kept
<1>0. latest \in Gen /\ latest \in Nat
  BY GenFacts DEF IInv, TypeOK
<1>1. CASE RenameMain
  <2>1. /\ UNCHANGED <<walAt, main, wal, report, latest, holders, committed, torn>>
        /\ \A g \in Gen : mainAt'[g] = IF g = latest THEN "copy" ELSE mainAt[g]
        /\ tail' = tail \cup wal[latest] /\ healing' = latest /\ pc' = "sides"
        /\ holders = {}
    BY <1>1 DEF RenameMain, data, notes, IInv, TypeOK
  <2>2. Shape'
    BY <1>0, <2>1 DEF IInv, Shape, Missing
  <2>3. \A g \in Gen, r \in Row : Holds(g, r) => Holds(g, r)'
    <3>1. mainAt[latest] = "path"
      BY <1>1 DEF RenameMain, IInv, Shape, Missing
    <3> QED
      BY <2>1, <3>1 DEF Holds
  <2>4. ASSUME NEW r \in committed' PROVE Saved(r)'
    <3>1. r \in committed /\ r \in Row
      BY <2>1 DEF IInv, TypeOK
    <3> QED
      BY <2>1, <2>3, <3>1 DEF IInv, Saved
  <2> QED
    BY <2>1, <2>2, <2>4 DEF Kept, SalvagedSoFar
<1>2. CASE RenameWal
  <2>1. /\ UNCHANGED <<mainAt, main, wal, report, latest, holders, healing, committed, torn, tail>>
        /\ \A g \in Gen : g # latest => walAt'[g] = walAt[g]
        /\ \A g \in Gen : walAt'[g] = "path" => walAt[g] = "path"
        /\ pc = "sides" /\ pc' = "connect"
    BY <1>2 DEF RenameWal, data, notes, history, IInv, TypeOK
  <2>2. wal[latest] \subseteq tail
    BY <2>1 DEF IInv, Shape
  <2>3. Shape'
    BY <2>1 DEF IInv, Shape, Missing
  <2>4. \A g \in Gen, r \in Row : Holds(g, r) => Holds(g, r)' \/ r \in tail
    BY <2>1, <2>2 DEF Holds
  <2>5. ASSUME NEW r \in committed' PROVE Saved(r)'
    <3>1. r \in committed /\ r \in Row
      BY <2>1 DEF IInv, TypeOK
    <3> QED
      BY <2>1, <2>4, <3>1 DEF IInv, Saved
  <2> QED
    BY <2>1, <2>3, <2>5 DEF Kept, SalvagedSoFar
<1>3. CASE RenameWalFails
  <2>1. /\ UNCHANGED <<walAt, main, wal, report, latest, holders, committed, torn>>
        /\ \/ /\ \A g \in Gen : mainAt'[g] = IF g = latest THEN "path" ELSE mainAt[g]
              /\ tail' = tail \ wal[latest]
           \/ UNCHANGED <<mainAt, tail>>
        /\ walAt[latest] = "path" /\ pc = "sides"
        /\ pc' = "idle" /\ healing' = NoGen
    BY <1>3 DEF RenameWalFails, Fails, data, notes, IInv, TypeOK
  <2>2. Shape'
    BY <1>0, <2>1 DEF IInv, Shape, Missing
  <2>3. \A g \in Gen, r \in Row : Holds(g, r) => Holds(g, r)'
    <3>1. mainAt'[latest] \in {"path", mainAt[latest]}
      BY <1>0, <2>1
    <3> QED
      BY <2>1, <3>1 DEF Holds
  <2>4. ASSUME NEW r \in committed' PROVE Saved(r)'
    <3>1. r \in committed /\ r \in Row
      BY <2>1 DEF IInv, TypeOK
    <3>2. CASE r \in wal[latest]
      <4>1. walAt'[latest] = "path" /\ r \in wal'[latest]
        BY <2>1, <3>2
      <4>2. report'[latest] # "whole"
        BY <2>1, LatestUnreported
      <4> QED
        BY <1>0, <2>1, <4>1, <4>2 DEF Saved, Holds
    <3>3. CASE r \notin wal[latest]
      BY <2>1, <2>3, <3>1, <3>3 DEF IInv, Saved
    <3> QED
      BY <3>2, <3>3
  <2> QED
    BY <2>1, <2>2, <2>4 DEF Kept, SalvagedSoFar
<1> QED
  BY <1>1, <1>2, <1>3

LEMMA ConnectKeeps ==
  ASSUME IInv, Connect
  PROVE  Kept
<1>1. CASE ~Missing
  <2>1. UNCHANGED <<mainAt, walAt, main, wal, report, latest, holders, healing, committed, torn, tail>>
        /\ pc' = "setup"
    BY <1>1 DEF Connect, places, data, notes, history
  <2>2. Shape' /\ SalvagedSoFar'
    BY <1>1, <2>1 DEF IInv, Shape, Missing, SalvagedSoFar
  <2>3. \A r \in committed' : Saved(r)'
    BY <2>1 DEF IInv, Saved, Holds
  <2> QED
    BY <2>2, <2>3 DEF Kept
<1>2. CASE Missing
  <2>0. /\ latest < MaxGen /\ latest' = latest + 1 /\ pc' = "setup"
        /\ UNCHANGED <<main, wal, report, holders, healing, committed, torn, tail>>
    BY <1>2 DEF Connect, data, notes, history
  <2>1. /\ latest \in Gen /\ latest + 1 \in Gen /\ latest' = latest + 1 /\ latest \in Nat
        /\ UNCHANGED <<main, wal, report, holders, healing, committed, torn, tail>>
        /\ pc' = "setup"
    BY <2>0, LatestUnreported, GenFacts
  <2>2. /\ \A g \in Gen : mainAt'[g] = IF g = latest + 1 THEN "path" ELSE mainAt[g]
        /\ \A g \in Gen : walAt'[g] # "path"
    <3>1. /\ mainAt' = [mainAt EXCEPT ![latest + 1] = "path"]
          /\ walAt' = [g \in Gen |-> IF walAt[g] = "path" THEN "gone" ELSE walAt[g]]
      BY <1>2, <2>1 DEF Connect
    <3>2. DOMAIN mainAt = Gen
      BY DEF IInv, TypeOK
    <3> QED
      BY <2>1, <3>1, <3>2
  <2>3. Shape'
    <3>1. ~Missing'
      BY <2>1, <2>2 DEF Missing
    <3>2. \A g \in Gen : g # latest' => walAt'[g] # "path" /\ mainAt'[g] # "path"
      BY <1>2, <2>1, <2>2 DEF IInv, Shape, Missing
    <3>3. \A g \in Gen : g >= latest' => report'[g] = "none"
      BY <2>1, GenFacts DEF IInv, Shape
    <3>4. healing' # NoGen => healing' <= latest' /\ mainAt'[healing'] = "copy"
      <4> SUFFICES ASSUME healing # NoGen
                   PROVE  healing <= latest + 1 /\ mainAt'[healing] = "copy"
        BY <2>1
      <4>1. healing \in Gen /\ healing \in Nat /\ healing <= latest /\ mainAt[healing] = "copy"
        BY GenFacts DEF IInv, Shape, TypeOK
      <4>2. healing # latest + 1 /\ healing <= latest + 1
        BY <2>1, <4>1
      <4> QED
        BY <2>2, <4>1, <4>2
    <3> QED
      BY <2>1, <3>1, <3>2, <3>3, <3>4 DEF Shape
  <2>4. wal[latest] \subseteq tail
    BY <1>2 DEF IInv, Shape
  <2>5. \A g \in Gen, r \in Row : Holds(g, r) => Holds(g, r)' \/ r \in tail
    BY <2>1, <2>2, <2>4 DEF Holds, IInv, Shape
  <2>6. ASSUME NEW r \in committed' PROVE Saved(r)'
    <3>1. r \in committed /\ r \in Row
      BY <2>1 DEF IInv, TypeOK
    <3> QED
      BY <2>1, <2>5, <3>1 DEF IInv, Saved
  <2> QED
    BY <2>1, <2>3, <2>6 DEF Kept, SalvagedSoFar
<1> QED
  BY <1>1, <1>2

LEMMA SetUpKeeps ==
  ASSUME IInv, SetUp
  PROVE  Kept
<1>1. /\ UNCHANGED <<mainAt, walAt, main, wal, report, latest, holders, healing, committed, torn, tail>>
      /\ pc = "setup" /\ pc' \in {"sweep", "salvage", "report"} /\ table' = 1
      /\ pc' # "sweep" => healing # NoGen
      /\ pc' = "report" => ~whole'
  BY DEF SetUp, places, data, notes, history
<1>2. Shape'
  BY <1>1 DEF IInv, Shape, Missing, TypeOK
<1>3. SalvagedSoFar'
  <2> SUFFICES ASSUME pc' = "salvage", NEW r \in main[healing], TableOf[r] < 1
               PROVE  FALSE
    BY <1>1 DEF SalvagedSoFar
  <2>1. healing \in Gen
    BY <1>1 DEF IInv, TypeOK
  <2>2. r \in Row
    BY <2>1 DEF IInv, TypeOK
  <2>3. TableOf[r] \in 1..Tables /\ Tables \in Nat
    BY <2>2, QuarantineAssumption DEF QuarantineAssumption
  <2> QED
    BY <2>3
<1>4. \A r \in committed' : Saved(r)'
  BY <1>1 DEF IInv, Saved, Holds
<1> QED
  BY <1>2, <1>3, <1>4 DEF Kept

LEMMA SalvageTableKeeps ==
  ASSUME IInv, SalvageTable
  PROVE  Kept
<1>1. PICK S \in SUBSET Readable :
        /\ wal' = [wal EXCEPT ![latest] = @ \cup S]
        /\ walAt' = [walAt EXCEPT ![latest] = "path"]
        /\ whole' \in IF S = Readable THEN {whole, FALSE} ELSE {FALSE}
  BY DEF SalvageTable
<1>2. /\ UNCHANGED <<mainAt, main, report, latest, holders, pc, healing, committed, torn, tail>>
      /\ pc = "salvage" /\ table' = table + 1 /\ ~Missing /\ latest \in Gen
  BY DEF SalvageTable, notes, history, IInv, Shape, TypeOK
<1>3. /\ \A g \in Gen : walAt'[g] = IF g = latest THEN "path" ELSE walAt[g]
      /\ \A g \in Gen : wal'[g] = IF g = latest THEN wal[g] \cup S ELSE wal[g]
  BY <1>1, <1>2 DEF IInv, TypeOK
<1>4. Shape'
  BY <1>2, <1>3 DEF IInv, Shape, Missing
<1>5. \A g \in Gen, r \in Row : Holds(g, r) => Holds(g, r)'
  <2>1. mainAt[latest] = "path"
    BY <1>2 DEF Missing
  <2> QED
    BY <1>2, <1>3, <2>1 DEF Holds
<1>6. SalvagedSoFar'
  <2> SUFFICES ASSUME whole', NEW r \in main[healing], TableOf[r] < table + 1
               PROVE  r \in torn \cup tail \/ Holds(latest, r)'
    BY <1>2 DEF SalvagedSoFar
  <2>1. whole /\ S = Readable
    BY <1>1
  <2>2. r \in Row
    BY <1>2 DEF IInv, Shape, TypeOK
  <2>3. TableOf[r] \in Int /\ table \in Int
    BY <2>2, QuarantineAssumption DEF QuarantineAssumption, IInv, TypeOK
  <2>4. CASE TableOf[r] = table
    <3>1. r \in S
      BY <2>1, <2>2, <2>4 DEF Readable
    <3> QED
      BY <1>2, <1>3, <3>1 DEF Holds
  <2>5. CASE TableOf[r] < table
    <3>1. r \in torn \cup tail \/ Holds(latest, r)
      BY <1>2, <2>1, <2>5 DEF IInv, SalvagedSoFar
    <3> QED
      BY <1>2, <1>5, <2>2, <3>1
  <2> QED
    BY <2>3, <2>4, <2>5
<1>7. ASSUME NEW r \in committed' PROVE Saved(r)'
  <2>1. r \in committed /\ r \in Row
    BY <1>2 DEF IInv, TypeOK
  <2> QED
    BY <1>2, <1>5, <2>1 DEF IInv, Saved
<1> QED
  BY <1>4, <1>6, <1>7 DEF Kept

LEMMA EndSalvageKeeps ==
  ASSUME IInv, EndSalvage
  PROVE  Kept
<1>1. /\ UNCHANGED <<mainAt, walAt, main, wal, report, latest, holders, healing, committed, torn,
                     tail, whole>>
      /\ pc = "salvage" /\ pc' = "report" /\ ~(table <= Tables)
  BY DEF EndSalvage, TablesLeft, places, data, notes, salvage, history
<1>2. Shape'
  BY <1>1 DEF IInv, Shape, Missing
<1>3. SalvagedSoFar'
  <2> SUFFICES ASSUME whole, NEW r \in main[healing]
               PROVE  r \in torn \cup tail \/ Holds(latest, r)
    BY <1>1 DEF SalvagedSoFar, Holds
  <2>1. r \in Row
    BY <1>1 DEF IInv, Shape, TypeOK
  <2>2. TableOf[r] \in 1..Tables /\ Tables \in Nat /\ table \in Int
    BY <2>1, QuarantineAssumption DEF QuarantineAssumption, IInv, TypeOK
  <2>3. TableOf[r] < table
    BY <1>1, <2>2
  <2> QED
    BY <1>1, <2>3 DEF IInv, SalvagedSoFar
<1>4. \A r \in committed' : Saved(r)'
  BY <1>1 DEF IInv, Saved, Holds
<1> QED
  BY <1>2, <1>3, <1>4 DEF Kept

LEMMA WriteReportKeeps ==
  ASSUME IInv, WriteReport
  PROVE  Kept
<1>1. /\ UNCHANGED <<mainAt, walAt, main, wal, latest, holders, healing, committed, torn, tail>>
      /\ pc = "report" /\ pc' = "sweep" /\ ~Missing /\ healing \in Gen
  BY DEF WriteReport, places, data, history, IInv, Shape
<1>2. /\ \A g \in Gen : g # healing => report'[g] = report[g]
      /\ report'[healing] = "whole" => whole \/ report[healing] = "whole"
  BY <1>1 DEF WriteReport, IInv, TypeOK
<1>3. latest \in Gen /\ healing <= latest /\ healing # latest /\ healing \in Nat /\ latest \in Nat
  <2>1. healing <= latest /\ mainAt[healing] = "copy" /\ healing \in Nat
    BY <1>1, GenFacts DEF IInv, Shape
  <2> QED
    BY <1>1, <2>1, LatestUnreported DEF Missing
<1>4. \A g \in Gen : g >= latest => g # healing
  BY <1>3, GenFacts
<1>5. Shape'
  <2>1. \A g \in Gen : g >= latest' => report'[g] = "none"
    BY <1>1, <1>2, <1>4 DEF IInv, Shape
  <2> QED
    BY <1>1, <2>1 DEF IInv, Shape, Missing
<1>6. ASSUME NEW r \in committed' PROVE Saved(r)'
  <2>1. r \in committed /\ r \in Row
    BY <1>1 DEF IInv, TypeOK
  <2>2. CASE r \in torn \cup tail
    BY <1>1, <2>2 DEF Saved
  <2>3. ASSUME NEW g \in Gen, Holds(g, r), report[g] # "whole" PROVE Saved(r)'
    <3>1. Holds(g, r)' /\ \A h \in Gen : Holds(h, r) => Holds(h, r)'
      BY <1>1, <2>3 DEF Holds
    <3>2. CASE report'[g] # "whole"
      BY <3>1, <3>2 DEF Saved
    <3>3. CASE report'[g] = "whole"
      <4>1. g = healing /\ whole
        BY <1>2, <2>3, <3>3
      <4>2. r \in main[healing]
        <5>1. mainAt[healing] = "copy" /\ walAt[healing] # "path"
          BY <1>1, <1>3, GenFacts DEF IInv, Shape
        <5> QED
          BY <2>3, <4>1, <5>1 DEF Holds
      <4>3. r \in torn \cup tail \/ Holds(latest, r)
        BY <1>1, <4>1, <4>2 DEF IInv, SalvagedSoFar
      <4>4. report'[latest] # "whole"
        BY <1>2, <1>3, LatestUnreported
      <4> QED
        BY <1>1, <1>3, <3>1, <4>3, <4>4 DEF Saved
    <3> QED
      BY <3>2, <3>3
  <2> QED
    BY <2>1, <2>2, <2>3 DEF IInv, Saved
<1> QED
  BY <1>1, <1>5, <1>6 DEF Kept, SalvagedSoFar

LEMMA SweepKeeps ==
  ASSUME IInv, Sweep
  PROVE  Kept
<1>1. PICK M \in SUBSET Sweepable, W \in SUBSET Sweepable :
        mainAt' = Without(mainAt, M) /\ walAt' = Without(walAt, W)
  BY DEF Sweep
<1>2. /\ UNCHANGED <<main, wal, report, latest, committed, torn, tail>>
      /\ pc = "sweep" /\ pc' = "idle" /\ healing' = NoGen
      /\ ~Missing /\ latest \in Gen
  BY DEF Sweep, data, notes, history, IInv, Shape, TypeOK
<1>3. \A g \in Gen : report[g] # "whole" \/ mainAt[g] = "path" => mainAt'[g] = mainAt[g]
  BY <1>1 DEF Without, Sweepable
<1>4. \A g \in Gen : report[g] # "whole" \/ walAt[g] = "path" => walAt'[g] = walAt[g]
  BY <1>1 DEF Without, Sweepable
<1>5. /\ \A g \in Gen : mainAt'[g] \in {mainAt[g], "gone"}
      /\ \A g \in Gen : walAt'[g] \in {walAt[g], "gone"}
  BY <1>1 DEF Without
<1>6. ~Missing'
  BY <1>2, <1>3 DEF Missing
<1>7. Shape'
  BY <1>2, <1>5, <1>6 DEF IInv, Shape
<1>8. ASSUME NEW r \in committed' PROVE Saved(r)'
  <2>1. r \in committed
    BY <1>2
  <2>2. \A g \in Gen : Holds(g, r) /\ report[g] # "whole" => Holds(g, r)' /\ report'[g] # "whole"
    BY <1>2, <1>3, <1>4 DEF Holds
  <2> QED
    BY <1>2, <2>1, <2>2 DEF IInv, Saved
<1> QED
  BY <1>2, <1>7, <1>8 DEF Kept, SalvagedSoFar

LEMMA Inductive == IInv /\ [Next]_vars => IInv'
<1> SUFFICES ASSUME IInv, [Next]_vars PROVE IInv'
  OBVIOUS
<1>1. TypeOK'
  <2>1. TypeOK /\ UNCHANGED vars => TypeOK'
    BY DEF vars, TypeOK, places, data, notes, salvage, history
  <2> QED
    BY <2>1, UseTyping, OpenTyping DEF Next, IInv
<1>2. CASE UNCHANGED vars
  BY <1>1, <1>2 DEF IInv, vars, Shape, SalvagedSoFar, Saved, Holds, Missing,
     places, data, notes, salvage, history
<1>3. CASE Use
  BY <1>1, <1>3, QuietActions, WriteKeeps, TearKeeps DEF Use, IInv, Kept
<1>4. CASE Open
  BY <1>1, <1>4, QuietActions, RenamesKeep, ConnectKeeps, SetUpKeeps, SalvageTableKeeps,
     EndSalvageKeeps, WriteReportKeeps, SweepKeeps DEF Open, Quarantining, Salvaging, IInv, Kept
<1> QED
  BY <1>2, <1>3, <1>4 DEF Next

\* Through any number of corruptions, crashed or failed opens, partial salvages and
\* sweeps, every row that reached the database and was not torn is in the store or in
\* a copy that is shown.
THEOREM NothingIsLost == Spec => []NothingLost
<1>1. IInv => NothingLost
  BY DEF IInv, NothingLost, Saved
<1> QED
  BY <1>1, InitIInv, Inductive, PTL DEF Spec

-----------------------------------------------------------------------------
(* No fresh database beside an old WAL, unless a quarantine stopped half way.*)

\* The quarantine stops between its two renames and leaves the database away: the
\* process dies there, or the second rename and the undoing of the first both fail.
LeftBetweenRenames == pc = "sides" /\ pc' = "idle" /\ mainAt'[latest] # "path"

\* With the database away, its WAL is away too once the renames are over.
WalFollows == Missing /\ pc # "sides" => walAt[latest] # "path"

LEMMA WalFollowsStep ==
  ASSUME IInv, WalFollows, [Next]_vars, ~LeftBetweenRenames
  PROVE  WalFollows'
<1> USE DEF WalFollows, Missing
<1> USE DEF places, data, notes, salvage, history
<1>1. TypeOK /\ Shape /\ latest \in Gen
  BY DEF IInv, TypeOK
\* Whoever uses the store has its database at the path.
<1>2. CASE Use
  <2>1. ASSUME NEW p \in Proc, NEW r \in Row, Write(p, r) PROVE WalFollows'
    BY <1>1, <2>1 DEF Write, Shape
  <2>2. CASE Checkpoint
    BY <2>2 DEF Checkpoint
  <2>3. ASSUME NEW p \in Proc, Close(p) PROVE WalFollows'
    BY <1>1, <2>3 DEF Close, Shape
  <2>4. ASSUME NEW p \in Proc, Die(p) PROVE WalFollows'
    <3>1. UNCHANGED <<mainAt, walAt, latest>>
      BY <2>4 DEF Die
    <3>2. pc # "sides" \/ pc' = "sides"
      BY <1>1, <2>4, <3>1 DEF Die, Fails, Shape, LeftBetweenRenames
    <3> QED
      BY <3>1, <3>2
  <2>5. ASSUME NEW R \in SUBSET Row, Tear(R) PROVE WalFollows'
    BY <2>5 DEF Tear
  <2>6. ASSUME NEW g \in Gen, Expire(g) PROVE WalFollows'
    BY <2>6 DEF Expire
  <2> QED
    BY <1>2, <2>1, <2>2, <2>3, <2>4, <2>5, <2>6 DEF Use
<1>3. CASE (\E p \in Proc : BeginOpen(p)) \/ NotRenamed \/ SetUp
  BY <1>1, <1>3 DEF BeginOpen, NotRenamed, Fails, SetUp, TypeOK
<1>4. CASE Probe
  <2>1. pc = "probe" /\ UNCHANGED <<mainAt, latest>>
    BY <1>4 DEF Probe
  <2>2. walAt'[latest] = "path" => walAt[latest] = "path"
    BY <1>1, <1>4 DEF Probe, ProbeNothing, ProbeTrusts, ProbeReads, ProbeUndetermined, LastCloses,
                      TypeOK
  <2> QED
    BY <2>1, <2>2
<1>5. CASE OpenFails
  <2>1. pc \in {"connect", "setup"} /\ UNCHANGED <<mainAt, latest>>
    BY <1>5 DEF OpenFails
  <2>2. walAt'[latest] = "path" => walAt[latest] = "path"
    BY <1>1, <1>5 DEF OpenFails, LastCloses, TypeOK
  <2> QED
    BY <2>1, <2>2
<1>6. CASE RenameMain
  BY <1>6 DEF RenameMain
<1>7. CASE RenameWal
  BY <1>1, <1>7 DEF RenameWal, TypeOK
<1>8. CASE RenameWalFails
  BY <1>8 DEF RenameWalFails, Fails, LeftBetweenRenames
<1>9. CASE Connect
  <2>1. CASE Missing
    <3>1. latest' \in Gen /\ mainAt'[latest'] = "path"
      BY <1>1, <1>9, <2>1, GenFacts DEF Connect, TypeOK
    <3> QED
      BY <3>1
  <2>2. CASE ~Missing
    BY <1>9, <2>2 DEF Connect
  <2> QED
    BY <2>1, <2>2
<1>10. CASE Salvaging
  <2>1. ~Missing /\ UNCHANGED latest
    BY <1>1, <1>10 DEF Salvaging, SalvageTable, EndSalvage, WriteReport, Sweep, Shape
  <2>2. mainAt'[latest] = mainAt[latest]
    BY <1>1, <1>10, <2>1 DEF Salvaging, SalvageTable, EndSalvage, WriteReport, Sweep, Without
  <2> QED
    BY <2>1, <2>2
<1>11. CASE UNCHANGED vars
  BY <1>11 DEF vars
<1> QED
  BY <1>2, <1>3, <1>4, <1>5, <1>6, <1>7, <1>8, <1>9, <1>10, <1>11 DEF Next, Open, Quarantining

\* A fresh database opens beside the WAL of the corrupt generation only after a
\* quarantine was left between its renames: no other crash, failed open or failed
\* rename, in any number of generations, brings it about (heal.rs, quarantine).
THEOREM OrphansOnlyBetweenRenames ==
  Spec /\ [][~LeftBetweenRenames]_vars => NoOrphanWal
<1>1. Init => WalFollows
  BY DEF Init, WalFollows, Missing
<1>2. IInv /\ WalFollows /\ [Next]_vars /\ [~LeftBetweenRenames]_vars => WalFollows'
  <2>1. CASE UNCHANGED vars
    BY <2>1 DEF vars, WalFollows, Missing, places
  <2> QED
    BY <2>1, WalFollowsStep
<1>3. IInv /\ WalFollows /\ Connect => \A g \in Gen : walAt[g] = "path" => AtPath(g)
  BY DEF IInv, Shape, WalFollows, Connect, Missing, AtPath
<1> QED
  BY <1>1, <1>2, <1>3, InitIInv, Inductive, PTL DEF Spec, NoOrphanWal
=============================================================================
