------------------------------ MODULE Quarantine ------------------------------
(***************************************************************************)
(* The files of one store through corruption and replacement: the rename   *)
(* of a corrupt database and of its WAL, the fresh database in its place,  *)
(* the salvage of the rows that live nowhere else, the report, and the     *)
(* sweep of old copies.                                                    *)
(*                                                                         *)
(* Sources: store/heal.rs (quarantine, salvage_memory, write_report,       *)
(* sweep_expired_quarantines) and core/mod.rs (Context::open_impl). Which  *)
(* file is probed and whose verdict is trusted is the subject of           *)
(* StoreHeal; here a probe only answers.                                   *)
(*                                                                         *)
(* A database file is known by its generation, and its WAL with it. Of a   *)
(* file only the rows of the salvaged tables are kept. The -shm file holds *)
(* none and is left out. SQLite itself is external: the last connection    *)
(* that closes moves the WAL into the database, a process that dies does   *)
(* not, and a WAL without its database is discarded.                       *)
(***************************************************************************)
EXTENDS Integers, FiniteSets

CONSTANTS
  Proc,     \* processes that open the store
  Nobody,   \* no process is inside an open
  Row,      \* rows of the salvaged tables
  Tables,   \* number of SALVAGED_TABLES, with prior_candidates
  TableOf,  \* the table of a row
  MaxGen    \* bound on the database files ever created

Gen == 1..MaxGen
NoGen == 0

ASSUME QuarantineAssumption ==
  /\ Nobody \notin Proc
  /\ Tables \in Nat
  /\ MaxGen \in Nat \ {0}
  /\ TableOf \in [Row -> 1..Tables]

VARIABLES
  mainAt,    \* mainAt[g]: where the database of generation g is
  walAt,     \* walAt[g]: where its WAL is
  main,      \* main[g]: rows that can be read from the database
  wal,       \* wal[g]: rows that are only in the WAL
  corrupt,   \* corrupt[g]: quick_check would fail
  report,    \* report[g]: what the report beside the copy says
  expired,   \* expired[g]: the copy is older than QUARANTINE_RETENTION
  latest,    \* the generation created last
  holders,   \* processes with a context on the store
  opener,    \* the process inside Context::open_impl
  pc,        \* where it stands
  healing,   \* the generation it quarantined
  table,     \* the next table to salvage
  whole,     \* Salvage::complete
  committed, \* history: rows ever written
  torn,      \* history: rows lost to damage
  tail       \* history: rows that were in the WAL of a database put aside

places == <<mainAt, walAt>>
data == <<main, wal, corrupt>>
notes == <<report, expired>>
salvage == <<table, whole>>
history == <<committed, torn, tail>>
vars == <<places, data, notes, latest, holders, opener, pc, healing, salvage, history>>

PCs == {"idle", "probe", "condemned", "sides", "connect", "setup", "salvage", "report", "sweep"}

TypeOK ==
  /\ mainAt \in [Gen -> {"none", "path", "copy", "gone"}]
  /\ walAt \in [Gen -> {"none", "path", "copy", "gone"}]
  /\ main \in [Gen -> SUBSET Row]
  /\ wal \in [Gen -> SUBSET Row]
  /\ corrupt \in [Gen -> BOOLEAN]
  /\ report \in [Gen -> {"none", "partial", "whole"}]
  /\ expired \in [Gen -> BOOLEAN]
  /\ latest \in Gen
  /\ holders \subseteq Proc
  /\ opener \in Proc \cup {Nobody}
  /\ pc \in PCs /\ (pc = "idle") = (opener = Nobody)
  /\ healing \in Gen \cup {NoGen}
  /\ table \in 1..(Tables + 1)
  /\ whole \in BOOLEAN
  /\ committed \subseteq Row /\ torn \subseteq Row /\ tail \subseteq Row

\* The generation whose database is at the path; only the latest can be.
AtPath(g) == g = latest /\ mainAt[g] = "path"
Missing == mainAt[latest] # "path"

Init ==
  /\ mainAt = [g \in Gen |-> IF g = 1 THEN "path" ELSE "none"]
  /\ walAt = [g \in Gen |-> "none"]
  /\ main = [g \in Gen |-> {}]
  /\ wal = [g \in Gen |-> {}]
  /\ corrupt = [g \in Gen |-> FALSE]
  /\ report = [g \in Gen |-> "none"]
  /\ expired = [g \in Gen |-> FALSE]
  /\ latest = 1
  /\ holders = {}
  /\ opener = Nobody
  /\ pc = "idle"
  /\ healing = NoGen
  /\ table = 1
  /\ whole = FALSE
  /\ committed = {} /\ torn = {} /\ tail = {}

-----------------------------------------------------------------------------
(* The store in use.                                                        *)

\* A guarded write commits a row to the WAL; an open holds the same locks.
Write(p, r) ==
  /\ p \in holders /\ opener = Nobody
  /\ r \notin committed
  /\ wal' = [wal EXCEPT ![latest] = @ \cup {r}]
  /\ walAt' = [walAt EXCEPT ![latest] = "path"]
  /\ committed' = committed \cup {r}
  /\ UNCHANGED <<mainAt, main, corrupt, notes, latest, holders, opener, pc, healing,
                 salvage, torn, tail>>

\* The opener has a connection of its own.
Connected == pc \in {"setup", "salvage", "report", "sweep"}

\* SQLite moves the WAL into the database.
Checkpointed ==
  /\ main' = [main EXCEPT ![latest] = @ \cup wal[latest]]
  /\ wal' = [wal EXCEPT ![latest] = {}]

Checkpoint ==
  /\ (holders # {} /\ opener = Nobody) \/ Connected
  /\ Checkpointed
  /\ UNCHANGED <<places, corrupt, notes, latest, holders, opener, pc, healing, salvage, history>>

\* The last connection removes the WAL with its close, if it can.
LastCloses ==
  \/ /\ Checkpointed
     /\ walAt' = [walAt EXCEPT ![latest] = IF @ = "path" THEN "none" ELSE @]
  \/ UNCHANGED <<main, wal, walAt>>

Close(p) ==
  /\ p \in holders
  /\ holders' = holders \ {p}
  /\ IF holders' = {} /\ ~Connected THEN LastCloses ELSE UNCHANGED <<main, wal, walAt>>
  /\ UNCHANGED <<mainAt, corrupt, notes, latest, opener, pc, healing, salvage, history>>

\* Damage: some rows of the database can no longer be read.
Tear(R) ==
  /\ ~Missing /\ ~corrupt[latest]
  /\ R \subseteq main[latest]
  /\ corrupt' = [corrupt EXCEPT ![latest] = TRUE]
  /\ main' = [main EXCEPT ![latest] = @ \ R]
  /\ torn' = torn \cup R
  /\ UNCHANGED <<places, wal, notes, latest, holders, opener, pc, healing, salvage,
                 committed, tail>>

\* QUARANTINE_RETENTION passes for a copy; no open takes that long.
Expire(g) ==
  /\ opener = Nobody
  /\ mainAt[g] = "copy" /\ ~expired[g]
  /\ expired' = [expired EXCEPT ![g] = TRUE]
  /\ UNCHANGED <<places, data, report, latest, holders, opener, pc, healing, salvage, history>>

-----------------------------------------------------------------------------
(* Context::open_impl, under the writer lock and the mutation lock.         *)

BeginOpen(p) ==
  /\ opener = Nobody /\ p \notin holders
  /\ opener' = p
  /\ pc' = "probe"
  /\ healing' = NoGen
  /\ UNCHANGED <<places, data, notes, latest, holders, salvage, history>>

\* The open returns an error: nothing it did is undone.
Fails == opener' = Nobody /\ pc' = "idle" /\ healing' = NoGen

\* Nothing at the path: the store is taken for a fresh one.
ProbeNothing ==
  /\ Missing
  /\ pc' = "connect"
  /\ UNCHANGED <<main, wal, walAt, opener, healing>>

\* A marker or an earlier verdict of the process is trusted.
ProbeTrusts ==
  /\ ~Missing
  /\ pc' = "connect"
  /\ UNCHANGED <<main, wal, walAt, opener, healing>>

\* quick_check on a throwaway connection, which is closed before the verdict is used.
ProbeReads ==
  /\ ~Missing
  /\ IF holders = {} THEN LastCloses ELSE UNCHANGED <<main, wal, walAt>>
  /\ pc' = IF corrupt[latest] THEN "condemned" ELSE "connect"
  /\ UNCHANGED <<opener, healing>>

ProbeUndetermined == ~Missing /\ Fails /\ UNCHANGED <<main, wal, walAt>>

Probe ==
  /\ pc = "probe"
  /\ ProbeNothing \/ ProbeTrusts \/ ProbeReads \/ ProbeUndetermined
  /\ UNCHANGED <<mainAt, corrupt, notes, latest, holders, salvage, history>>

\* The live lock is held by another, or the rename of the database fails.
NotRenamed ==
  /\ pc = "condemned"
  /\ Fails
  /\ UNCHANGED <<places, data, notes, latest, holders, salvage, history>>

RenameMain ==
  /\ pc = "condemned" /\ holders = {}
  /\ mainAt' = [mainAt EXCEPT ![latest] = "copy"]
  /\ tail' = tail \cup wal[latest]
  /\ healing' = latest
  /\ pc' = "sides"
  /\ UNCHANGED <<walAt, data, notes, latest, holders, opener, salvage, committed, torn>>

RenameWal ==
  /\ pc = "sides"
  /\ walAt' = [walAt EXCEPT ![latest] = IF @ = "path" THEN "copy" ELSE @]
  /\ pc' = "connect"
  /\ UNCHANGED <<mainAt, data, notes, latest, holders, opener, healing, salvage, history>>

\* The WAL cannot be moved: the database is put back, if that works.
RenameWalFails ==
  /\ pc = "sides" /\ walAt[latest] = "path"
  /\ \/ /\ mainAt' = [mainAt EXCEPT ![latest] = "path"]
        /\ tail' = tail \ wal[latest]
     \/ UNCHANGED <<mainAt, tail>>
  /\ Fails
  /\ UNCHANGED <<walAt, data, notes, latest, holders, salvage, committed, torn>>

\* Connection::open creates the database where there is none, and SQLite discards
\* a WAL it finds beside an empty database.
Connect ==
  /\ pc = "connect"
  /\ IF Missing
     THEN /\ latest < MaxGen
          /\ latest' = latest + 1
          /\ mainAt' = [mainAt EXCEPT ![latest'] = "path"]
          /\ walAt' = [g \in Gen |-> IF walAt[g] = "path" THEN "gone" ELSE walAt[g]]
     ELSE UNCHANGED <<places, latest>>
  /\ pc' = "setup"
  /\ UNCHANGED <<data, notes, holders, opener, healing, salvage, history>>

\* The live lock, the connection or the schema set-up fails.
OpenFails ==
  /\ pc \in {"connect", "setup"}
  /\ Fails
  /\ IF pc = "setup" /\ holders = {} THEN LastCloses ELSE UNCHANGED <<main, wal, walAt>>
  /\ UNCHANGED <<mainAt, corrupt, notes, latest, holders, salvage, history>>

\* The schema is there; the quarantined copy is attached, unless that fails.
SetUp ==
  /\ pc = "setup"
  /\ table' = 1
  /\ IF healing = NoGen
     THEN pc' = "sweep" /\ whole' = FALSE
     ELSE \/ pc' = "salvage" /\ whole' = TRUE
          \/ pc' = "report" /\ whole' = FALSE
  /\ UNCHANGED <<places, data, notes, latest, holders, opener, healing, history>>

\* The rows of the next table that the copy's database holds: immutable=1 does
\* not read the WAL.
Readable == {r \in Row : r \in main[healing] /\ TableOf[r] = table}

\* Mutant: one table too many.
TablesLeftOver == table <= Tables + 1

\* SALVAGED_TABLES, then prior_candidates.
TablesLeft == table <= Tables

\* salvage_table inserts some rows: all of them, or it says so.
SalvageTable ==
  /\ pc = "salvage" /\ TablesLeft
  /\ \E S \in SUBSET Readable :
       /\ wal' = [wal EXCEPT ![latest] = @ \cup S]
       /\ walAt' = [walAt EXCEPT ![latest] = "path"]
       /\ whole' \in IF S = Readable THEN {whole, FALSE} ELSE {FALSE}
  /\ table' = table + 1
  /\ UNCHANGED <<mainAt, main, corrupt, notes, latest, holders, opener, pc, healing, history>>

EndSalvage ==
  /\ pc = "salvage" /\ ~TablesLeft
  /\ pc' = "report"
  /\ UNCHANGED <<places, data, notes, latest, holders, opener, healing, salvage, history>>

\* write_report, best-effort.
WriteReport ==
  /\ pc = "report"
  /\ \/ report' = [report EXCEPT ![healing] = IF whole THEN "whole" ELSE "partial"]
     \/ UNCHANGED report
  /\ pc' = "sweep"
  /\ UNCHANGED <<places, data, expired, latest, holders, opener, healing, salvage, history>>

\* Mutant: age alone.
SweepableByAge == {g \in Gen : expired[g]}

\* sweep_expired_quarantines: expired copies whose report says all was salvaged,
\* each file of them best-effort; then the open returns its context.
Sweepable == {g \in Gen : expired[g] /\ report[g] = "whole"}
Without(at, G) == [g \in Gen |-> IF g \in G /\ at[g] = "copy" THEN "gone" ELSE at[g]]

Sweep ==
  /\ pc = "sweep"
  /\ \E M, W \in SUBSET Sweepable :
       mainAt' = Without(mainAt, M) /\ walAt' = Without(walAt, W)
  /\ holders' = holders \cup {opener}
  /\ opener' = Nobody /\ pc' = "idle" /\ healing' = NoGen
  /\ UNCHANGED <<data, notes, latest, salvage, history>>

\* A process dies, inside an open or with a context: no close, no checkpoint.
Die(p) ==
  /\ p \in holders \/ p = opener
  /\ holders' = holders \ {p}
  /\ IF p = opener THEN Fails ELSE UNCHANGED <<opener, pc, healing>>
  /\ UNCHANGED <<places, data, notes, latest, salvage, history>>

-----------------------------------------------------------------------------
Use ==
  \/ \E p \in Proc, r \in Row : Write(p, r)
  \/ Checkpoint
  \/ \E p \in Proc : Close(p) \/ Die(p)
  \/ \E R \in SUBSET Row : Tear(R)
  \/ \E g \in Gen : Expire(g)

Quarantining == NotRenamed \/ RenameMain \/ RenameWal \/ RenameWalFails

Salvaging == SalvageTable \/ EndSalvage \/ WriteReport \/ Sweep

Open == (\E p \in Proc : BeginOpen(p)) \/ Probe \/ Quarantining \/ Connect \/ OpenFails \/ SetUp \/ Salvaging

Next == Use \/ Open

Spec == Init /\ [][Next]_vars

-----------------------------------------------------------------------------
(* Properties.                                                              *)

\* Row r is in the store, or in the database of a copy: the file whose presence
\* quarantine_reports shows and the operator can still read.
Holds(g, r) ==
  \/ mainAt[g] \in {"path", "copy"} /\ r \in main[g]
  \/ walAt[g] = "path" /\ r \in wal[g]

\* Whatever crashes, fails or is swept, through any number of replacements, a row
\* that reached the database and was not torn is in the store or in a copy that is
\* shown (salvage_table's count, write_report, sweep_expired_quarantines_at).
NothingLost ==
  \A r \in committed \ (torn \cup tail) : \E g \in Gen : Holds(g, r)

\* A fresh database never opens beside the WAL of the corrupt generation (heal.rs,
\* quarantine: "A fresh database must never open beside an orphaned WAL").
NoOrphanWal ==
  [][Connect => \A g \in Gen : walAt[g] = "path" => AtPath(g)]_vars

=============================================================================
