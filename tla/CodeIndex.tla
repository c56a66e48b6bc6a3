------------------------------ MODULE CodeIndex ------------------------------
(***************************************************************************)
(* The code index of one repository: the rows of code.sqlite (files with   *)
(* their content hash, symbols with their rowid) beside vectors.bin, which *)
(* is keyed by those rowids and shares no transaction with them. Its four  *)
(* mutations, update, reindex_files, index_scope and reindex_scope, run in *)
(* steps while people edit the tree, and any step may fail or be the last. *)
(*                                                                         *)
(* Sources: code/indexing/mod.rs (IndexFacade), code/indexing/pipeline.rs, *)
(* code/indexing/hasher.rs, code/storage/sqlite.rs, code/semantic.rs.      *)
(*                                                                         *)
(* One mutation runs at a time: the facade lives in a slot behind a mutex. *)
(* A text stands for its hash and a vector for the text it was computed    *)
(* from. Files are looked at in one step each time, since what an edit of  *)
(* one file does is independent of when another file is read. Imports,     *)
(* relationships and receiver types ride in the transaction of the symbols *)
(* and are left out.                                                       *)
(***************************************************************************)
EXTENDS Integers, FiniteSets

CONSTANTS
  File,       \* paths below the root
  Text,       \* what a file can say
  Skipped,    \* texts the READ or PARSE stage skips: too large, no parser
  Symbol,     \* what format_symbol_text says of a symbol
  Symbols,    \* Symbols[t]: the symbols the parser finds in t
  Absent,     \* no file, and no row
  MaxEdits,   \* bound on the edits of people
  MaxFaults   \* bound on failing steps and crashes

ASSUME CodeIndexAssumption ==
  /\ IsFiniteSet(File) /\ IsFiniteSet(Symbol)
  /\ Skipped \subseteq Text /\ Absent \notin Text /\ Absent \notin File
  /\ Symbols \in [Text -> SUBSET Symbol]
  /\ MaxEdits \in Nat /\ MaxFaults \in Nat

VARIABLES
  tree,      \* tree[f]: what the file says
  stamped,   \* files whose mtime, in whole seconds, is the one taken last
  hash,      \* hash[f]: the hash in the row of code_files
  symbols,   \* symbols[i]: the row of code_symbols with id i
  vectors,   \* vectors[i]: the entry of vectors.bin for id i
  pc,        \* the next step of the mutation that runs
  kind,      \* which one it is
  scope,     \* the files it was asked for
  outcome,   \* how the last one ended
  fresh,     \* index_scope found no file indexed
  walk,      \* the paths handed to reindex_files
  changed,   \* the files to be read again
  queue,     \* delete_by_rel_paths: files still to be deleted
  half,      \* the file whose symbols are deleted and whose row is not
  taken,     \* its symbol ids
  dropped,   \* symbol_ids: ids of the rows that are gone
  failed,    \* the outcome of the delete loop is an error
  after,     \* what follows the delete loop
  reuse,     \* embeddings_by_text: vectors carried over, by text
  staged,    \* staged[f]: the text read for the rows still to be written
  excused,   \* history: files edited or unreadable since the mutation began
  hollow,    \* history: rows that lost their symbols to an interrupted delete
  lost,      \* history: a removal of vectors was missed since the last sweep
  wrong,     \* history: and then symbols were left without their own vectors
  faults,    \* failures and crashes so far
  edits      \* edits so far

disk == <<tree, stamped>>
db == <<hash, symbols>>
job == <<kind, scope, outcome>>
deletes == <<queue, half, taken, dropped, failed, after>>
work == <<fresh, walk, changed, reuse, staged>>
ghosts == <<hollow, lost, wrong>>
vars == <<disk, db, vectors, pc, job, deletes, work, excused, ghosts, faults, edits>>

Live == DOMAIN symbols
Rows == {f \in File : hash[f] # Absent}
Present == {f \in File : tree[f] # Absent}
IdsIn(F) == {i \in Live : symbols[i].file \in F}
SymbolsOf(f) == {symbols[i].text : i \in IdsIn({f})}
Keep(g, D) == [i \in DOMAIN g \cap D |-> g[i]]
Nothing == [x \in {} |-> x]

PCs == {"idle", "delete", "row", "sweep", "diff", "scan", "read", "stat", "commit",
        "clear", "clearFiles", "clearVectors"}
Kinds == {"update", "files", "index", "reindex"}

TypeOK ==
  /\ tree \in [File -> Text \cup {Absent}] /\ stamped \subseteq File
  /\ hash \in [File -> (Text \ Skipped) \cup {Absent}]
  /\ Live \subseteq Nat \ {0} /\ symbols \in [Live -> [file : File, text : Symbol]]
  /\ DOMAIN vectors \subseteq Nat \ {0} /\ vectors \in [DOMAIN vectors -> Symbol]
  /\ pc \in PCs /\ kind \in Kinds \cup {"none"} /\ (pc = "idle") = (kind = "none")
  /\ outcome \in {"none", "ok", "error"}
  /\ fresh \in BOOLEAN /\ failed \in BOOLEAN /\ after \in {"sweep", "read", "end"}
  /\ \A F \in {scope, walk, changed, queue, excused, hollow} : F \subseteq File
  /\ half \in File \cup {Absent} /\ (half = Absent) = (pc # "row")
  /\ taken \subseteq Nat /\ dropped \subseteq Nat
  /\ DOMAIN reuse \subseteq Symbol /\ reuse \in [DOMAIN reuse -> Symbol]
  /\ DOMAIN staged \subseteq File /\ staged \in [DOMAIN staged -> Text \ Skipped]
  /\ lost \in BOOLEAN /\ wrong \in BOOLEAN
  /\ faults \in 0..MaxFaults /\ edits \in 0..MaxEdits

Init ==
  /\ tree \in [File -> Text \cup {Absent}] /\ stamped = {}
  /\ hash = [f \in File |-> Absent] /\ symbols = Nothing /\ vectors = Nothing
  /\ pc = "idle" /\ kind = "none" /\ scope = {} /\ outcome = "none"
  /\ fresh = FALSE /\ walk = {} /\ changed = {} /\ queue = {} /\ half = Absent
  /\ taken = {} /\ dropped = {} /\ failed = FALSE /\ after = "end"
  /\ reuse = Nothing /\ staged = Nothing /\ excused = {}
  /\ hollow = {} /\ lost = FALSE /\ wrong = FALSE
  /\ faults = 0 /\ edits = 0

Fault == faults < MaxFaults /\ faults' = faults + 1

Goto(p) == pc' = p /\ UNCHANGED job

\* The mutation returns: its locals are gone.
Return(result) ==
  /\ pc' = "idle" /\ kind' = "none" /\ scope' = {} /\ outcome' = result
  /\ fresh' = FALSE /\ walk' = {} /\ changed' = {} /\ queue' = {} /\ half' = Absent
  /\ taken' = {} /\ dropped' = {} /\ failed' = FALSE /\ after' = "end"
  /\ reuse' = Nothing /\ staged' = Nothing /\ excused' = {}

\* Ids written by this run that no vector of their own has reached yet.
Pending == IdsIn(changed)

\* The run leaves those ids to whatever vectors.bin holds under them.
MissEmbedding == wrong' = (wrong \/ (lost /\ Pending # {}))

----------------------------------------------------------------------------
(* People save, create and delete files, at any moment. An edit within the *)
(* second of the last stat does not move the mtime.                        *)

Edit(f, t) ==
  /\ edits < MaxEdits /\ edits' = edits + 1
  /\ tree[f] # t
  /\ tree' = [tree EXCEPT ![f] = t]
  /\ stamped' \in {stamped, stamped \ {f}}
  /\ excused' = IF pc = "idle" THEN excused ELSE excused \cup {f}
  /\ UNCHANGED <<db, vectors, pc, job, deletes, work, ghosts, faults>>

----------------------------------------------------------------------------
(* The four mutations begin.                                               *)

Begin(k, S) ==
  /\ pc = "idle" /\ kind' = k /\ scope' = S /\ outcome' = "none"
  /\ UNCHANGED <<disk, db, vectors, half, taken, dropped, failed, fresh, changed, reuse,
                 staged, excused, ghosts, faults, edits>>

\* prune_missing_files and prune_vanished_files.
Prune == queue' = Rows \ Present /\ after' = "sweep"

Update ==
  /\ Rows # {}
  /\ Begin("update", File) /\ walk' = Present /\ Prune /\ pc' = "delete"

ReindexFiles(S) ==
  /\ Begin("files", S) /\ walk' = S /\ pc' = "diff" /\ UNCHANGED <<queue, after>>

IndexScope(S) ==
  /\ Begin("index", S) /\ Prune /\ pc' = "delete" /\ UNCHANGED walk

\* Also what update does with an empty index.
ReindexScope(S) ==
  /\ Begin("reindex", S) /\ pc' = "clear" /\ UNCHANGED <<queue, after, walk>>

Start ==
  \/ Update
  \/ \E S \in SUBSET File \ {{}} : ReindexFiles(S) \/ IndexScope(S) \/ ReindexScope(S)

----------------------------------------------------------------------------
(* delete_by_rel_paths: the ids of a file, its symbols and its row, each   *)
(* DELETE a transaction of its own; then the vectors, in one rewrite.      *)

\* Mutant: the ids are asked for when the symbols are gone.
TakenTooLate(f) == {}

Taken(f) == IdsIn({f})

\* get_symbol_ids_for_path gives no ids when the query fails.
DeleteSymbols(f) ==
  /\ pc = "delete" /\ f \in queue
  /\ \/ taken' = Taken(f) /\ UNCHANGED <<lost, faults>>
     \/ taken' = {} /\ Fault /\ lost' = TRUE
  /\ symbols' = Keep(symbols, Live \ IdsIn({f}))
  /\ half' = f /\ Goto("row")
  /\ UNCHANGED <<disk, hash, vectors, queue, dropped, failed, after, work, excused, hollow,
                 wrong, edits>>

DeleteRow ==
  /\ pc = "row"
  /\ hash' = [hash EXCEPT ![half] = Absent]
  /\ dropped' = dropped \cup taken /\ queue' = queue \ {half}
  /\ hollow' = hollow \ {half}
  /\ half' = Absent /\ taken' = {} /\ Goto("delete")
  /\ UNCHANGED <<disk, symbols, vectors, failed, after, work, excused, lost, wrong, faults,
                 edits>>

\* The first DELETE fails, or the second: the ids of that file are not kept,
\* and those of the files before it are still removed from vectors.bin.
DeleteFails ==
  /\ pc \in {"delete", "row"} /\ queue # {} /\ Fault
  /\ queue' = {} /\ failed' = TRUE /\ UNCHANGED dropped
  /\ half' = Absent /\ taken' = {} /\ Goto("delete")
  /\ IF pc = "row"
     THEN hollow' = hollow \cup {half} /\ lost' = TRUE
     ELSE UNCHANGED <<hollow, lost>>
  /\ UNCHANGED <<disk, db, vectors, after, work, excused, wrong, edits>>

\* remove_embeddings; when it fails that is logged and the vectors stay.
RemoveVectors ==
  /\ pc = "delete" /\ queue = {}
  /\ \/ /\ vectors' = Keep(vectors, DOMAIN vectors \ dropped)
        /\ UNCHANGED <<lost, faults>>
     \/ /\ dropped # {} /\ Fault /\ lost' = TRUE /\ UNCHANGED vectors
  /\ \/ failed /\ Return("error")
     \/ ~failed /\ after = "end" /\ \E result \in {"ok", "error"} : Return(result)
     \/ /\ ~failed /\ after # "end" /\ Goto(after) /\ dropped' = {}
        /\ UNCHANGED <<queue, half, taken, failed, after, work, excused>>
  /\ UNCHANGED <<disk, db, hollow, wrong, edits>>

\* sweep_orphan_vectors; a failure is logged.
Sweep ==
  /\ pc = "sweep"
  /\ \/ vectors' = Keep(vectors, Live) /\ lost' = FALSE /\ UNCHANGED faults
     \/ Fault /\ UNCHANGED <<vectors, lost>>
  /\ Goto(IF kind = "update" THEN "diff" ELSE "scan")
  /\ UNCHANGED <<disk, db, deletes, work, excused, hollow, wrong, edits>>

----------------------------------------------------------------------------
(* What has changed, by hash (reindex_files) or by mtime (index_scope).    *)

\* Mutant: the mtime decides.
DiffersByStamp(f) == hash[f] = Absent \/ f \notin stamped

Differs(f) == hash[f] # tree[f]

\* embeddings_by_text: one vector per text, or none when the store cannot be read.
Reusable(F) ==
  LET ids == IdsIn(F) \cap DOMAIN vectors
      texts == {symbols[i].text : i \in ids}
  IN  {Nothing} \cup
      {r \in [texts -> Symbol] :
         \A t \in texts : \E i \in ids : symbols[i].text = t /\ vectors[i] = r[t]}

\* A path that cannot be read is left alone, with a warning.
Diff ==
  /\ pc = "diff"
  /\ \E U \in SUBSET (walk \cap Present) :
       /\ IF U = {} THEN UNCHANGED faults ELSE Fault
       /\ excused' = excused \cup U
       /\ changed' = {f \in (walk \cap Present) \ U : Differs(f)}
       /\ queue' = ((walk \ Present) \cup changed') \cap Rows
       /\ reuse' \in Reusable(changed')
       /\ after' = IF changed' = {} THEN "end" ELSE "read"
  /\ Goto("delete")
  /\ UNCHANGED <<disk, db, vectors, half, taken, dropped, failed, fresh, walk, staged, ghosts,
                 edits>>

Scan ==
  /\ pc = "scan"
  /\ fresh' = (Rows = {})
  /\ changed' = IF fresh' THEN {}
                ELSE {f \in scope \cap Present : hash[f] = Absent \/ f \notin stamped}
  /\ queue' = changed' \cap Rows
  /\ reuse' \in Reusable(changed')
  /\ after' = IF changed' = {} /\ ~fresh' THEN "end" ELSE "read"
  /\ Goto("delete")
  /\ UNCHANGED <<disk, db, vectors, half, taken, dropped, failed, walk, staged, excused,
                 ghosts, faults, edits>>

----------------------------------------------------------------------------
(* The pipeline: READ and PARSE, then the mtime in COLLECT, then batches.  *)

Read ==
  /\ pc = "read"
  /\ changed' = IF fresh THEN scope \cap Present ELSE changed
  /\ \E U \in SUBSET (changed' \cap Present) :
       /\ IF U = {} THEN UNCHANGED faults ELSE Fault
       /\ excused' = excused \cup U
       /\ staged' = [f \in {g \in (changed' \cap Present) \ U : tree[g] \notin Skipped}
                       |-> tree[f]]
  /\ Goto("stat")
  /\ UNCHANGED <<disk, db, vectors, deletes, fresh, walk, reuse, ghosts, edits>>

Stat ==
  /\ pc = "stat"
  /\ stamped' = (stamped \ DOMAIN staged) \cup (DOMAIN staged \cap Present)
  /\ Goto("commit")
  /\ UNCHANGED <<tree, db, vectors, deletes, work, excused, ghosts, faults, edits>>

\* Mutant: the hash is taken when the row is written.
HashAtCommit(f) == IF tree[f] \in Text THEN tree[f] ELSE staged[f]

HashOf(f) == staged[f]

\* write_batch, one transaction. A new rowid follows the largest one.
Commit(B) ==
  /\ pc = "commit" /\ B # {} /\ B \subseteq DOMAIN staged
  /\ LET found == UNION {[file : {f}, text : Symbols[staged[f]]] : f \in B}
     IN  \E top \in {0} \cup Live :
           /\ \A i \in Live : i =< top
           /\ LET ids == top + 1 .. top + Cardinality(found)
              IN  \E row \in [ids -> found] :
                    /\ \A r \in found : \E i \in ids : row[i] = r
                    /\ symbols' = [i \in Live \cup ids |->
                                     IF i \in Live THEN symbols[i] ELSE row[i]]
  /\ hash' = [f \in File |-> IF f \in B THEN HashOf(f) ELSE hash[f]]
  /\ staged' = Keep(staged, DOMAIN staged \ B)
  /\ hollow' = hollow \ B
  /\ UNCHANGED <<disk, vectors, pc, job, deletes, fresh, walk, changed, reuse, excused, lost,
                 wrong, faults, edits>>

\* A batch is rolled back, or a stage before it panicked; the batches that are
\* committed stay, without vectors.
CommitFails ==
  /\ pc = "commit" /\ Fault
  /\ MissEmbedding
  /\ Return("error")
  /\ UNCHANGED <<disk, db, vectors, hollow, lost, edits>>

\* generate_symbol_embeddings(_for_files): what the run did not touch, what it
\* carries over and what the model computes are written as the whole store. The
\* probe at the end of the run can still make it an error.
NewVector(i) ==
  IF symbols[i].text \in DOMAIN reuse THEN reuse[symbols[i].text] ELSE symbols[i].text

Embed ==
  /\ pc = "commit" /\ staged = Nothing
  /\ LET whole == fresh /\ Pending # {}
     IN  /\ vectors' = [i \in Pending \cup (IF whole THEN {} ELSE DOMAIN vectors) |->
                          IF i \in Pending THEN NewVector(i) ELSE vectors[i]]
         /\ lost' = (lost /\ ~whole) /\ wrong' = (wrong /\ ~whole)
  /\ \E result \in {"ok", "error"} : Return(result)
  /\ UNCHANGED <<disk, db, hollow, faults, edits>>

EmbedFails ==
  /\ pc = "commit" /\ staged = Nothing /\ Pending # {} /\ Fault
  /\ MissEmbedding
  /\ \E result \in {"ok", "error"} : Return(result)
  /\ UNCHANGED <<disk, db, vectors, hollow, lost, edits>>

----------------------------------------------------------------------------
(* reindex_scope: clear() in three autocommits, the vectors, then a fresh  *)
(* index_scope, whose prune finds nothing.                                 *)

ClearSymbols ==
  /\ pc = "clear"
  /\ symbols' = Nothing /\ taken' = Live /\ Goto("clearFiles")
  /\ UNCHANGED <<disk, hash, vectors, queue, half, dropped, failed, after, work, excused,
                 ghosts, faults, edits>>

ClearFiles ==
  /\ pc = "clearFiles"
  /\ hash' = [f \in File |-> Absent] /\ hollow' = {}
  /\ dropped' = taken /\ taken' = {} /\ Goto("clearVectors")
  /\ UNCHANGED <<disk, symbols, vectors, queue, half, failed, after, work, excused, lost,
                 wrong, faults, edits>>

ClearFails ==
  /\ pc \in {"clear", "clearFiles"} /\ Fault
  /\ IF pc = "clear" THEN UNCHANGED <<hollow, lost>> ELSE hollow' = Rows /\ lost' = TRUE
  /\ Return("error")
  /\ UNCHANGED <<disk, db, vectors, wrong, edits>>

ClearVectors ==
  /\ pc = "clearVectors"
  /\ \/ vectors' = Nothing /\ lost' = FALSE /\ wrong' = FALSE /\ UNCHANGED faults
     \/ Fault /\ lost' = TRUE /\ UNCHANGED <<vectors, wrong>>
  /\ dropped' = {} /\ Goto("sweep")
  /\ UNCHANGED <<disk, db, queue, half, taken, failed, after, work, excused, hollow, edits>>

----------------------------------------------------------------------------

\* The process dies; the next one starts with the files as they are.
Crash ==
  /\ pc # "idle" /\ Fault
  /\ hollow' = hollow \cup (IF pc = "row" THEN {half}
                            ELSE IF pc = "clearFiles" THEN Rows ELSE {})
  /\ lost' = (lost \/ taken \cup dropped # {})
  /\ IF pc = "commit" THEN MissEmbedding ELSE UNCHANGED wrong
  /\ Return("error")
  /\ UNCHANGED <<disk, db, vectors, edits>>

Delete == (\E f \in File : DeleteSymbols(f)) \/ DeleteRow \/ DeleteFails \/ RemoveVectors
Pipeline ==
  Read \/ Stat \/ (\E B \in SUBSET File : Commit(B)) \/ CommitFails \/ Embed \/ EmbedFails
Clear == ClearSymbols \/ ClearFiles \/ ClearFails \/ ClearVectors

Next ==
  \/ \E f \in File, t \in Text \cup {Absent} : Edit(f, t)
  \/ Start \/ Delete \/ Sweep \/ Diff \/ Scan \/ Pipeline \/ Clear \/ Crash

Spec == Init /\ [][Next]_vars

----------------------------------------------------------------------------
(* Properties                                                              *)

Answers(i) == vectors[i] = symbols[i].text

\* Between mutations a symbol that has a vector has its own: a rowid that
\* delete_by_file frees and insert_symbol hands out again never leaves a symbol
\* to the vector of the one before it. The exception is a removal of vectors
\* (remove_embeddings, or the ids it needs) that failed or was cut off, followed
\* by a run that failed before it had embedded what it wrote.
VectorsAnswer ==
  pc = "idle" /\ ~wrong => \A i \in Live \cap DOMAIN vectors : Answers(i)

\* Rows whose symbols an interrupted delete_by_file or clear() has taken.
Torn(f) == f \in hollow \/ (pc = "row" /\ f = half) \/ pc = "clearFiles"

\* A row of code_files has the symbols of the content whose hash it carries, at
\* every step of the deletes and of write_batch, while the file is edited
\* between the diff, the read and the commit: update and reindex_files, which go
\* by the hash, never pass over a file whose symbols are another text's.
RowsAreWhole ==
  \A f \in File : hash[f] # Absent /\ ~Torn(f) => SymbolsOf(f) = Symbols[hash[f]]

\* The index says of f what the tree says; a file that is skipped has no row.
CaughtUp(f) ==
  IF tree[f] \in Text \ Skipped
  THEN hash[f] = tree[f] /\ SymbolsOf(f) = Symbols[tree[f]]
  ELSE hash[f] = Absent /\ SymbolsOf(f) = {}

\* An update, reindex_files or reindex_scope that ends well has brought every
\* file it was asked for up to the tree, those apart that were edited or
\* unreadable while it ran and those an interrupted delete had hollowed out.
\* index_scope promises less: it goes by mtimes.
CatchesUp ==
  [][pc # "idle" /\ outcome' = "ok" /\ kind # "index"
     => \A f \in scope \ (excused \cup hollow) : CaughtUp(f)']_vars

=============================================================================
