------------------------------ MODULE MemorySync ------------------------------
(***************************************************************************)
(* The memory entries of a store and their markdown projection             *)
(* (.mdkb/memory/entries/<id>.md), kept in step in both directions: the    *)
(* reconciliation pass with its classification, its conflict rule and its  *)
(* archive circuit breaker, the writes that project their own file, the    *)
(* disposal of a retired entry, and the watcher flush that starts a pass.  *)
(*                                                                         *)
(* Sources: core/memory_sync.rs, core/memory.rs, store/memory.rs,          *)
(* core/indexing.rs (run_document_update) and mcp/server.rs                *)
(* (flush_memory_sync).                                                    *)
(*                                                                         *)
(* Every operation of the store runs under the mutation guard, so one job  *)
(* runs at a time; people and git change the files at any moment. Bytes    *)
(* stand for their hash. Of an entry its text (title, tags, triggers,      *)
(* content), updated_at and status are kept; `superseded' is treated as    *)
(* active everywhere here and left out. What an archived file holds is     *)
(* never read again, so archive/ is left out too.                          *)
(***************************************************************************)
EXTENDS Integers, FiniteSets, Sequences

CONSTANTS
  Id,            \* entry ids
  Text,          \* what an entry says
  Fresh,         \* Fresh[t]: what into_fresh_entry keeps of t (not the triggers)
  Manual,        \* ids of user_statement and official_docs entries
  Expiring,      \* ids of entries with a TTL
  Cap,           \* MEMORY_SYNC_BULK_ARCHIVE_CAP
  MaxRevisions,  \* MAX_REVISIONS
  MaxTime,       \* bound on the clock
  MaxEdits,      \* bound on the changes people and git make to files
  MaxWrites,     \* bound on the operations started on the store
  NoRow, NoFile, Unreadable, NoHash, NoId, Diff

Status == {"active", "archived"}
Bytes == [text : Text, at : 0..MaxTime, status : Status]
Row == [text : Text, at : 0..MaxTime, status : Status, hash : Bytes \cup {NoHash}]

ASSUME MemorySyncAssumption ==
  /\ Manual \subseteq Id /\ Expiring \subseteq Id
  /\ Fresh \in [Text -> Text] /\ \A t \in Text : Fresh[Fresh[t]] = Fresh[t]
  /\ Cap \in Nat /\ MaxTime \in Nat /\ MaxEdits \in Nat /\ MaxWrites \in Nat
  /\ MaxRevisions \in Nat \ {0, 1}
  /\ NoRow \notin Row /\ NoId \notin Id
  /\ NoFile \notin Bytes /\ Unreadable \notin Bytes /\ NoFile # Unreadable
  /\ NoHash \notin Bytes /\ Diff \notin Bytes

VARIABLES
  row,      \* row[id]: the row of memory_entries, with projected_hash
  kept,     \* kept[id]: memory_revisions, snapshots and diffs, oldest first
  file,     \* file[id]: entries/<id>.md
  proven,   \* ids whose file git records as deleted
  time,     \* the clock
  job,      \* what holds the mutation guard
  plan,     \* plan[id]: the action the pass decided on and has not finished
  seen,     \* seen[id]: the file as the pass read it
  target,   \* the entry being worked on
  phase,    \* the next statement for it
  changed,  \* needs_memory_sync of the watcher: ids of changed files
  dropped,  \* history: a memory request was given up
  retired,  \* history: removed or pruned, and neither entry nor file written since
  edits,    \* changes to files so far
  writes    \* operations started so far

store == <<row, kept>>
disk == <<file, changed>>
work == <<job, plan, seen, target, phase>>
tally == <<edits, writes>>
vars == <<store, disk, work, proven, time, dropped, retired, tally>>

Actions == {"none", "project", "import", "adopt", "conflict", "revive", "archive", "dispose"}
Passes == {"sync", "update"}

TypeOK ==
  /\ row \in [Id -> Row \cup {NoRow}]
  /\ kept \in [Id -> Seq(Bytes \cup {Diff})]
  /\ \A id \in Id : Len(kept[id]) <= MaxRevisions
  /\ file \in [Id -> Bytes \cup {NoFile, Unreadable}]
  /\ proven \subseteq Id /\ changed \subseteq Id /\ retired \subseteq Id
  /\ time \in 0..MaxTime
  /\ job \in {"idle", "write", "remove", "prune", "expire"} \cup Passes
  /\ plan \in [Id -> Actions]
  /\ seen \in [Id -> Bytes \cup {NoFile}]
  /\ target \in Id \cup {NoId}
  /\ phase \in {"none", "store", "write", "record", "retire"}
  /\ (target = NoId) = (phase = "none")
  /\ dropped \in BOOLEAN
  /\ edits \in 0..MaxEdits /\ writes \in 0..MaxWrites

Init ==
  /\ row = [id \in Id |-> NoRow]
  /\ kept = [id \in Id |-> <<>>]
  /\ file = [id \in Id |-> NoFile]
  /\ proven = {} /\ changed = {} /\ retired = {}
  /\ time = 0
  /\ job = "idle"
  /\ plan = [id \in Id |-> "none"]
  /\ seen = [id \in Id |-> NoFile]
  /\ target = NoId /\ phase = "none"
  /\ dropped = FALSE
  /\ edits = 0 /\ writes = 0

\* to_markdown of a row.
Render(r) == [text |-> r.text, at |-> r.at, status |-> r.status]

\* save_conflict_snapshot and save_revision, with prune_revisions.
Keep(s, item) ==
  LET t == Append(s, item)
  IN  IF Len(t) > MaxRevisions THEN Tail(t) ELSE t

\* save_revision of an edit, for entries a person wrote.
Revised(id, text) ==
  IF id \in Manual /\ row[id].text # text THEN Keep(kept[id], Diff) ELSE kept[id]

\* find_duplicate: another active entry says the same.
Duplicate(id, text) ==
  \E i \in Id \ {id} : row[i] # NoRow /\ row[i].status = "active" /\ row[i].text = text

-----------------------------------------------------------------------------
(* People and git.                                                          *)

Tick ==
  /\ job = "idle" /\ time < MaxTime
  /\ time' = time + 1
  /\ UNCHANGED <<store, disk, work, proven, dropped, retired, tally>>

FileBecomes(id, b) ==
  /\ edits < MaxEdits
  /\ file[id] # b
  /\ file' = [file EXCEPT ![id] = b]
  /\ changed' = changed \cup {id}
  /\ edits' = edits + 1
  /\ retired' = IF b = NoFile THEN retired ELSE retired \ {id}
  /\ UNCHANGED <<store, work, time, dropped, writes>>

\* An edit, a checkout, a restore, a merge that was resolved.
PersonWrites(id) ==
  /\ \E b \in Bytes : b.at <= time /\ b.status = "active" /\ FileBecomes(id, b)
  /\ proven' = proven \ {id}

\* A deletion, which git records or not.
PersonDeletes(id) == FileBecomes(id, NoFile) /\ proven' \in {proven \cup {id}, proven \ {id}}

\* A merge that stopped on a conflict, or a file that no longer parses.
MergeStops(id) == FileBecomes(id, Unreadable) /\ UNCHANGED proven

-----------------------------------------------------------------------------
(* Classification: sync_memory_files up to its first action.                *)

\* read_entries_dir: what is not safely readable is omitted.
Reads(id) == IF file[id] = Unreadable THEN NoFile ELSE file[id]

\* One entry of the decision table; `note' only records the projection.
Decision(id) ==
  IF row[id] = NoRow THEN IF Reads(id) = NoFile THEN "none" ELSE "import"
  ELSE IF row[id].status = "archived" THEN IF Reads(id) = NoFile THEN "none" ELSE "revive"
  ELSE IF row[id].hash = NoHash THEN "project"
  ELSE IF Reads(id) = NoFile THEN "archive"
  ELSE LET fileChanged == row[id].hash # Reads(id)
           rowChanged == row[id].hash # Render(row[id])
       IN  CASE ~fileChanged /\ ~rowChanged -> "none"
             [] ~fileChanged /\ rowChanged -> "project"
             [] fileChanged /\ ~rowChanged -> "adopt"
             [] fileChanged /\ rowChanged ->
                  IF Reads(id) = Render(row[id]) THEN "note" ELSE "conflict"

\* Archival candidates that git cannot explain (partition_deletions).
Suspects == {id \in Id : Decision(id) = "archive" /\ id \notin proven}

StartPass(kind) ==
  /\ job = "idle"
  /\ job' = kind
  /\ seen' = [id \in Id |-> Reads(id)]
  /\ plan' = [id \in Id |->
       IF Decision(id) = "note" \/ (id \in Suspects /\ Cardinality(Suspects) > Cap)
       THEN "none" ELSE Decision(id)]
  /\ row' = [id \in Id |->
       IF Decision(id) = "note" THEN [row[id] EXCEPT !.hash = Reads(id)] ELSE row[id]]
  /\ UNCHANGED <<kept, file, target, phase, proven, time, dropped, retired, edits>>

\* mdkb memory sync, mdkb update, or a full recovery of the watcher.
RunPass(kind) ==
  /\ writes < MaxWrites /\ writes' = writes + 1
  /\ StartPass(kind)
  /\ UNCHANGED changed

\* Mutant: one own write among the changes is enough.
SomeOwnWrite == \E id \in changed : row[id] # NoRow /\ row[id].hash = file[id]

\* changes_are_recorded_projections: the store's own writes coming back.
OwnWrites == \A id \in changed : row[id] # NoRow /\ row[id].hash = file[id]

\* flush_memory_sync: a pass, unless the store wrote all of it itself.
Flush ==
  /\ job = "idle" /\ changed # {}
  /\ changed' = {}
  /\ IF OwnWrites
     THEN UNCHANGED <<store, file, work, proven, time, dropped, retired, tally>>
     ELSE StartPass("sync") /\ UNCHANGED writes

\* flush_memory_sync on an empty slot: there is nothing to do, says the code.
FlushEmptySlot ==
  /\ job = "idle" /\ changed # {}
  /\ changed' = {} /\ dropped' = TRUE
  /\ UNCHANGED <<store, file, work, proven, time, retired, tally>>

-----------------------------------------------------------------------------
(* apply_sync_action, one entry at a time; archivals come last.             *)

Passing == job \in Passes /\ target = NoId
Begin(id, p) == target' = id /\ phase' = p /\ UNCHANGED <<job, plan, seen>>
Done(id) == plan' = [plan EXCEPT ![id] = "none"] /\ UNCHANGED <<job, seen, target, phase>>

Project(id) ==
  /\ Passing /\ plan[id] = "project"
  /\ Begin(id, "write")
  /\ UNCHANGED <<store, disk, proven, time, dropped, retired, tally>>

Import(id) ==
  /\ Passing /\ plan[id] = "import"
  /\ LET text == Fresh[seen[id].text]
     IN  IF Duplicate(id, text)
         THEN Done(id) /\ UNCHANGED row
         ELSE /\ row' = [row EXCEPT ![id] =
                   [text |-> text, at |-> seen[id].at, status |-> seen[id].status,
                    hash |-> NoHash]]
              /\ Begin(id, "write")
  /\ UNCHANGED <<kept, disk, proven, time, dropped, retired, tally>>

Adopt(id) ==
  /\ Passing /\ plan[id] = "adopt"
  /\ kept' = [kept EXCEPT ![id] = Revised(id, Fresh[seen[id].text])]
  /\ Begin(id, "store")
  /\ UNCHANGED <<row, disk, proven, time, dropped, retired, tally>>

\* Ties go to the file.
FileWins(id) == seen[id].at >= row[id].at

\* Mutant: the loser is not preserved when the file wins.
ConflictUnsaved(id) ==
  /\ Passing /\ plan[id] = "conflict"
  /\ IF FileWins(id)
     THEN kept' = [kept EXCEPT ![id] = Revised(id, Fresh[seen[id].text])] /\ Begin(id, "store")
     ELSE kept' = [kept EXCEPT ![id] = Keep(@, [seen[id] EXCEPT !.text = Fresh[@]])]
          /\ Begin(id, "write")
  /\ UNCHANGED <<row, disk, proven, time, dropped, retired, tally>>

Conflict(id) ==
  /\ Passing /\ plan[id] = "conflict"
  /\ IF FileWins(id)
     THEN /\ kept' = [kept EXCEPT ![id] =
               LET saved == Keep(@, Render(row[id]))
               IN  IF id \in Manual /\ row[id].text # Fresh[seen[id].text]
                   THEN Keep(saved, Diff) ELSE saved]
          /\ Begin(id, "store")
     ELSE /\ kept' = [kept EXCEPT ![id] = Keep(@, [seen[id] EXCEPT !.text = Fresh[@]])]
          /\ Begin(id, "write")
  /\ UNCHANGED <<row, disk, proven, time, dropped, retired, tally>>

\* The status flips, then project_entry writes the row's version over the file.
Revive(id) ==
  /\ Passing /\ plan[id] = "revive"
  /\ row' = [row EXCEPT ![id].status = "active"]
  /\ Begin(id, "write")
  /\ UNCHANGED <<kept, disk, proven, time, dropped, retired, tally>>

Archive(id) ==
  /\ Passing /\ plan[id] = "archive"
  /\ \A i \in Id : plan[i] \in {"none", "archive"}
  /\ row' = [row EXCEPT ![id].status = "archived", ![id].at = time]
  /\ Done(id)
  /\ UNCHANGED <<kept, disk, proven, time, dropped, retired, tally>>

\* adopt_file_version: the file's version into the row. A hand edit that left
\* updated_at alone is stamped now.
Store ==
  /\ phase = "store"
  /\ LET b == seen[target]
     IN  row' = [row EXCEPT ![target] =
           [text |-> Fresh[b.text], status |-> b.status, hash |-> @.hash,
            at |-> IF plan[target] = "conflict" \/ b.at > @.at THEN b.at ELSE time]]
  /\ phase' = "write"
  /\ UNCHANGED <<kept, disk, job, plan, seen, target, proven, time, dropped, retired, tally>>

\* project_entry: the file, then the hash that describes it.
WriteFile ==
  /\ phase = "write"
  /\ file' = [file EXCEPT ![target] = Render(row[target])]
  /\ changed' = changed \cup {target}
  /\ phase' = "record"
  /\ UNCHANGED <<store, job, plan, seen, target, proven, time, dropped, retired, tally>>

Rest == target' = NoId /\ phase' = "none"

Record ==
  /\ phase = "record"
  /\ row' = [row EXCEPT ![target].hash = Render(row[target])]
  /\ plan' = [plan EXCEPT ![target] = "none"]
  /\ job' = IF job = "write" THEN "idle" ELSE job
  /\ Rest
  /\ UNCHANGED <<kept, disk, seen, proven, time, dropped, retired, tally>>

Idle == /\ job' = "idle"
        /\ plan' = [id \in Id |-> "none"]
        /\ seen' = [id \in Id |-> NoFile]
        /\ Rest

\* run_document_update goes on to archive_expired: the rows first, then their
\* files (dispose_projections). The newest handoff is spared, so not all of them.
Expire ==
  \E E \in SUBSET {id \in Expiring : row[id] # NoRow /\ row[id].status = "active"} :
    /\ row' = [id \in Id |->
         IF id \in E THEN [row[id] EXCEPT !.status = "archived", !.at = time] ELSE row[id]]
    /\ job' = "expire"
    /\ plan' = [id \in Id |-> IF id \in E THEN "dispose" ELSE "none"]
    /\ seen' = [id \in Id |-> NoFile]
    /\ Rest

EndPass ==
  /\ Passing /\ \A id \in Id : plan[id] = "none"
  /\ IF job = "sync" THEN Idle /\ UNCHANGED row ELSE Expire
  /\ UNCHANGED <<kept, disk, proven, time, dropped, retired, tally>>

\* An error ends the pass; an update logs it and goes on.
PassFails ==
  /\ job \in Passes
  /\ dropped' = TRUE
  /\ IF job = "sync" THEN Idle /\ UNCHANGED row ELSE Expire
  /\ UNCHANGED <<kept, disk, proven, time, retired, tally>>

\* Best-effort: a file that cannot be moved stays.
Dispose(id) ==
  /\ job = "expire" /\ plan[id] = "dispose"
  /\ \/ file' = [file EXCEPT ![id] = NoFile] /\ changed' = changed \cup {id}
     \/ UNCHANGED disk
  /\ Done(id)
  /\ UNCHANGED <<store, proven, time, dropped, retired, tally>>

EndExpire ==
  /\ job = "expire" /\ \A id \in Id : plan[id] = "none"
  /\ Idle
  /\ UNCHANGED <<store, disk, proven, time, dropped, retired, tally>>

-----------------------------------------------------------------------------
(* Operations on one entry.                                                 *)

Starts == job = "idle" /\ writes < MaxWrites /\ writes' = writes + 1

\* write_memory commits the row; project_after_write follows.
WriteMemory(id, text) ==
  /\ Starts
  /\ row[id] = NoRow => ~Duplicate(id, text)
  /\ row' = [row EXCEPT ![id] =
       IF @ = NoRow THEN [text |-> text, at |-> time, status |-> "active", hash |-> NoHash]
       ELSE [@ EXCEPT !.text = text, !.at = time]]
  /\ kept' = [kept EXCEPT ![id] = IF row[id] = NoRow THEN @ ELSE Revised(id, text)]
  /\ job' = "write" /\ target' = id /\ phase' = "write"
  /\ retired' = retired \ {id}
  /\ UNCHANGED <<disk, plan, seen, proven, time, dropped, edits>>

\* The row is committed, so a failed file write is only logged.
ProjectionFails ==
  /\ job = "write"
  /\ Idle
  /\ UNCHANGED <<store, disk, proven, time, dropped, retired, tally>>

\* Mutant: a file that cannot be moved does not stop the removal.
RetireBestEffort(id, how) ==
  /\ Starts
  /\ row[id] # NoRow /\ (how = "prune" => id \in Expiring /\ row[id].status = "active")
  /\ \/ file' = [file EXCEPT ![id] = NoFile] /\ changed' = changed \cup {id}
     \/ UNCHANGED disk
  /\ retired' = retired \cup {id}
  /\ job' = how /\ target' = id /\ phase' = "retire"
  /\ UNCHANGED <<store, plan, seen, proven, time, dropped, edits>>

\* archive_then_remove: the file goes to archive/ first; if it cannot, nothing does.
Retire(id, how) ==
  /\ Starts
  /\ row[id] # NoRow /\ (how = "prune" => id \in Expiring /\ row[id].status = "active")
  /\ file' = [file EXCEPT ![id] = NoFile]
  /\ changed' = changed \cup {id}
  /\ retired' = retired \cup {id}
  /\ job' = how /\ target' = id /\ phase' = "retire"
  /\ UNCHANGED <<store, plan, seen, proven, time, dropped, edits>>

\* delete_entry takes the revisions along; archive_entries keeps everything.
RetireRow ==
  /\ phase = "retire"
  /\ IF job = "remove"
     THEN row' = [row EXCEPT ![target] = NoRow] /\ kept' = [kept EXCEPT ![target] = <<>>]
     ELSE /\ row' = [row EXCEPT ![target].status = "archived", ![target].at = time]
          /\ UNCHANGED kept
  /\ Idle
  /\ UNCHANGED <<disk, proven, time, dropped, retired, tally>>

\* confirm_entry restores an archived entry.
Confirm(id) ==
  /\ Starts
  /\ row[id] # NoRow /\ row[id].status = "archived"
  /\ row' = [row EXCEPT ![id].status = "active", ![id].at = time]
  /\ retired' = retired \ {id}
  /\ UNCHANGED <<kept, disk, work, proven, time, dropped, edits>>

\* The process that runs the job dies: what a pass had taken is not asked for
\* again, and the watcher's request dies with the daemon.
Crash ==
  /\ job # "idle"
  /\ Idle
  /\ \/ dropped' = (dropped \/ job \in Passes) /\ UNCHANGED changed
     \/ dropped' = TRUE /\ changed' = {}
  /\ retired' = retired \ {target}
  /\ UNCHANGED <<store, file, proven, time, tally>>

-----------------------------------------------------------------------------
People == \E id \in Id : PersonWrites(id) \/ PersonDeletes(id) \/ MergeStops(id)

Apply == \E id \in Id :
  Project(id) \/ Import(id) \/ Adopt(id) \/ Conflict(id) \/ Revive(id) \/ Archive(id)

\* What the holder of the guard does next.
Work ==
  \/ Apply \/ Store \/ WriteFile \/ Record \/ EndPass
  \/ \E id \in Id : Dispose(id)
  \/ EndExpire \/ RetireRow

Operate ==
  \/ \E kind \in Passes : RunPass(kind)
  \/ \E id \in Id, text \in Text : WriteMemory(id, text)
  \/ \E id \in Id, how \in {"remove", "prune"} : Retire(id, how)
  \/ \E id \in Id : Confirm(id)

Trouble == FlushEmptySlot \/ PassFails \/ ProjectionFails \/ Crash

Next == Tick \/ People \/ Flush \/ Work \/ Operate \/ Trouble

Spec == Init /\ [][Next]_vars

\* The holder of the guard goes on, and the watcher loop flushes what is pending.
FairSpec == Spec /\ WF_vars(Work) /\ WF_vars(Flush)

-----------------------------------------------------------------------------
(* Properties.                                                              *)

\* The row or a revision holds the text.
Holds(r, versions, text) ==
  \/ r # NoRow /\ r.text = text
  \/ \E i \in DOMAIN versions : versions[i] # Diff /\ versions[i].text = text

\* Neither side of an entry that changed on both is overwritten before it is safe:
\* whatever fails or dies between the steps, the version that lost is in the row or
\* among the revisions when the other takes its place (apply_sync_action, Conflict).
LoserIsKept ==
  [][ /\ Store /\ plan[target] = "conflict" =>
           Holds(row'[target], kept'[target], row[target].text)
      /\ WriteFile /\ plan[target] \in {"adopt", "conflict"} =>
           Holds(row'[target], kept'[target], Fresh[seen[target].text]) ]_vars

\* An entry that was removed or pruned does not come back: no pass, whenever the
\* operation died, finds its file again (archive_then_remove: "the retired entry
\* comes back").
RetiredStays ==
  \A id \in retired \ {target} : row[id] = NoRow \/ row[id].status = "archived"

\* A file says something the store has not read. A new file is skipped while it
\* looks like a duplicate, so it counts only when there is no other entry; the file
\* under a row that never was projected is overwritten by it.
Unread(id) ==
  /\ file[id] \in Bytes
  /\ IF row[id] = NoRow THEN \A i \in Id : row[i] = NoRow
     ELSE row[id].hash \notin {NoHash, file[id]}

\* Every edit of a file is read in the end without anyone asking, unless a request
\* was given up (the watcher's third route, flush_memory_sync).
EditsAreRead == \A id \in Id : []<>(~Unread(id) \/ dropped)

\* Until it is read the watcher still knows of it: with nothing running, what it has
\* collected is more than the store's own writes, so the next flush starts a pass
\* (changes_are_recorded_projections).
EditsAreAsked == \A id \in Id : Unread(id) => dropped \/ job # "idle" \/ ~OwnWrites

\* A file that cannot be read safely is not taken for a deletion (memory_sync.rs,
\* read_entries_dir: "must neither overwrite the DB nor look like a deletion").
UnreadableIsNoDeletion ==
  [][\A id \in Id : Archive(id) => file[id] # Unreadable]_vars

=============================================================================
