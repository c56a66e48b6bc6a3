-------------------------------- MODULE Watcher --------------------------------
(***************************************************************************)
(* The file watcher of one repository: from a change on disk to the        *)
(* document, code and memory indexes that must come to hold it.            *)
(*                                                                         *)
(* Sources: watcher/mod.rs (the debouncer thread, the bounded channel and  *)
(* the missed-events flag), mcp/server.rs (the event loop, its pending     *)
(* requests, the flushes, the recovery rescan and the rebuild after a      *)
(* heal) and mcp/dispatch.rs (the paths that hooks inject, the rebuild     *)
(* signal of an open).                                                     *)
(*                                                                         *)
(* Of a file and an index only one thing is kept: whether the index holds  *)
(* what the file contains. A pass reads each of its files once and nothing *)
(* else happens in the loop meanwhile, so a pass is one step: an edit      *)
(* comes before the read or after it. A full document pass, unlike a pass  *)
(* over named files, leaves a file alone whose modification time, in whole *)
(* seconds, is not after its row: hidden keeps the stale documents such a  *)
(* pass passes over. The model begins when the watch is registered and the *)
(* indexes hold what is on disk.                                           *)
(***************************************************************************)
EXTENDS Integers, Sequences, FiniteSets

CONSTANTS
  Doc, Code, Memory,  \* paths a collection, the code index, the projection takes
  Policy,             \* ignore files and directories: who is watched may change
  Noise,              \* everything else under the root, a build's output
  Root,               \* the injected "path" that asks for a full rebuild
  Capacity,           \* the watcher's channel (100)
  InjectCapacity,     \* the channel of injected paths (64)
  MaxPending,         \* MAX_PENDING_PATHS (1024)
  MaxEvents           \* bound on the edits, injections and heals

Path == Doc \cup Code \cup Memory \cup Policy \cup Noise
Sink == {"doc", "code", "memory"}
Requests == {"doc", "memory"}

ASSUME WatcherAssumption ==
  /\ Root \notin Path
  /\ Capacity \in Nat \ {0}
  /\ InjectCapacity \in Nat \ {0}
  /\ MaxPending \in Nat \ {0}
  /\ MaxEvents \in Nat
  /\ IsFiniteSet(Path)

NoPath == Root      \* the debouncer is not dropping anything

VARIABLES
  codeEnabled, \* [code] enabled, read when the watcher starts
  events,      \* edits, injections and heals so far
  stale,       \* stale[s]: files whose content index s does not hold
  hidden,      \* stale documents whose file does not look newer than its row
  known,       \* documents that have a row
  raw,         \* paths the debouncer has yet to deliver
  dropping,    \* path whose try_send failed before the flag was stored
  channel,     \* FileWatcher's bounded channel
  missed,      \* missed_events
  injected,    \* reindex_rx: file paths and Root
  batch,       \* code_batch
  request,     \* needs_doc_update and needs_memory_sync
  rescan,      \* needs_rescan
  cooling,     \* recovery_not_before is in the future
  docsCooling, \* doc_retry_not_before is in the future
  recovering,  \* the flush under way is a recovery
  codeOpen,    \* the code slot holds a facade
  pc,          \* where the loop stands
  healed,      \* history: a store was replaced by an empty one
  forsaken     \* history: forsaken[s], paths a pass left unread, or a failed pass or
               \* signal gave up, since their last edit

world == <<codeEnabled, events, healed>>
queue == <<raw, dropping, channel, missed, injected>>
asked == <<batch, request, rescan>>
timers == <<cooling, docsCooling>>
index == <<stale, hidden, known, codeOpen, forsaken>>
ctl == <<pc, recovering>>
vars == <<world, queue, asked, timers, index, ctl>>

Idle == [full |-> FALSE, paths |-> {}]
Full == [full |-> TRUE, paths |-> {}]

PCs == {"select", "code", "docs", "memory", "hDocs", "hMemory", "hCode"}

TypeOK ==
  /\ codeEnabled \in BOOLEAN
  /\ events \in Nat
  /\ stale \in [Sink -> SUBSET Path]
  /\ hidden \subseteq Doc
  /\ known \subseteq Doc
  /\ raw \subseteq Path
  /\ dropping \in Path \cup {NoPath}
  /\ channel \in Seq(Path) /\ Len(channel) <= Capacity
  /\ missed \in BOOLEAN
  /\ injected \in Seq(Path \cup {Root}) /\ Len(injected) <= InjectCapacity
  /\ batch \subseteq Path /\ Cardinality(batch) <= MaxPending
  /\ request \in [Requests -> [full : BOOLEAN, paths : SUBSET Path]]
  /\ \A r \in Requests :
       /\ Cardinality(request[r].paths) <= MaxPending
       /\ request[r].full => request[r].paths = {}
  /\ rescan \in BOOLEAN
  /\ cooling \in BOOLEAN
  /\ docsCooling \in BOOLEAN
  /\ recovering \in BOOLEAN
  /\ codeOpen \in BOOLEAN
  /\ pc \in PCs
  /\ healed \in BOOLEAN
  /\ forsaken \in [Sink -> SUBSET Path]

-----------------------------------------------------------------------------
(* Which index a path belongs to, and which request stands for it.          *)

\* classify_change; the code route counts only where code is indexed.
Routed(s) ==
  CASE s = "doc" -> Doc
    [] s = "code" -> IF codeEnabled THEN Code ELSE {}
    [] s = "memory" -> Memory

\* routed_path_filter.
Relevant(p) == p \in Policy \/ \E s \in Sink : p \in Routed(s)

IsPending(r) == request[r].full \/ request[r].paths # {}

\* Mutant: the list is compared after it has grown.
NotedOnceMore(req, p) ==
  IF req.full \/ p \in req.paths THEN req
  ELSE IF Cardinality(req.paths) > MaxPending THEN Full
  ELSE [req EXCEPT !.paths = @ \cup {p}]

\* FileUpdateRequest::note.
Noted(req, p) ==
  IF req.full \/ p \in req.paths THEN req
  ELSE IF Cardinality(req.paths) = MaxPending THEN Full
  ELSE [req EXCEPT !.paths = @ \cup {p}]

\* note_code_change: the batch it leaves, and whether it asks for a rescan.
CodeOverflows(p) == p \notin batch /\ Cardinality(batch) = MaxPending
CodeNoted(p) ==
  IF p \in batch THEN batch ELSE IF CodeOverflows(p) THEN {} ELSE batch \cup {p}

Init ==
  /\ codeEnabled \in BOOLEAN
  /\ events = 0
  /\ stale = [s \in Sink |-> {}]
  /\ hidden = {}
  /\ known = Doc
  /\ raw = {}
  /\ dropping = NoPath
  /\ channel = <<>>
  /\ missed = FALSE
  /\ injected = <<>>
  /\ batch = {}
  /\ request = [r \in Requests |-> Idle]
  /\ rescan = FALSE
  /\ cooling = FALSE
  /\ docsCooling = FALSE
  /\ recovering = FALSE
  /\ codeOpen = codeEnabled
  /\ pc = "select"
  /\ healed = FALSE
  /\ forsaken = [s \in Sink |-> {}]

-----------------------------------------------------------------------------
(* The world: edits, hooks, heals, time.                                    *)

Happens == events < MaxEvents /\ events' = events + 1

\* A tool or a user changes a file; the system will tell the debouncer. A save in
\* the second of the last pass, or one that brings an older time along, does not
\* look newer than the row.
Edit(p) ==
  /\ Happens
  /\ stale' = [s \in Sink |-> stale[s] \cup ({p} \cap Routed(s))]
  /\ hidden' \in {hidden \ {p}, hidden \cup ({p} \cap known)}
  /\ raw' = raw \cup {p}
  /\ forsaken' = [s \in Sink |-> forsaken[s] \ {p}]
  /\ UNCHANGED <<codeEnabled, healed, known, dropping, channel, missed, injected, asked,
                 timers, codeOpen, ctl>>

\* hook.post_tool_use injects the path a tool touched; a full channel refuses it.
Inject(p) ==
  /\ Len(injected) < InjectCapacity
  /\ injected' = Append(injected, p)
  /\ Happens
  /\ UNCHANGED <<codeEnabled, healed, raw, dropping, channel, missed, asked, timers, index, ctl>>

\* SlotOpener::open_impl over a store that was quarantined: documents and memory
\* are empty, and the rebuild is signalled unless the injection channel is full.
Heal ==
  /\ Happens
  /\ healed' = TRUE
  /\ stale' = [stale EXCEPT !["doc"] = Doc, !["memory"] = Memory]
  /\ hidden' = {}
  /\ known' = {}
  /\ \/ /\ Len(injected) < InjectCapacity
        /\ injected' = Append(injected, Root)
        /\ UNCHANGED forsaken
     \/ /\ Len(injected) = InjectCapacity
        /\ forsaken' = [forsaken EXCEPT !["doc"] = Doc, !["memory"] = Memory]
        /\ UNCHANGED injected
  /\ UNCHANGED <<codeEnabled, raw, dropping, channel, missed, asked, timers, codeOpen, ctl>>

\* RECOVERY_INTERVAL passes.
RecoveryDue ==
  /\ cooling /\ cooling' = FALSE
  /\ UNCHANGED <<world, queue, asked, docsCooling, index, ctl>>

DocRetryDue ==
  /\ docsCooling /\ docsCooling' = FALSE
  /\ UNCHANGED <<world, queue, asked, cooling, index, ctl>>

-----------------------------------------------------------------------------
(* The debouncer thread: deliver_change.                                    *)

Reject(p) ==
  /\ p \in raw /\ dropping = NoPath
  /\ ~Relevant(p)
  /\ raw' = raw \ {p}
  /\ UNCHANGED <<world, dropping, channel, missed, injected, asked, timers, index, ctl>>

Send(p) ==
  /\ p \in raw /\ dropping = NoPath
  /\ Relevant(p)
  /\ Len(channel) < Capacity
  /\ channel' = Append(channel, p)
  /\ raw' = raw \ {p}
  /\ UNCHANGED <<world, dropping, missed, injected, asked, timers, index, ctl>>

\* try_send fails; the flag is stored only afterwards.
SendFails(p) ==
  /\ p \in raw /\ dropping = NoPath
  /\ Relevant(p)
  /\ Len(channel) = Capacity
  /\ dropping' = p
  /\ raw' = raw \ {p}
  /\ UNCHANGED <<world, channel, missed, injected, asked, timers, index, ctl>>

\* Mutant: a failed send is only logged.
StoreMissedUnset ==
  /\ dropping # NoPath
  /\ dropping' = NoPath
  /\ UNCHANGED <<world, raw, channel, missed, injected, asked, timers, index, ctl>>

StoreMissed ==
  /\ dropping # NoPath
  /\ missed' = TRUE
  /\ dropping' = NoPath
  /\ UNCHANGED <<world, raw, channel, injected, asked, timers, index, ctl>>

-----------------------------------------------------------------------------
(* The loop: the two event sources.                                         *)

\* A delivered change: take_missed_events, then queue_watcher_change.
Receive ==
  /\ pc = "select"
  /\ channel # <<>>
  /\ LET p == Head(channel)
         docs == IF p \in Doc THEN Noted(request["doc"], p) ELSE request["doc"]
         memory == IF p \in Memory THEN Noted(request["memory"], p) ELSE request["memory"]
     IN /\ channel' = Tail(channel)
        /\ missed' = FALSE
        /\ request' = [r \in Requests |-> IF r = "doc" THEN docs ELSE memory]
        /\ batch' = IF p \in Routed("code") THEN CodeNoted(p) ELSE batch
        /\ rescan' = \/ rescan \/ missed
                     \/ p \in Policy
                     \/ p \in Routed("code") /\ CodeOverflows(p)
                     \/ p \in Doc /\ docs.full
  /\ UNCHANGED <<world, raw, dropping, injected, timers, index, ctl>>

\* An injected file is a code change.
ReceiveInjected ==
  /\ pc = "select"
  /\ injected # <<>> /\ Head(injected) # Root
  /\ injected' = Tail(injected)
  /\ IF codeEnabled
     THEN /\ batch' = CodeNoted(Head(injected))
          /\ rescan' = (rescan \/ CodeOverflows(Head(injected)))
     ELSE UNCHANGED <<batch, rescan>>
  /\ UNCHANGED <<world, raw, dropping, channel, missed, request, timers, index, ctl>>

\* The root begins full_rebuild_from_heal.
ReceiveRebuild ==
  /\ pc = "select"
  /\ injected # <<>> /\ Head(injected) = Root
  /\ injected' = Tail(injected)
  /\ pc' = "hDocs"
  /\ UNCHANGED <<world, raw, dropping, channel, missed, asked, timers, index, recovering>>

-----------------------------------------------------------------------------
(* The passes. "Failed" stands for an error, a panic and an empty slot.     *)

Indexed(s, P) == [stale EXCEPT ![s] = @ \ P]

\* The due paths of sink s that a failed pass leaves to nobody.
GivesUp(s, P) == [forsaken EXCEPT ![s] = @ \cup P]
Recovered(s, P) == [forsaken EXCEPT ![s] = @ \ P]

\* Mutant: a rescan alone arms no timer.
RecoveryUnarmed == FALSE

\* A rescan is due.
Recovery == rescan /\ ~cooling

\* The flush timer: next_watcher_flush_deadline has passed.
BeginFlush ==
  /\ pc = "select"
  /\ \/ batch # {} \/ IsPending("memory")
     \/ Recovery
     \/ IsPending("doc") /\ ~(rescan /\ request["doc"].full) /\ ~docsCooling
  /\ pc' = "code"
  /\ recovering' = Recovery
  /\ IF recovering'
     THEN /\ rescan' = FALSE
          /\ batch' = {}
          /\ request' = [r \in Requests |-> Full]
     ELSE UNCHANGED asked
  /\ UNCHANGED <<world, queue, timers, index>>

\* Files P are gone through, and U of them are not read: a mutation that fails
\* leaves any of them, one that ends well those it could not read.
CodeRead(P, U) ==
  /\ stale' = Indexed("code", P \ U)
  /\ forsaken' = [forsaken EXCEPT !["code"] = (@ \ P) \cup (U \cap stale["code"])]

\* full_code_rescan: reopens the slot, then updates everything.
RescanCode(next) ==
  /\ pc' = next
  /\ \E U \in SUBSET Code : CodeRead(Code, U)
  /\ codeOpen' \in BOOLEAN
  /\ UNCHANGED <<hidden, known>>

\* flush_code_batch: the batch is taken whatever comes of it; a corrupt index
\* closes the slot.
FlushCode ==
  /\ batch' = {}
  /\ pc' = "docs"
  /\ \E U \in SUBSET batch :
       /\ codeOpen \/ U = batch
       /\ CodeRead(batch, U)
  /\ codeOpen' \in IF batch = {} THEN {codeOpen} ELSE {FALSE, codeOpen}
  /\ UNCHANGED <<hidden, known>>

CodePhase ==
  /\ pc = "code"
  /\ \/ recovering /\ codeEnabled /\ RescanCode("docs") /\ UNCHANGED batch
     \/ recovering /\ ~codeEnabled /\ pc' = "docs" /\ UNCHANGED <<index, batch>>
     \/ ~recovering /\ FlushCode
  /\ UNCHANGED <<world, queue, request, rescan, timers, recovering>>

\* A document pass for a request: run_document_update for a full one, which
\* reconciles the memory too, handle_watcher_files_unverified for a list.
Asked(req) == IF req.full THEN Doc ELSE req.paths \cap Doc

\* Mutant: a pass over named files goes by their times, as a full one does.
DocsReadUnforced(P, full) ==
  \E M \in IF full THEN {Memory, {}} ELSE {{}} :
    /\ stale' = [stale EXCEPT !["doc"] = @ \ (P \ hidden), !["memory"] = @ \ M]
    /\ hidden' = hidden
    /\ known' = known \cup (P \ hidden)

\* Documents P are gone through, and the memory if a full pass gets that far. Named
\* files are read whatever their time; a full pass passes over the hidden ones.
DocsRead(P, full) ==
  LET read == IF full THEN P \ hidden ELSE P IN
  \E M \in IF full THEN {Memory, {}} ELSE {{}} :
    /\ stale' = [stale EXCEPT !["doc"] = @ \ read, !["memory"] = @ \ M]
    /\ hidden' = hidden \ read
    /\ known' = known \cup read

DocsPass(req) == DocsRead(Asked(req), req.full)

\* A failed one may have indexed some of its files.
DocsPassFails(req) == \E P \in SUBSET Asked(req) : DocsRead(P, req.full)

\* flush_doc_update succeeds: the request is cleared although a full pass may have
\* passed over documents. It clears the memory request too, although the memory part
\* of it only logs its own failure.
FlushDocs ==
  LET req == request["doc"] IN
  /\ IF req = Idle THEN UNCHANGED <<stale, hidden, known>> ELSE DocsPass(req)
  /\ request' = [request EXCEPT !["doc"] = Idle,
                                !["memory"] = IF req.full THEN Idle ELSE @]
  /\ docsCooling' = FALSE
  /\ forsaken' = [forsaken EXCEPT !["doc"] = IF req.full THEN stale'["doc"] ELSE @ \ Asked(req),
                                  !["memory"] = IF req.full THEN stale'["memory"] ELSE @]

\* It fails: the request is put back, and retried after RECOVERY_INTERVAL.
FlushDocsFails ==
  /\ IsPending("doc")
  /\ DocsPassFails(request["doc"])
  /\ docsCooling' = TRUE
  /\ forsaken' = [s \in Sink |-> forsaken[s] \cap stale'[s]]
  /\ UNCHANGED request

DocsPhase ==
  /\ pc = "docs"
  /\ pc' = "memory"
  /\ \/ /\ recovering \/ (~(rescan /\ request["doc"].full) /\ ~docsCooling)
        /\ FlushDocs \/ FlushDocsFails
     \/ /\ ~recovering
        /\ (rescan /\ request["doc"].full) \/ docsCooling
        /\ UNCHANGED <<stale, hidden, known, request, docsCooling, forsaken>>
  /\ UNCHANGED <<world, queue, batch, rescan, cooling, codeOpen, recovering>>

\* sync_memory_files reconciles the whole directory; its failure is logged.
MemoryPass ==
  \/ /\ stale' = Indexed("memory", Memory)
     /\ forsaken' = Recovered("memory", Memory)
  \/ /\ forsaken' = GivesUp("memory", stale["memory"])
     /\ UNCHANGED stale

\* flush_memory_sync, and the end of the flush.
MemoryPhase ==
  /\ pc = "memory"
  /\ pc' = "select"
  /\ IF IsPending("memory") THEN MemoryPass ELSE UNCHANGED <<stale, forsaken>>
  /\ request' = [request EXCEPT !["memory"] = Idle]
  /\ cooling' = (cooling \/ recovering)
  /\ recovering' = FALSE
  /\ UNCHANGED <<world, queue, batch, rescan, docsCooling, hidden, known, codeOpen>>

-----------------------------------------------------------------------------
(* full_rebuild_from_heal: its requests are its own, so nothing is put back. *)

RebuildDocs ==
  /\ pc = "hDocs"
  /\ \/ /\ DocsPass(Full)
        /\ forsaken' = [forsaken EXCEPT !["doc"] = stale'["doc"],
                                        !["memory"] = stale'["memory"]]
        /\ pc' = "hCode"
     \/ /\ DocsPassFails(Full)
        /\ forsaken' = GivesUp("doc", stale'["doc"])
        /\ pc' = "hMemory"
  /\ UNCHANGED <<world, queue, asked, timers, codeOpen, recovering>>

RebuildMemory ==
  /\ pc = "hMemory"
  /\ MemoryPass
  /\ pc' = "hCode"
  /\ UNCHANGED <<world, queue, asked, timers, hidden, known, codeOpen, recovering>>

RebuildCode ==
  /\ pc = "hCode"
  /\ RescanCode("select")
  /\ UNCHANGED <<world, queue, asked, timers, recovering>>

-----------------------------------------------------------------------------
World ==
  \/ \E p \in Path : Edit(p)
  \/ \E p \in Code : Inject(p)
  \/ Heal

Debouncer ==
  \/ \E p \in Path : Reject(p) \/ Send(p) \/ SendFails(p)
  \/ StoreMissed

Flush == CodePhase \/ DocsPhase \/ MemoryPhase

Rebuild == RebuildDocs \/ RebuildMemory \/ RebuildCode

Loop == Receive \/ ReceiveInjected \/ ReceiveRebuild \/ BeginFlush \/ Flush \/ Rebuild

Next == World \/ Debouncer \/ Loop \/ RecoveryDue \/ DocRetryDue

Spec == Init /\ [][Next]_vars

\* A flush that began goes on, both cooldowns end, each ready branch of select! is
\* taken again and again, and a document pass that is retried for ever succeeds
\* once. Nobody has to edit, inject or open anything, and no event has to arrive.
FairSpec ==
  /\ Spec
  /\ WF_vars(Flush \/ Rebuild)
  /\ WF_vars(RecoveryDue) /\ WF_vars(DocRetryDue)
  /\ SF_vars(Receive) /\ SF_vars(BeginFlush)
  /\ SF_vars(DocsPhase /\ FlushDocs)

-----------------------------------------------------------------------------
(* Properties.                                                              *)

InSeq(x, q) == \E i \in DOMAIN q : q[i] = x

\* Some event or flag will bring path p, or a rescan of everything, to the loop.
InFlight(p) == p \in raw \/ p = dropping \/ InSeq(p, channel) \/ missed \/ rescan

RebuildAhead(pcs) == InSeq(Root, injected) \/ pc \in pcs

\* The loop holds a request that covers document p.
DocRequested(p) == request["doc"].full \/ p \in request["doc"].paths

\* The stale paths of an index that something still stands for.
Due(s) ==
  {p \in stale[s] :
     \/ InFlight(p)
     \/ s = "doc" /\ (DocRequested(p) \/ RebuildAhead({"hDocs"}))
     \/ s = "memory" /\ (IsPending("memory") \/ RebuildAhead({"hDocs", "hMemory"}))
     \/ s = "code" /\ (\/ p \in batch \/ InSeq(p, injected)
                       \/ pc = "code" /\ recovering
                       \/ RebuildAhead({"hDocs", "hMemory", "hCode"}))}

\* Nothing falls between the queues: a file an index does not hold yet is with
\* the debouncer, in the channel, behind a flag or in a request, unless the pass that
\* took its request left it: a failed one whose request was not put back, a code
\* mutation that could not read it, or a full document pass to which the file did not
\* look newer; before a store is replaced, documents are left for that last reason
\* alone (deliver_change, queue_watcher_change, note_code_change,
\* FileUpdateRequest::note, flush_doc_update, index_single_file).
NothingDropsOut ==
  /\ \A s \in Sink : stale[s] \subseteq Due(s) \cup forsaken[s]
  /\ ~healed => forsaken["doc"] \subseteq hidden

\* The watcher implements its promise: what is stale stays due until a pass holds
\* it, and a document is left only if its file does not look newer than its row, or
\* after a heal.
Promise == INSTANCE ReindexPromise WITH
  stale <- stale,
  due <- [s \in Sink |-> Due(s)],
  hidden <- hidden,
  healed <- healed
KeepsPromise == Promise!Spec

\* A full pass went by document p, whose file does not look newer than its row.
PassedOver(p) == p \in hidden /\ p \in forsaken["doc"]

\* A document the loop knows of is indexed in the end, or a full pass passes over it
\* because its file does not look newer, however often passes fail, requests overflow
\* and recoveries wait (run_file_watcher_inner, index_single_file).
DocsCatchUp ==
  \A p \in Doc :
    (p \in stale["doc"] /\ (InSeq(p, channel) \/ rescan \/ DocRequested(p)))
      ~> (p \notin stale["doc"] \/ PassedOver(p))

=============================================================================
