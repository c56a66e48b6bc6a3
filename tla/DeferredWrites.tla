---------------------------- MODULE DeferredWrites ----------------------------
(***************************************************************************)
(* The write-behind queue of one context slot (mcp/dispatch.rs): rows a    *)
(* hook does not wait for are queued under a process-wide map, and one     *)
(* detached task per slot drains them in batches.                          *)
(*                                                                         *)
(* The steps are the critical sections of the map's mutex and the await    *)
(* points of the tasks.  Rows are numbered as they are queued, so the      *)
(* queue is the interval taken+1..rows.  A drain is named by its           *)
(* generation; its receipt (DeferredDrain) is dropped when it ends.  The   *)
(* blocking closure that writes a batch owns the slot's guard and outlives *)
(* a cancelled drain.                                                      *)
(***************************************************************************)
EXTENDS Integers, FiniteSets

CONSTANTS
  Writer,      \* threads that queue rows
  Settler,     \* tasks that wait for the drain: settle_deferred_writes
  Hurried,     \* those of them with a deadline: settle_prompt_writes
  BatchRows,   \* WRITE_BEHIND_BATCH_ROWS
  MaxRows,     \* bound on the rows ever queued
  MaxDrains,   \* bound on the drains ever reserved
  MaxReindexes \* bound on the startup reindexes

ASSUME QueueAssumption ==
  /\ Hurried \subseteq Settler
  /\ BatchRows \in Nat \ {0}
  /\ MaxRows \in Nat
  /\ MaxDrains \in Nat
  /\ MaxReindexes \in Nat

Drain == 1..MaxDrains
Nobody == 0      \* no generation, no task handle, a free slot

VARIABLES
  rows,        \* rows ever queued
  taken,       \* rows that left the queue
  present,     \* the map has an entry for the slot
  generation,  \* its reservation
  waiting,     \* its published task handle
  drains,      \* drains ever reserved
  stage,       \* where each drain stands
  batch,       \* rows the drain's blocking closure still has to write
  closure,     \* that closure: "none", about to "open" the slot, or in its "rows"
  slot,        \* the drain whose guard holds the slot
  open,        \* the slot holds a context
  reindex,     \* doc_reindex_active: "off", "on", or "restored" before it clears
  reindexes,   \* startup reindexes begun
  wpc, wgen,   \* each writer's progress in write_behind_slot
  spc, handle, \* each settler's progress, and the handle it took
  asked        \* history: the rows a settler is called to see written

queueVars == <<rows, taken, present, generation, waiting>>
drainVars == <<drains, stage, batch, closure>>
slotVars  == <<slot, open, reindex, reindexes>>
callers   == <<wpc, wgen, spc, handle, asked>>
vars      == <<queueVars, drainVars, slotVars, callers>>

Stages == {"unborn", "reserved", "wait", "lock", "check", "admit", "take",
           "write", "leave", "ended"}

\* A drain that still owes the queue its work.
Working == {"reserved", "wait", "lock", "check", "admit", "take", "write"}

TypeOK ==
  /\ rows \in Nat /\ taken \in Nat /\ taken =< rows
  /\ present \in BOOLEAN
  /\ generation \in Drain \cup {Nobody}
  /\ waiting \in Drain \cup {Nobody}
  /\ drains \in 0..MaxDrains
  /\ stage \in [Drain -> Stages]
  /\ batch \in [Drain -> SUBSET Nat]
  /\ closure \in [Drain -> {"none", "open", "rows"}]
  /\ slot \in Drain \cup {Nobody}
  /\ open \in BOOLEAN
  /\ reindex \in {"off", "on", "restored"}
  /\ reindexes \in Nat
  /\ wpc \in [Writer -> {"idle", "spawn", "publish"}]
  /\ wgen \in [Writer -> Drain \cup {Nobody}]
  /\ \A w \in Writer : wpc[w] # "idle" => wgen[w] \in Drain
  /\ spc \in [Settler -> {"idle", "take", "await", "aborted"}]
  /\ handle \in [Settler -> Drain \cup {Nobody}]
  /\ asked \in [Settler -> Nat]

Init ==
  /\ rows = 0 /\ taken = 0
  /\ present = FALSE /\ generation = Nobody /\ waiting = Nobody
  /\ drains = 0
  /\ stage = [d \in Drain |-> "unborn"]
  /\ batch = [d \in Drain |-> {}]
  /\ closure = [d \in Drain |-> "none"]
  /\ slot = Nobody /\ open = FALSE
  /\ reindex = "off" /\ reindexes = 0
  /\ wpc = [w \in Writer |-> "idle"]
  /\ wgen = [w \in Writer |-> Nobody]
  /\ spc = [s \in Settler |-> "idle"]
  /\ handle = [s \in Settler |-> Nobody]
  /\ asked = [s \in Settler |-> 0]

Queued == (taken + 1)..rows

\* The next row of a batch: rows are written in the order they were queued.
NextRow(d) == CHOOSE r \in batch[d] : \A q \in batch[d] : r =< q

To(d, st) == stage' = [stage EXCEPT ![d] = st]

\* queues.remove: the entry goes with whatever it still holds.
RemoveEntry ==
  /\ present' = FALSE
  /\ generation' = Nobody
  /\ waiting' = Nobody
  /\ taken' = rows

-----------------------------------------------------------------------------
(* write_behind_slot, on the caller's thread.                               *)

\* A reservation whose published task has not finished, or is not published.
ReservationHeld ==
  /\ present
  /\ generation # Nobody
  /\ waiting = Nobody \/ stage[waiting] # "ended"

\* Push the row; unless a drain is reserved, reserve one.
Enqueue(w) ==
  /\ wpc[w] = "idle"
  /\ rows < MaxRows
  /\ rows' = rows + 1
  /\ present' = TRUE
  /\ IF ReservationHeld
       THEN UNCHANGED <<generation, drains, stage, wpc, wgen>>
       ELSE /\ drains < MaxDrains
            /\ drains' = drains + 1
            /\ generation' = drains'
            /\ To(drains', "reserved")
            /\ wpc' = [wpc EXCEPT ![w] = "spawn"]
            /\ wgen' = [wgen EXCEPT ![w] = drains']
  /\ UNCHANGED <<taken, waiting, batch, closure, slotVars, spc, handle, asked>>

\* Mutant: the receipt does not look whose reservation the entry holds.
DropAnyReceipt(d) ==
  /\ IF present
       THEN IF Queued = {}
              THEN RemoveEntry
              ELSE /\ waiting' = Nobody
                   /\ generation' = Nobody
                   /\ UNCHANGED <<present, taken>>
       ELSE UNCHANGED <<present, generation, waiting, taken>>

\* Mutant: the receipt of a cancelled drain keeps its reservation.
DropReceiptKeeping(d) ==
  /\ IF present /\ generation = d /\ Queued = {}
       THEN RemoveEntry
       ELSE UNCHANGED <<present, generation, waiting, taken>>

\* DeferredDrain::drop: retire an empty queue, release a pending one, and
\* never touch a successor's.
DropReceipt(d) ==
  /\ IF present /\ generation = d
       THEN IF Queued = {}
              THEN RemoveEntry
              ELSE /\ waiting' = Nobody
                   /\ generation' = Nobody
                   /\ UNCHANGED <<present, taken>>
       ELSE UNCHANGED <<present, generation, waiting, taken>>

\* runtime.spawn.
Spawn(w) ==
  /\ wpc[w] = "spawn"
  /\ To(wgen[w], "wait")
  /\ wpc' = [wpc EXCEPT ![w] = "publish"]
  /\ UNCHANGED <<queueVars, drains, batch, closure, slotVars, wgen, spc, handle, asked>>

\* A shut-down runtime drops the future inside spawn, and the receipt with it.
SpawnRefused(w) ==
  /\ wpc[w] = "spawn"
  /\ DropReceipt(wgen[w])
  /\ To(wgen[w], "ended")
  /\ wpc' = [wpc EXCEPT ![w] = "publish"]
  /\ UNCHANGED <<rows, drains, batch, closure, slotVars, wgen, spc, handle, asked>>

\* Mutant: the handle is published whoever holds the entry by now.
PublishAnyway(w) ==
  /\ wpc[w] = "publish"
  /\ waiting' = IF present THEN wgen[w] ELSE waiting
  /\ wpc' = [wpc EXCEPT ![w] = "idle"]
  /\ wgen' = [wgen EXCEPT ![w] = Nobody]
  /\ UNCHANGED <<rows, taken, present, generation, drainVars, slotVars, spc, handle, asked>>

\* Mutant: the handle is not kept.
PublishNothing(w) ==
  /\ wpc[w] = "publish"
  /\ wpc' = [wpc EXCEPT ![w] = "idle"]
  /\ wgen' = [wgen EXCEPT ![w] = Nobody]
  /\ UNCHANGED <<queueVars, drainVars, slotVars, spc, handle, asked>>

\* Publish the task only while its reservation still owns the entry.
Publish(w) ==
  /\ wpc[w] = "publish"
  /\ waiting' = IF present /\ generation = wgen[w] THEN wgen[w] ELSE waiting
  /\ wpc' = [wpc EXCEPT ![w] = "idle"]
  /\ wgen' = [wgen EXCEPT ![w] = Nobody]
  /\ UNCHANGED <<rows, taken, present, generation, drainVars, slotVars, spc, handle, asked>>

-----------------------------------------------------------------------------
(* The drain.                                                               *)

\* The startup reindex is over, or WRITE_BEHIND_REINDEX_WAIT is.
WaitedOut(d) ==
  /\ stage[d] = "wait"
  /\ To(d, "lock")
  /\ UNCHANGED <<queueVars, drains, batch, closure, slotVars, callers>>

LockSlot(d) ==
  /\ stage[d] = "lock"
  /\ slot = Nobody
  /\ slot' = d
  /\ To(d, "check")
  /\ UNCHANGED <<queueVars, drains, batch, closure, open, reindex, reindexes, callers>>

\* Under the slot: nothing left is the end of the drain.
CheckQueue(d) ==
  /\ stage[d] = "check"
  /\ IF ~ present \/ Queued = {}
       THEN RemoveEntry /\ To(d, "leave")
       ELSE To(d, "admit") /\ UNCHANGED <<present, generation, waiting, taken>>
  /\ UNCHANGED <<rows, drains, batch, closure, slotVars, callers>>

\* admit_slot_writer: the poll found the writer lock free.
Admitted(d) ==
  /\ stage[d] = "admit"
  /\ To(d, "take")
  /\ UNCHANGED <<queueVars, drains, batch, closure, slotVars, callers>>

\* The lock file cannot be opened: the queue goes, rows and all.
AdmissionFails(d) ==
  /\ stage[d] = "admit"
  /\ RemoveEntry
  /\ To(d, "leave")
  /\ UNCHANGED <<rows, drains, batch, closure, slotVars, callers>>

\* Mutant: a full batch is drained, however short the queue is.
TakeBatchBeyond(d) ==
  /\ stage[d] = "take"
  /\ IF ~ present \/ Queued = {}
       THEN RemoveEntry /\ To(d, "leave") /\ UNCHANGED <<batch, closure>>
       ELSE /\ taken' = taken + BatchRows
            /\ batch' = [batch EXCEPT ![d] = (taken + 1)..taken']
            /\ closure' = [closure EXCEPT ![d] = "open"]
            /\ To(d, "write")
            /\ UNCHANGED <<present, generation, waiting>>
  /\ UNCHANGED <<rows, drains, slotVars, callers>>

\* At most BatchRows rows move to a blocking closure, with slot and admission.
TakeBatch(d) ==
  /\ stage[d] = "take"
  /\ IF ~ present \/ Queued = {}
       THEN RemoveEntry /\ To(d, "leave") /\ UNCHANGED <<batch, closure>>
       ELSE /\ taken' = IF rows - taken > BatchRows THEN taken + BatchRows ELSE rows
            /\ batch' = [batch EXCEPT ![d] = (taken + 1)..taken']
            /\ closure' = [closure EXCEPT ![d] = "open"]
            /\ To(d, "write")
            /\ UNCHANGED <<present, generation, waiting>>
  /\ UNCHANGED <<rows, drains, slotVars, callers>>

\* The task returns: its guard and its receipt are dropped.
Leave(d) ==
  /\ stage[d] = "leave"
  /\ slot' = Nobody
  /\ DropReceipt(d)
  /\ To(d, "ended")
  /\ UNCHANGED <<rows, drains, batch, closure, open, reindex, reindexes, callers>>

-----------------------------------------------------------------------------
(* The blocking closure of a drain: it owns the slot's guard.               *)

\* Rows leave the closure; after the last one the slot is released, and the
\* drain, unless it was cancelled meanwhile, looks at the queue again.
RowsLeft(d, left) ==
  /\ batch' = [batch EXCEPT ![d] = left]
  /\ IF left # {}
       THEN closure' = [closure EXCEPT ![d] = "rows"] /\ UNCHANGED <<slot, stage>>
       ELSE /\ closure' = [closure EXCEPT ![d] = "none"]
            /\ slot' = Nobody
            /\ stage' = [stage EXCEPT ![d] = IF @ = "write" THEN "lock" ELSE @]

\* The slot holds a context, or open_impl puts one there.
BatchOpens(d) ==
  /\ closure[d] = "open"
  /\ open \/ reindex = "off"
  /\ open' = TRUE
  /\ closure' = [closure EXCEPT ![d] = "rows"]
  /\ UNCHANGED <<queueVars, drains, stage, batch, slot, reindex, reindexes, callers>>

\* The store does not open: every row of the batch is dropped.
BatchCannotOpen(d) ==
  /\ closure[d] = "open"
  /\ ~ open /\ reindex = "off"
  /\ RowsLeft(d, {})
  /\ UNCHANGED <<queueVars, drains, open, reindex, reindexes, callers>>

\* doc_reindex_active: "Repo initializing, retry shortly", and the same drop.
BatchFindsReindex(d) ==
  /\ closure[d] = "open"
  /\ ~ open /\ reindex # "off"
  /\ RowsLeft(d, {})
  /\ UNCHANGED <<queueVars, drains, open, reindex, reindexes, callers>>

\* run_admitted_write: the row is written or fails; corruption empties the slot.
WriteRow(d) ==
  /\ closure[d] = "rows"
  /\ open
  /\ open' \in BOOLEAN
  /\ RowsLeft(d, batch[d] \ {NextRow(d)})
  /\ UNCHANGED <<queueVars, drains, reindex, reindexes, callers>>

\* An earlier row of the batch emptied the slot: None, and the row is dropped.
RowFindsSlotEmpty(d) ==
  /\ closure[d] = "rows"
  /\ ~ open
  /\ RowsLeft(d, batch[d] \ {NextRow(d)})
  /\ UNCHANGED <<queueVars, drains, open, reindex, reindexes, callers>>

-----------------------------------------------------------------------------
(* Settling: waiting for the drain, with or without a deadline.             *)

\* The rows a working drain has been handed are the settler's to see; none are
\* counted while some write_behind_slot call is still under way.
SettleCalled(s) ==
  /\ spc[s] = "idle"
  /\ spc' = [spc EXCEPT ![s] = "take"]
  /\ asked' = [asked EXCEPT ![s] =
               IF /\ \A w \in Writer : wpc[w] = "idle"
                  /\ \E d \in Drain : stage[d] \in Working
               THEN rows ELSE 0]
  /\ UNCHANGED <<queueVars, drainVars, slotVars, wpc, wgen, handle>>

\* queue.waiting.take()
SettleTakes(s) ==
  /\ spc[s] = "take"
  /\ present /\ waiting # Nobody
  /\ handle' = [handle EXCEPT ![s] = waiting]
  /\ waiting' = Nobody
  /\ spc' = [spc EXCEPT ![s] = "await"]
  /\ UNCHANGED <<rows, taken, present, generation, drainVars, slotVars, wpc, wgen, asked>>

\* No handle in the entry: nothing to wait for.
SettleReturns(s) ==
  /\ spc[s] = "take"
  /\ ~ present \/ waiting = Nobody
  /\ spc' = [spc EXCEPT ![s] = "idle"]
  /\ UNCHANGED <<queueVars, drainVars, slotVars, wpc, wgen, handle, asked>>

\* The awaited task ended; look for a later one, unless it was aborted.
SettleAwaited(s) ==
  /\ spc[s] \in {"await", "aborted"}
  /\ stage[handle[s]] = "ended"
  /\ spc' = [spc EXCEPT ![s] = IF @ = "await" THEN "take" ELSE "idle"]
  /\ handle' = [handle EXCEPT ![s] = Nobody]
  /\ UNCHANGED <<queueVars, drainVars, slotVars, wpc, wgen, asked>>

\* timeout_at elapsed: task.abort().
SettleAborts(s) ==
  /\ s \in Hurried
  /\ spc[s] = "await"
  /\ spc' = [spc EXCEPT ![s] = "aborted"]
  /\ UNCHANGED <<queueVars, drainVars, slotVars, wpc, wgen, handle, asked>>

\* Mutant: cancelling a drain frees the slot under the closure that still writes.
CancelFreesSlot(d) ==
  /\ \E s \in Settler : spc[s] = "aborted" /\ handle[s] = d
  /\ stage[d] \in {"wait", "lock", "admit", "write"}
  /\ DropReceipt(d)
  /\ slot' = IF slot = d THEN Nobody ELSE slot
  /\ To(d, "ended")
  /\ UNCHANGED <<rows, drains, batch, closure, open, reindex, reindexes, callers>>

\* An aborted task is dropped at an await point: its own guard goes, a guard
\* moved into the closure does not.
Cancel(d) ==
  /\ \E s \in Settler : spc[s] = "aborted" /\ handle[s] = d
  /\ stage[d] \in {"wait", "lock", "admit", "write"}
  /\ DropReceipt(d)
  /\ slot' = IF stage[d] = "admit" THEN Nobody ELSE slot
  /\ To(d, "ended")
  /\ UNCHANGED <<rows, drains, batch, closure, open, reindex, reindexes, callers>>

-----------------------------------------------------------------------------
(* The other users of the slot.                                             *)

\* Some request opens the empty slot, or closes it over corruption.
SlotOpened ==
  /\ slot = Nobody /\ ~ open /\ reindex = "off"
  /\ open' = TRUE
  /\ UNCHANGED <<queueVars, drainVars, slot, reindex, reindexes, callers>>

SlotClosed ==
  /\ slot = Nobody /\ open
  /\ open' = FALSE
  /\ UNCHANGED <<queueVars, drainVars, slot, reindex, reindexes, callers>>

\* init_and_take_for_reindex: the flag is set and the context taken at once.
ReindexStarts ==
  /\ slot = Nobody /\ reindex = "off"
  /\ reindexes < MaxReindexes
  /\ open' = FALSE
  /\ reindex' = "on"
  /\ reindexes' = reindexes + 1
  /\ UNCHANGED <<queueVars, drainVars, slot, callers>>

\* The context goes back into the slot before the flag is cleared.
ReindexRestores ==
  /\ slot = Nobody /\ reindex = "on"
  /\ open' = TRUE
  /\ reindex' = "restored"
  /\ UNCHANGED <<queueVars, drainVars, slot, reindexes, callers>>

\* ActiveFlagGuard; a context that saw corruption was not restored.
ReindexEnds ==
  /\ reindex # "off"
  /\ reindex' = "off"
  /\ UNCHANGED <<queueVars, drainVars, slot, open, reindexes, callers>>

DrainStep(d) ==
  \/ WaitedOut(d) \/ LockSlot(d) \/ CheckQueue(d) \/ Admitted(d)
  \/ AdmissionFails(d) \/ TakeBatch(d) \/ Leave(d)

ClosureStep(d) ==
  \/ BatchOpens(d) \/ BatchCannotOpen(d) \/ BatchFindsReindex(d)
  \/ WriteRow(d) \/ RowFindsSlotEmpty(d)

Next ==
  \/ \E w \in Writer : Enqueue(w) \/ Spawn(w) \/ SpawnRefused(w) \/ Publish(w)
  \/ \E d \in Drain : DrainStep(d) \/ ClosureStep(d) \/ Cancel(d)
  \/ \E s \in Settler :
       \/ SettleCalled(s) \/ SettleTakes(s) \/ SettleReturns(s)
       \/ SettleAwaited(s) \/ SettleAborts(s)
  \/ SlotOpened \/ SlotClosed
  \/ ReindexStarts \/ ReindexRestores \/ ReindexEnds

Spec == Init /\ [][Next]_vars

\* A spawned task and a blocking closure run; the slot's mutex is fair; the
\* writer lock is released by whoever holds it. Nobody has to call anything.
FairSpec ==
  /\ Spec
  /\ \A w \in Writer : WF_vars(Spawn(w) \/ SpawnRefused(w)) /\ WF_vars(Publish(w))
  /\ \A d \in Drain : WF_vars(DrainStep(d)) /\ SF_vars(LockSlot(d)) /\ WF_vars(ClosureStep(d))

-----------------------------------------------------------------------------
(* Properties.                                                              *)

\* At most one drain works for the slot, whatever was cancelled, refused or
\* removed while another thread was reserving (write_behind_slot: "at most one
\* task per slot").
SoleDrain ==
  \A c, d \in Drain : stage[c] \in Working /\ stage[d] \in Working => c = d

\* A reservation in the map belongs to a drain that still works, and a handle in
\* the map is that drain's: no row is left behind a task that will not come for
\* it (DeferredDrain::drop releases it, write_behind_slot publishes it).
ReservationsAreLive ==
  /\ generation # Nobody => present /\ stage[generation] \in Working
  /\ waiting # Nobody => waiting = generation

\* Rows are written in the order they were queued, also across a cancelled drain
\* whose batch is still being written (write_behind_slot drains "in order").
InOrder ==
  [][\A d, e \in Drain :
       WriteRow(d) => \A r \in batch[e] \cup Queued : NextRow(d) =< r]_vars

\* A queued row leaves the queue, unless a cancellation or a refused spawn
\* released the queue to the next caller.
RowsLeave == \A r \in 1..MaxRows : r \in Queued ~> (r \notin Queued \/ generation = Nobody)

\* The only settlement of a slot returns, while a drain works for it, only when the
\* rows queued before it was called are out of the queue and written: it waits
\* "for the drain write_behind_slot started for this slot, if one runs"
\* (settle_deferred_writes). A second settlement finds no handle and does not wait.
SettleObservesQueue ==
  [][\A s \in Settler :
       SettleReturns(s) /\ (\E d \in Drain : stage[d] \in Working)
       => \A r \in Queued \cup UNION {batch[d] : d \in Drain} : r > asked[s]]_vars

=============================================================================
