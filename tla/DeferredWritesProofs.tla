------------------------- MODULE DeferredWritesProofs -------------------------
(***************************************************************************)
(* Proofs about the write-behind queue: for any number of writers, settlers*)
(* and drains, one drain works at a time, every reservation is a working   *)
(* drain's, rows are written once and in the order they were queued, a     *)
(* settlement that is alone sees its rows written, and no row outwaits the *)
(* drains.                                                                 *)
(***************************************************************************)
EXTENDS DeferredWrites, TLAPS

\* The entry of the map and the drains agree on who works for the slot.
Ownership ==
  /\ \A d \in Drain : stage[d] \in Working => present /\ generation = d
  /\ ReservationsAreLive
  /\ \A d \in Drain : d > drains => stage[d] = "unborn"
  /\ \A w \in Writer :
       /\ wpc[w] # "idle" => wgen[w] \in Drain /\ wgen[w] =< drains
       /\ wpc[w] = "spawn" => stage[wgen[w]] = "reserved"
  /\ \A v, w \in Writer : wpc[v] = "spawn" /\ wpc[w] = "spawn" /\ wgen[v] = wgen[w] => v = w

\* Who holds the slot, and what a closure still has to write: rows that left the
\* queue together, so they are an interval below every row still queued.
Span(R) == \E m, n \in Nat : m =< n /\ n =< taken /\ R = m..n

Holds(d) ==
  /\ stage[d] \in {"check", "admit", "take", "leave"} => slot = d
  /\ stage[d] = "write" => closure[d] # "none"
  /\ closure[d] = "none" => batch[d] = {}
  /\ closure[d] # "none" => slot = d /\ stage[d] \in {"write", "ended"} /\ Span(batch[d])

Holding == \A d \in Drain : Holds(d)

-----------------------------------------------------------------------------
(* Types.                                                                   *)

LEMMA NobodyIsNoDrain == Nobody \notin Drain /\ \A d \in Drain : d \in Nat /\ d =< MaxDrains
  BY QueueAssumption DEF QueueAssumption, Nobody, Drain

LEMMA ReceiptTyped ==
  ASSUME TypeOK, NEW d \in Drain, DropReceipt(d)
  PROVE  /\ present' \in BOOLEAN /\ generation' \in Drain \cup {Nobody}
         /\ waiting' \in Drain \cup {Nobody} /\ taken' \in {taken, rows}
  BY DEF DropReceipt, RemoveEntry, TypeOK

LEMMA StageTyped ==
  ASSUME TypeOK, NEW d \in Drain, NEW st \in Stages, To(d, st)
  PROVE  stage' \in [Drain -> Stages]
  BY DEF To, TypeOK

LEMMA RowsLeftTyped ==
  ASSUME TypeOK, NEW d \in Drain, NEW left \in SUBSET Nat, RowsLeft(d, left)
  PROVE  /\ batch' \in [Drain -> SUBSET Nat]
         /\ closure' \in [Drain -> {"none", "open", "rows"}]
         /\ stage' \in [Drain -> Stages]
         /\ slot' \in Drain \cup {Nobody}
<1>1. batch' \in [Drain -> SUBSET Nat]
  BY DEF RowsLeft, TypeOK
<1>2. CASE left # {}
  BY <1>1, <1>2 DEF RowsLeft, TypeOK
<1>3. CASE left = {}
  <2>1. closure' \in [Drain -> {"none", "open", "rows"}] /\ slot' = Nobody
    BY <1>3 DEF RowsLeft, TypeOK
  <2>2. stage' \in [Drain -> Stages]
    BY <1>3 DEF RowsLeft, TypeOK, Stages
  <2>3. QED
    BY <1>1, <2>1, <2>2
<1>4. QED
  BY <1>2, <1>3

\* The next row of a batch is a row, and what is left are rows.
LEMMA BatchRowsLeft ==
  ASSUME TypeOK, NEW d \in Drain
  PROVE  batch[d] \ {NextRow(d)} \in SUBSET Nat
  BY DEF TypeOK

\* Every variable keeps its type: rows, drains and handles stay in their ranges.
THEOREM QueueTyping == Spec => []TypeOK
<1> USE DEF queueVars, drainVars, slotVars, callers
<1>1. Init => TypeOK
  <2>1. Init => /\ rows \in Nat /\ taken \in Nat /\ taken =< rows
                /\ drains \in 0..MaxDrains /\ reindexes \in Nat
                /\ asked \in [Settler -> Nat]
    BY QueueAssumption DEF QueueAssumption, Init
  <2>2. Init => /\ stage \in [Drain -> Stages]
                /\ batch \in [Drain -> SUBSET Nat]
                /\ closure \in [Drain -> {"none", "open", "rows"}]
                /\ wpc \in [Writer -> {"idle", "spawn", "publish"}]
                /\ wgen \in [Writer -> Drain \cup {Nobody}]
                /\ spc \in [Settler -> {"idle", "take", "await", "aborted"}]
                /\ handle \in [Settler -> Drain \cup {Nobody}]
    BY DEF Init, Stages
  <2>3. QED
    BY <2>1, <2>2 DEF Init, TypeOK
<1>2. TypeOK /\ [Next]_vars => TypeOK'
  <2> SUFFICES ASSUME TypeOK, [Next]_vars PROVE TypeOK'
    OBVIOUS
  <2>1. ASSUME NEW w \in Writer, Enqueue(w) PROVE TypeOK'
    <3>1. CASE ReservationHeld
      BY <2>1, <3>1 DEF Enqueue, TypeOK
    <3>2. CASE ~ ReservationHeld
      <4>1. drains' = drains + 1 /\ drains' \in Drain /\ drains' \in 0..MaxDrains
        BY <2>1, <3>2, QueueAssumption DEF Enqueue, TypeOK, QueueAssumption, Drain
      <4>2. stage' \in [Drain -> Stages]
        BY <2>1, <3>2, <4>1, StageTyped DEF Enqueue, Stages
      <4>3. /\ wpc' \in [Writer -> {"idle", "spawn", "publish"}]
            /\ wgen' \in [Writer -> Drain \cup {Nobody}]
            /\ \A v \in Writer : wpc'[v] # "idle" => wgen'[v] \in Drain
        BY <2>1, <3>2, <4>1 DEF Enqueue, TypeOK
      <4>4. QED
        BY <2>1, <3>2, <4>1, <4>2, <4>3 DEF Enqueue, TypeOK
    <3>3. QED
      BY <3>1, <3>2
  <2>2. ASSUME NEW w \in Writer, Spawn(w) \/ SpawnRefused(w) PROVE TypeOK'
    <3>1. wgen[w] \in Drain
      BY <2>2 DEF Spawn, SpawnRefused, TypeOK
    <3>2. stage' \in [Drain -> Stages]
      BY <2>2, <3>1, StageTyped DEF Spawn, SpawnRefused, Stages
    <3>3. /\ wpc' \in [Writer -> {"idle", "spawn", "publish"}]
          /\ \A v \in Writer : wpc'[v] # "idle" => wgen'[v] \in Drain
      BY <2>2, <3>1 DEF Spawn, SpawnRefused, TypeOK
    <3>4. CASE Spawn(w)
      BY <3>2, <3>3, <3>4 DEF Spawn, TypeOK
    <3>5. CASE SpawnRefused(w)
      BY <3>1, <3>2, <3>3, <3>5, ReceiptTyped DEF SpawnRefused, TypeOK
    <3>6. QED
      BY <2>2, <3>4, <3>5
  <2>3. ASSUME NEW w \in Writer, Publish(w) PROVE TypeOK'
    <3>1. wgen[w] \in Drain
      BY <2>3 DEF Publish, TypeOK
    <3>2. QED
      BY <2>3, <3>1 DEF Publish, TypeOK
  <2>4. ASSUME NEW d \in Drain, DrainStep(d) PROVE TypeOK'
    <3>1. stage' \in [Drain -> Stages]
      BY <2>4, StageTyped
         DEF DrainStep, WaitedOut, LockSlot, CheckQueue, Admitted, AdmissionFails, TakeBatch,
             Leave, Stages
    <3>2. CASE WaitedOut(d) \/ LockSlot(d) \/ Admitted(d)
      BY <3>1, <3>2 DEF WaitedOut, LockSlot, Admitted, TypeOK
    <3>3. CASE CheckQueue(d) \/ AdmissionFails(d)
      <4>1. /\ present' \in BOOLEAN /\ generation' \in {generation, Nobody}
            /\ waiting' \in {waiting, Nobody} /\ taken' \in {taken, rows}
        BY <3>3 DEF CheckQueue, AdmissionFails, RemoveEntry, TypeOK
      <4>2. QED
        BY <3>1, <3>3, <4>1 DEF CheckQueue, AdmissionFails, TypeOK
    <3>4. CASE TakeBatch(d)
      <4>1. CASE ~ present \/ Queued = {}
        <5>1. present' \in BOOLEAN /\ generation' = Nobody /\ waiting' = Nobody /\ taken' = rows
          BY <3>4, <4>1 DEF TakeBatch, RemoveEntry
        <5>2. UNCHANGED <<rows, drains, batch, closure, slotVars, callers>>
          BY <3>4, <4>1 DEF TakeBatch
        <5>3. QED
          BY <3>1, <5>1, <5>2 DEF TypeOK
      <4>2. CASE ~ (~ present \/ Queued = {})
        <5>1. taken' \in Nat /\ taken' =< rows /\ (taken + 1)..taken' \in SUBSET Nat
          BY <3>4, <4>2, QueueAssumption DEF TakeBatch, TypeOK, QueueAssumption
        <5>2. /\ batch' \in [Drain -> SUBSET Nat]
              /\ closure' \in [Drain -> {"none", "open", "rows"}]
          BY <3>4, <4>2, <5>1 DEF TakeBatch, TypeOK
        <5>3. QED
          BY <3>1, <3>4, <4>2, <5>1, <5>2 DEF TakeBatch, TypeOK
      <4>3. QED
        BY <4>1, <4>2
    <3>5. CASE Leave(d)
      BY <3>1, <3>5, ReceiptTyped DEF Leave, TypeOK
    <3>6. QED
      BY <2>4, <3>2, <3>3, <3>4, <3>5 DEF DrainStep
  <2>5. ASSUME NEW d \in Drain, ClosureStep(d) PROVE TypeOK'
    <3>1. CASE BatchOpens(d)
      BY <3>1 DEF BatchOpens, TypeOK
    <3>2. CASE BatchCannotOpen(d) \/ BatchFindsReindex(d)
      <4>1. PICK left \in SUBSET Nat : RowsLeft(d, left)
        BY <3>2 DEF BatchCannotOpen, BatchFindsReindex
      <4>2. batch[d] \in SUBSET Nat
        BY DEF TypeOK
      <4>3. QED
        BY <3>2, <4>1, <4>2, RowsLeftTyped DEF BatchCannotOpen, BatchFindsReindex, TypeOK
    <3>3. CASE WriteRow(d) \/ RowFindsSlotEmpty(d)
      <4>1. PICK left \in SUBSET Nat : RowsLeft(d, left)
        BY <3>3, BatchRowsLeft DEF WriteRow, RowFindsSlotEmpty
      <4>2. CASE WriteRow(d)
        BY <4>1, <4>2, RowsLeftTyped DEF WriteRow, TypeOK
      <4>3. CASE RowFindsSlotEmpty(d)
        BY <4>1, <4>3, RowsLeftTyped DEF RowFindsSlotEmpty, TypeOK
      <4>4. QED
        BY <3>3, <4>2, <4>3
    <3>4. QED
      BY <2>5, <3>1, <3>2, <3>3 DEF ClosureStep
  <2>6. ASSUME NEW d \in Drain, Cancel(d) PROVE TypeOK'
    <3>1. stage' \in [Drain -> Stages]
      BY <2>6, StageTyped DEF Cancel, Stages
    <3>2. QED
      BY <2>6, <3>1, ReceiptTyped DEF Cancel, TypeOK
  <2>7. ASSUME NEW s \in Settler,
               \/ SettleCalled(s) \/ SettleTakes(s) \/ SettleReturns(s)
               \/ SettleAwaited(s) \/ SettleAborts(s)
        PROVE  TypeOK'
    <3>1. CASE SettleCalled(s)
      BY <3>1 DEF SettleCalled, TypeOK
    <3>2. CASE SettleTakes(s) \/ SettleReturns(s)
      BY <3>2 DEF SettleTakes, SettleReturns, TypeOK
    <3>3. CASE SettleAwaited(s) \/ SettleAborts(s)
      BY <3>3 DEF SettleAwaited, SettleAborts, TypeOK
    <3>4. QED
      BY <2>7, <3>1, <3>2, <3>3
  <2>8. CASE SlotOpened \/ SlotClosed \/ ReindexStarts \/ ReindexRestores \/ ReindexEnds
    <3>1. UNCHANGED <<queueVars, drainVars, slot, callers>>
      BY <2>8 DEF SlotOpened, SlotClosed, ReindexStarts, ReindexRestores, ReindexEnds
    <3>2. open' \in BOOLEAN
      BY <2>8 DEF SlotOpened, SlotClosed, ReindexStarts, ReindexRestores, ReindexEnds, TypeOK
    <3>3. reindex' \in {reindex, "off", "on", "restored"}
      BY <2>8 DEF SlotOpened, SlotClosed, ReindexStarts, ReindexRestores, ReindexEnds
    <3>4. reindexes' = reindexes \/ reindexes' = reindexes + 1
      BY <2>8 DEF SlotOpened, SlotClosed, ReindexStarts, ReindexRestores, ReindexEnds
    <3>5. QED
      BY <3>1, <3>2, <3>3, <3>4 DEF TypeOK
  <2>9. CASE UNCHANGED vars
    BY <2>9 DEF vars, TypeOK
  <2>10. QED
    BY <2>1, <2>2, <2>3, <2>4, <2>5, <2>6, <2>7, <2>8, <2>9 DEF Next
<1>3. QED
  BY <1>1, <1>2, PTL DEF Spec

-----------------------------------------------------------------------------
(* One working drain, and reservations that are its own.                    *)

\* A drain that does not hold the reservation drops its receipt without effect.
LEMMA StrangerDrops ==
  ASSUME NEW d \in Drain, generation # d, DropReceipt(d)
  PROVE  UNCHANGED <<present, generation, waiting, taken>>
  BY DEF DropReceipt

\* The drain that holds the reservation empties it as it ends.
LEMMA OwnerDrops ==
  ASSUME NEW d \in Drain, present, generation = d, DropReceipt(d)
  PROVE  generation' = Nobody /\ waiting' = Nobody
  BY DEF DropReceipt, RemoveEntry

\* A working drain moves on and stays the owner of its reservation.
LEMMA OwnerMoves ==
  ASSUME TypeOK, Ownership, NEW d \in Drain, NEW st \in Working \ {"reserved"}, To(d, st),
         stage[d] \in Working \ {"reserved"},
         UNCHANGED <<present, generation, waiting, drains, wpc, wgen>>
  PROVE  Ownership'
<1>1. stage'[d] = st /\ \A c \in Drain \ {d} : stage'[c] = stage[c]
  BY DEF To, TypeOK
<1>2. \A c \in Drain : (stage'[c] \in Working <=> stage[c] \in Working)
                       /\ (stage'[c] = "reserved" <=> stage[c] = "reserved")
  BY <1>1
<1>3. \A c \in Drain : c > drains => stage'[c] = "unborn"
  BY <1>1 DEF Ownership, Working
<1>4. QED
  BY <1>2, <1>3 DEF Ownership, ReservationsAreLive, TypeOK

\* The working drain ends or leaves, and its reservation is gone with it.
LEMMA OwnerEnds ==
  ASSUME TypeOK, Ownership, NEW d \in Drain, NEW st \in {"leave", "ended"}, To(d, st),
         stage[d] \in Working,
         generation' = Nobody, waiting' = Nobody, UNCHANGED <<drains, wgen>>,
         \A w \in Writer : wpc'[w] = wpc[w] \/ (wgen[w] = d /\ wpc[w] # "idle" /\ wpc'[w] = "publish"),
         \A w \in Writer : wpc'[w] = "spawn" => wgen[w] # d
  PROVE  Ownership'
<1>1. stage'[d] = st /\ \A c \in Drain \ {d} : stage'[c] = stage[c]
  BY DEF To, TypeOK
<1>2. \A c \in Drain : stage'[c] \notin Working
  BY <1>1 DEF Ownership, Working
<1>3. \A c \in Drain : c > drains => stage'[c] = "unborn"
  BY <1>1 DEF Ownership, Working
<1>4. ASSUME NEW w \in Writer
      PROVE  /\ wpc'[w] # "idle" => wgen[w] \in Drain /\ wgen[w] =< drains
             /\ wpc'[w] = "spawn" => wpc[w] = "spawn" /\ stage'[wgen[w]] = "reserved"
  BY <1>1 DEF Ownership
<1>5. QED
  BY <1>2, <1>3, <1>4 DEF Ownership, ReservationsAreLive

\* What Ownership speaks of is left alone.
LEMMA OwnershipStays ==
  ASSUME Ownership,
         UNCHANGED <<present, generation, stage, drains, wpc, wgen>>,
         waiting' \in {waiting, Nobody}
  PROVE  Ownership'
  BY DEF Ownership, ReservationsAreLive

\* A closure that is done sends its drain, unless cancelled, back to the slot.
LEMMA ClosureEnds ==
  ASSUME TypeOK, Ownership, NEW d \in Drain, NEW left, RowsLeft(d, left),
         UNCHANGED <<present, generation, waiting, drains, wpc, wgen>>
  PROVE  Ownership'
<1>1. CASE UNCHANGED stage
  BY <1>1, OwnershipStays
<1>2. CASE stage[d] = "write" /\ stage' = [stage EXCEPT ![d] = "lock"]
  BY <1>2, OwnerMoves DEF To, Working
<1>3. QED
  <2>1. UNCHANGED stage \/ stage' = [stage EXCEPT ![d] = IF @ = "write" THEN "lock" ELSE @]
    BY DEF RowsLeft
  <2>2. CASE stage[d] = "write"
    BY <1>1, <1>2, <2>1, <2>2
  <2>3. CASE stage[d] # "write"
    BY <1>1, <2>1, <2>3 DEF TypeOK
  <2>4. QED
    BY <2>2, <2>3

LEMMA OwnershipStep ==
  ASSUME TypeOK, TypeOK', Ownership, [Next]_vars
  PROVE  Ownership'
<1> USE DEF queueVars, drainVars, slotVars, callers
<1>1. ASSUME NEW w \in Writer, Enqueue(w) PROVE Ownership'
  <2>1. CASE ReservationHeld
    BY <2>1, <1>1 DEF Enqueue, ReservationHeld, Ownership, ReservationsAreLive
  \* An entry without a live reservation has none at all: nobody works.
  <2>2. CASE ~ ReservationHeld
    <3>1. generation = Nobody
      BY <2>2 DEF ReservationHeld, Ownership, ReservationsAreLive, Working
    <3>2. \A d \in Drain : stage[d] \notin Working
      BY <3>1, NobodyIsNoDrain DEF Ownership
    <3>3. waiting = Nobody
      BY <3>1 DEF Ownership, ReservationsAreLive
    <3>4. /\ drains' = drains + 1 /\ drains' \in Drain /\ generation' = drains'
          /\ present' = TRUE /\ waiting' = Nobody /\ drains \in Nat
      BY <2>2, <1>1, <3>3, QueueAssumption DEF Enqueue, TypeOK, QueueAssumption, Drain
    <3>5. /\ stage'[drains'] = "reserved"
          /\ \A d \in Drain : d # drains' => stage'[d] = stage[d]
      BY <2>2, <1>1, <3>4 DEF Enqueue, To, TypeOK
    <3>6. /\ wpc[w] = "idle" /\ wpc'[w] = "spawn" /\ wgen'[w] = drains'
          /\ \A v \in Writer : v # w => wpc'[v] = wpc[v] /\ wgen'[v] = wgen[v]
      BY <2>2, <1>1 DEF Enqueue, TypeOK
    <3>7. \A v \in Writer : wpc[v] # "spawn"
      BY <3>2 DEF Ownership, Working
    <3>8. \A d \in Drain : stage'[d] \in Working => d = drains'
      BY <3>2, <3>5
    <3>9. \A d \in Drain : d > drains' => stage'[d] = "unborn"
      BY <3>4, <3>5, NobodyIsNoDrain DEF Ownership
    <3>10. ASSUME NEW v \in Writer
           PROVE  /\ (wpc'[v] # "idle" => wgen'[v] \in Drain /\ wgen'[v] =< drains')
                  /\ (wpc'[v] = "spawn" => v = w)
      <4>1. CASE v = w
        BY <3>4, <3>6, <4>1, NobodyIsNoDrain
      <4>2. CASE v # w
        <5>1. wpc'[v] = wpc[v] /\ wgen'[v] = wgen[v] /\ wpc[v] # "spawn"
          BY <3>6, <3>7, <4>2
        <5>2. wpc[v] # "idle" => wgen[v] \in Drain /\ wgen[v] =< drains
          BY DEF Ownership
        <5>3. wgen[v] \in Drain /\ wgen[v] =< drains => wgen[v] =< drains'
          BY <3>4 DEF Drain
        <5>4. QED
          BY <5>1, <5>2, <5>3
      <4>3. QED
        BY <4>1, <4>2
    <3>11. QED
      BY <3>4, <3>5, <3>6, <3>8, <3>9, <3>10 DEF Ownership, ReservationsAreLive, Working
  <2>3. QED
    BY <2>1, <2>2
<1>2. ASSUME NEW w \in Writer, Spawn(w) \/ SpawnRefused(w) PROVE Ownership'
  <2>1. /\ wpc[w] = "spawn" /\ wgen[w] \in Drain /\ stage[wgen[w]] = "reserved"
        /\ present /\ generation = wgen[w] /\ UNCHANGED <<drains, wgen>>
    BY <1>2 DEF Spawn, SpawnRefused, Ownership, Working
  <2>2. /\ wpc'[w] = "publish" /\ \A v \in Writer : v # w => wpc'[v] = wpc[v]
    BY <1>2 DEF Spawn, SpawnRefused, TypeOK
  <2>3. \A v \in Writer : wpc'[v] = "spawn" => v # w /\ wpc[v] = "spawn" /\ wgen[v] # wgen[w]
    BY <2>1, <2>2 DEF Ownership
  <2>4. CASE Spawn(w)
    <3>1. /\ stage'[wgen[w]] = "wait" /\ UNCHANGED <<present, generation, waiting>>
          /\ \A d \in Drain : d # wgen[w] => stage'[d] = stage[d]
      BY <2>1, <2>4 DEF Spawn, To, TypeOK
    <3>2. \A d \in Drain : stage'[d] \in Working <=> stage[d] \in Working
      BY <2>1, <3>1 DEF Working
    <3>3. \A d \in Drain : d > drains => stage'[d] = "unborn"
      BY <2>1, <3>1 DEF Ownership
    <3>4. \A v \in Writer :
            /\ wpc'[v] # "idle" => wgen'[v] \in Drain /\ wgen'[v] =< drains'
            /\ wpc'[v] = "spawn" => stage'[wgen'[v]] = "reserved"
      BY <2>1, <2>2, <2>3, <3>1 DEF Ownership
    <3>5. \A u, v \in Writer : wpc'[u] = "spawn" /\ wpc'[v] = "spawn" /\ wgen'[u] = wgen'[v]
                               => u = v
      BY <2>1, <2>3 DEF Ownership
    <3>6. QED
      BY <2>1, <3>1, <3>2, <3>3, <3>4, <3>5 DEF Ownership, ReservationsAreLive, TypeOK
  <2>5. CASE SpawnRefused(w)
    <3>1. generation' = Nobody /\ waiting' = Nobody /\ To(wgen[w], "ended")
      BY <2>1, <2>5, OwnerDrops DEF SpawnRefused
    <3>2. QED
      BY <2>1, <2>2, <2>3, <3>1, OwnerEnds DEF Working
  <2>6. QED
    BY <1>2, <2>4, <2>5
<1>3. ASSUME NEW w \in Writer, Publish(w) PROVE Ownership'
  <2>1. /\ waiting' = waiting \/ (present /\ generation = wgen[w] /\ waiting' = wgen[w])
        /\ wpc'[w] = "idle" /\ \A v \in Writer : v # w => wpc'[v] = wpc[v] /\ wgen'[v] = wgen[v]
        /\ UNCHANGED <<present, generation, stage, drains>>
    BY <1>3 DEF Publish, TypeOK
  <2>2. QED
    BY <2>1 DEF Ownership, ReservationsAreLive
<1>4. ASSUME NEW d \in Drain, DrainStep(d) PROVE Ownership'
  <2>1. CASE WaitedOut(d) \/ LockSlot(d) \/ Admitted(d)
    <3>1. PICK st \in {"lock", "check", "take"} : To(d, st)
      BY <2>1 DEF WaitedOut, LockSlot, Admitted
    <3>2. /\ stage[d] \in {"wait", "lock", "admit"}
          /\ UNCHANGED <<present, generation, waiting, drains, wpc, wgen>>
      BY <2>1 DEF WaitedOut, LockSlot, Admitted
    <3>3. QED
      BY <3>1, <3>2, OwnerMoves DEF Working
  <2>2. CASE stage[d] \in {"check", "admit", "take"} /\ RemoveEntry /\ To(d, "leave")
             /\ UNCHANGED <<drains, wpc, wgen>>
    <3>1. \A w \in Writer : wpc[w] = "spawn" => wgen[w] # d
      BY <2>2 DEF Ownership
    <3>2. generation' = Nobody /\ waiting' = Nobody /\ stage[d] \in Working
      BY <2>2 DEF RemoveEntry, Working
    <3>3. QED
      BY <2>2, <3>1, <3>2, OwnerEnds
  <2>3. CASE CheckQueue(d)
    <3>1. CASE To(d, "admit") /\ UNCHANGED <<present, generation, waiting>>
      BY <2>3, <3>1, OwnerMoves DEF CheckQueue, Working
    <3>2. QED
      BY <2>2, <2>3, <3>1 DEF CheckQueue
  <2>4. CASE AdmissionFails(d)
    BY <2>2, <2>4 DEF AdmissionFails
  <2>5. CASE TakeBatch(d)
    <3>1. CASE To(d, "write") /\ UNCHANGED <<present, generation, waiting>>
      BY <2>5, <3>1, OwnerMoves DEF TakeBatch, Working
    <3>2. QED
      BY <2>2, <2>5, <3>1 DEF TakeBatch
  <2>6. CASE Leave(d)
    \* Whoever holds a reservation by now is a successor.
    <3>1. generation # d
      BY <2>6, NobodyIsNoDrain DEF Leave, Ownership, ReservationsAreLive, Working
    <3>2. UNCHANGED <<present, generation, waiting, drains, wpc, wgen>>
      BY <2>6, <3>1, StrangerDrops DEF Leave
    <3>3. /\ stage[d] = "leave" /\ stage'[d] = "ended"
          /\ \A c \in Drain : c # d => stage'[c] = stage[c]
      BY <2>6 DEF Leave, To, TypeOK
    <3>4. \A c \in Drain : /\ stage'[c] \in Working <=> stage[c] \in Working
                           /\ stage'[c] = "reserved" <=> stage[c] = "reserved"
      BY <3>3 DEF Working
    <3>5. \A c \in Drain : c > drains => stage'[c] = "unborn"
      BY <3>3 DEF Ownership
    <3>6. QED
      BY <3>2, <3>4, <3>5 DEF Ownership, ReservationsAreLive, TypeOK
  <2>7. QED
    BY <1>4, <2>1, <2>3, <2>4, <2>5, <2>6 DEF DrainStep
<1>5. ASSUME NEW d \in Drain, ClosureStep(d) PROVE Ownership'
  <2>1. CASE BatchOpens(d)
    BY <2>1, OwnershipStays DEF BatchOpens
  <2>2. CASE ~ BatchOpens(d)
    <3>1. PICK left : RowsLeft(d, left)
      BY <1>5, <2>2
         DEF ClosureStep, BatchCannotOpen, BatchFindsReindex, WriteRow, RowFindsSlotEmpty
    <3>2. UNCHANGED <<present, generation, waiting, drains, wpc, wgen>>
      BY <1>5, <2>2
         DEF ClosureStep, BatchCannotOpen, BatchFindsReindex, WriteRow, RowFindsSlotEmpty
    <3>3. QED
      BY <3>1, <3>2, ClosureEnds
  <2>3. QED
    BY <2>1, <2>2
<1>6. ASSUME NEW d \in Drain, Cancel(d) PROVE Ownership'
  <2>1. stage[d] \in Working /\ stage[d] # "reserved" /\ To(d, "ended")
        /\ UNCHANGED <<drains, wpc, wgen>>
    BY <1>6 DEF Cancel, Working
  <2>2. generation' = Nobody /\ waiting' = Nobody
    BY <1>6, <2>1, OwnerDrops DEF Cancel, Ownership
  <2>3. \A w \in Writer : wpc[w] = "spawn" => wgen[w] # d
    BY <2>1 DEF Ownership
  <2>4. QED
    BY <2>1, <2>2, <2>3, OwnerEnds
<1>7. ASSUME NEW s \in Settler,
             \/ SettleCalled(s) \/ SettleTakes(s) \/ SettleReturns(s)
             \/ SettleAwaited(s) \/ SettleAborts(s)
      PROVE  Ownership'
  BY <1>7, OwnershipStays
     DEF SettleCalled, SettleTakes, SettleReturns, SettleAwaited, SettleAborts
<1>8. CASE SlotOpened \/ SlotClosed \/ ReindexStarts \/ ReindexRestores \/ ReindexEnds
  BY <1>8, OwnershipStays
     DEF SlotOpened, SlotClosed, ReindexStarts, ReindexRestores, ReindexEnds
<1>9. CASE UNCHANGED vars
  BY <1>9, OwnershipStays DEF vars
<1>10. QED
  BY <1>1, <1>2, <1>3, <1>4, <1>5, <1>6, <1>7, <1>8, <1>9 DEF Next

\* The reservations, the handles and the working drains agree in every state.
THEOREM QueueOwnership == Spec => []Ownership
<1>1. Init => Ownership
  BY NobodyIsNoDrain DEF Init, Ownership, ReservationsAreLive, Working
<1>2. TypeOK /\ TypeOK' /\ Ownership /\ [Next]_vars => Ownership'
  BY OwnershipStep
<1>3. QED
  BY <1>1, <1>2, QueueTyping, PTL DEF Spec

\* At most one drain works for the slot (write_behind_slot).
THEOREM OneDrainAtATime == Spec => []SoleDrain
<1>1. Ownership => SoleDrain
  BY DEF Ownership, SoleDrain
<1>2. QED
  BY <1>1, QueueOwnership, PTL

\* No row is left behind a drain that will not come for it (DeferredDrain::drop).
THEOREM NoDeadReservation == Spec => []ReservationsAreLive
<1>1. Ownership => ReservationsAreLive
  BY DEF Ownership
<1>2. QED
  BY <1>1, QueueOwnership, PTL

-----------------------------------------------------------------------------
(* The order in which rows are written.                                     *)

\* A step of another drain, or of no drain, leaves what this one holds alone.
LEMMA Bystander ==
  ASSUME TypeOK, NEW c \in Drain, Holds(c),
         stage'[c] = stage[c], batch'[c] = batch[c], closure'[c] = closure[c],
         taken' \in Nat, taken =< taken',
         slot' = slot \/ slot # c
  PROVE  Holds(c)'
<1>1. closure[c] # "none" => Span(batch[c])'
  <2>1. SUFFICES ASSUME closure[c] # "none" PROVE Span(batch[c])'
    OBVIOUS
  <2>2. PICK m, n \in Nat : m =< n /\ n =< taken /\ batch[c] = m..n
    BY <2>1 DEF Holds, Span
  <2>3. n =< taken' /\ batch'[c] = m..n
    BY <2>2 DEF TypeOK
  <2>4. QED
    BY <2>2, <2>3 DEF Span
<1>2. QED
  BY <1>1 DEF Holds

\* A drain without rows of its own moves between stages that need no slot, or
\* takes the slot first.
LEMMA EmptyHanded ==
  ASSUME NEW d \in Drain, Holds(d), closure[d] = "none",
         UNCHANGED <<batch, closure>>,
         stage'[d] # "write",
         stage'[d] \in {"check", "admit", "take", "leave"} => slot' = d
  PROVE  Holds(d)'
  BY DEF Holds

\* What a batch still holds after its first row is written.
LEMMA FirstRow ==
  ASSUME TypeOK, NEW d \in Drain, Holds(d), closure[d] # "none",
         NEW m \in Nat, NEW n \in Nat, m =< n, batch[d] = m..n
  PROVE  NextRow(d) = m /\ batch[d] \ {NextRow(d)} = (m + 1)..n
<1>1. m \in batch[d] /\ \A q \in batch[d] : m =< q
  OBVIOUS
<1>2. NextRow(d) \in batch[d] /\ \A q \in batch[d] : NextRow(d) =< q
  BY <1>1 DEF NextRow
<1>3. NextRow(d) \in Int
  BY <1>2
<1>4. NextRow(d) =< m /\ m =< NextRow(d)
  BY <1>1, <1>2
<1>5. NextRow(d) = m
  BY <1>3, <1>4
<1>6. QED
  BY <1>5

\* Rows leave a closure from the front, and the slot goes with the last one.
LEMMA ClosureHolds ==
  ASSUME TypeOK, Holding, NEW d \in Drain, closure[d] # "none", NEW left,
         left = {} \/ Span(left), RowsLeft(d, left), UNCHANGED taken
  PROVE  Holding'
<1>1. slot = d /\ stage[d] \in {"write", "ended"}
  BY DEF Holding, Holds
<1>2. batch'[d] = left /\ \A c \in Drain \ {d} : batch'[c] = batch[c]
  BY DEF RowsLeft, TypeOK
<1>3. \A c \in Drain \ {d} : closure'[c] = closure[c] /\ stage'[c] = stage[c]
  BY DEF RowsLeft, TypeOK
<1>4. Holds(d)'
  <2>1. CASE left # {}
    <3>1. closure'[d] = "rows" /\ slot' = d /\ stage'[d] = stage[d]
      BY <1>1, <2>1 DEF RowsLeft, TypeOK
    <3>2. Span(left)'
      BY <2>1 DEF Span
    <3>3. QED
      BY <1>1, <1>2, <3>1, <3>2 DEF Holds
  <2>2. CASE left = {}
    <3>1. closure'[d] = "none" /\ stage'[d] \in {"lock", "ended"}
      BY <1>1, <2>2 DEF RowsLeft, TypeOK
    <3>2. QED
      BY <1>2, <2>2, <3>1 DEF Holds
  <2>3. QED
    BY <2>1, <2>2
<1>5. ASSUME NEW c \in Drain, c # d PROVE Holds(c)'
  <2>1. slot # c /\ Holds(c) /\ taken' \in Nat /\ taken =< taken'
    BY <1>1, <1>5 DEF Holding, TypeOK
  <2>2. QED
    BY <1>2, <1>3, <1>5, <2>1, Bystander
<1>6. QED
  BY <1>4, <1>5 DEF Holding

LEMMA HoldingStep ==
  ASSUME TypeOK, TypeOK', Ownership, Holding, [Next]_vars
  PROVE  Holding'
<1> USE DEF queueVars, drainVars, slotVars, callers
<1>1. taken' \in Nat /\ taken' =< rows' /\ taken \in Nat
  BY DEF TypeOK
\* The steps that move one drain without rows; the others stand by.
<1>2. ASSUME NEW d \in Drain, NEW st, To(d, st), st # "write", closure[d] = "none",
             UNCHANGED <<batch, closure>>, taken =< taken',
             st \in {"check", "admit", "take", "leave"} => slot' = d,
             slot' = slot \/ slot \in {d, Nobody}
      PROVE  Holding'
  <2>1. stage'[d] = st /\ \A c \in Drain \ {d} : stage'[c] = stage[c]
    BY <1>2 DEF To, TypeOK
  <2>2. Holds(d)'
    BY <1>2, <2>1, EmptyHanded DEF Holding
  <2>3. ASSUME NEW c \in Drain, c # d PROVE Holds(c)'
    <3>1. slot' = slot \/ slot # c
      BY <1>2, <2>3, NobodyIsNoDrain
    <3>2. Holds(c)
      BY DEF Holding
    <3>3. QED
      BY <1>1, <1>2, <2>1, <2>3, <3>1, <3>2, Bystander
  <2>4. QED
    BY <2>2, <2>3 DEF Holding
\* The steps that move no drain and leave the slot to its holder.
<1>3. ASSUME UNCHANGED <<stage, batch, closure, slot>>, taken =< taken'
      PROVE  Holding'
  BY <1>1, <1>3, Bystander DEF Holding
<1>4. ASSUME NEW w \in Writer, Enqueue(w) PROVE Holding'
  <2>1. UNCHANGED <<taken, batch, closure, slot>>
    BY <1>4 DEF Enqueue
  <2>2. CASE ReservationHeld
    BY <1>1, <1>3, <1>4, <2>1, <2>2 DEF Enqueue
  <2>3. CASE ~ ReservationHeld
    <3>1. drains' = drains + 1 /\ drains' \in Drain /\ To(drains', "reserved")
      BY <1>4, <2>3, QueueAssumption DEF Enqueue, TypeOK, QueueAssumption, Drain
    <3>2. stage[drains'] = "unborn"
      BY <3>1 DEF Ownership, TypeOK, Drain
    <3>3. closure[drains'] = "none"
      BY <3>1, <3>2 DEF Holding, Holds
    <3>4. QED
      BY <1>1, <1>2, <2>1, <3>1, <3>3
  <2>4. QED
    BY <2>2, <2>3
<1>5. ASSUME NEW w \in Writer, Spawn(w) \/ SpawnRefused(w) PROVE Holding'
  <2>1. wgen[w] \in Drain /\ stage[wgen[w]] = "reserved"
    BY <1>5 DEF Spawn, SpawnRefused, Ownership
  <2>2. closure[wgen[w]] = "none"
    BY <2>1 DEF Holding, Holds
  <2>3. taken =< taken' /\ UNCHANGED <<batch, closure, slot>>
    BY <1>5, <2>1, ReceiptTyped DEF Spawn, SpawnRefused, TypeOK
  <2>4. PICK st \in {"wait", "ended"} : To(wgen[w], st)
    BY <1>5 DEF Spawn, SpawnRefused
  <2>5. QED
    BY <1>2, <2>1, <2>2, <2>3, <2>4
<1>6. ASSUME NEW w \in Writer, Publish(w) PROVE Holding'
  BY <1>1, <1>3, <1>6 DEF Publish
<1>7. ASSUME NEW d \in Drain, DrainStep(d) PROVE Holding'
  <2>1. stage[d] \in {"wait", "lock", "check", "admit", "take", "leave"}
    BY <1>7 DEF DrainStep, WaitedOut, LockSlot, CheckQueue, Admitted, AdmissionFails,
                TakeBatch, Leave
  <2>2. closure[d] = "none" /\ (stage[d] \in {"check", "admit", "take", "leave"} => slot = d)
    BY <2>1 DEF Holding, Holds
  <2>3. CASE WaitedOut(d)
    BY <1>1, <1>2, <2>2, <2>3 DEF WaitedOut
  <2>4. CASE LockSlot(d)
    BY <1>1, <1>2, <2>2, <2>4 DEF LockSlot
  <2>5. CASE Admitted(d)
    BY <1>1, <1>2, <2>2, <2>5 DEF Admitted
  <2>6. CASE /\ stage[d] \in {"check", "admit", "take"} /\ RemoveEntry /\ To(d, "leave")
             /\ UNCHANGED <<batch, closure, slot>>
    <3>1. taken =< taken'
      BY <2>6 DEF RemoveEntry, TypeOK
    <3>2. QED
      BY <1>2, <2>2, <2>6, <3>1
  <2>7. CASE CheckQueue(d)
    <3>1. CASE To(d, "admit") /\ UNCHANGED taken
      <4>1. UNCHANGED <<batch, closure, slot>> /\ stage[d] = "check"
        BY <2>7 DEF CheckQueue
      <4>2. QED
        BY <1>1, <1>2, <2>2, <3>1, <4>1
    <3>2. QED
      BY <2>6, <2>7, <3>1 DEF CheckQueue
  <2>8. CASE AdmissionFails(d)
    BY <2>6, <2>8 DEF AdmissionFails
  <2>9. CASE TakeBatch(d)
    <3>1. CASE ~ present \/ Queued = {}
      BY <2>6, <2>9, <3>1 DEF TakeBatch
    <3>2. CASE ~ (~ present \/ Queued = {})
      <4>1. /\ taken' = (IF rows - taken > BatchRows THEN taken + BatchRows ELSE rows)
            /\ batch' = [batch EXCEPT ![d] = (taken + 1)..taken']
            /\ closure' = [closure EXCEPT ![d] = "open"]
            /\ To(d, "write") /\ UNCHANGED slot /\ slot = d
        BY <2>2, <2>9, <3>2 DEF TakeBatch
      <4>2. taken < rows
        BY <3>2 DEF Queued, TypeOK
      <4>3. taken < taken'
        BY <4>1, <4>2, QueueAssumption DEF TypeOK, QueueAssumption
      <4>4. /\ batch'[d] = (taken + 1)..taken' /\ closure'[d] = "open" /\ stage'[d] = "write"
            /\ \A c \in Drain \ {d} : /\ batch'[c] = batch[c] /\ closure'[c] = closure[c]
                                      /\ stage'[c] = stage[c]
        BY <4>1 DEF To, TypeOK
      <4>5. Span(batch[d])'
        <5>1. taken + 1 \in Nat /\ taken + 1 =< taken' /\ taken' =< taken'
          BY <1>1, <4>3
        <5>2. QED
          BY <1>1, <4>4, <5>1 DEF Span
      <4>6. Holds(d)'
        BY <4>1, <4>4, <4>5 DEF Holds
      <4>7. ASSUME NEW c \in Drain, c # d PROVE Holds(c)'
        <5>1. Holds(c) /\ taken =< taken'
          BY <1>1, <4>3 DEF Holding
        <5>2. QED
          BY <1>1, <4>1, <4>4, <4>7, <5>1, Bystander
      <4>8. QED
        BY <4>6, <4>7 DEF Holding
    <3>3. QED
      BY <3>1, <3>2
  <2>10. CASE Leave(d)
    <3>1. taken =< taken'
      BY <2>10, ReceiptTyped DEF Leave, TypeOK
    <3>2. QED
      BY <1>2, <2>2, <2>10, <3>1 DEF Leave
  <2>11. QED
    BY <1>7, <2>3, <2>4, <2>5, <2>7, <2>8, <2>9, <2>10 DEF DrainStep
<1>8. ASSUME NEW d \in Drain, ClosureStep(d) PROVE Holding'
  <2>1. closure[d] # "none" /\ UNCHANGED taken
    BY <1>8 DEF ClosureStep, BatchOpens, BatchCannotOpen, BatchFindsReindex, WriteRow,
                RowFindsSlotEmpty
  <2>2. CASE BatchOpens(d)
    <3>1. /\ closure'[d] = "rows" /\ UNCHANGED <<stage, batch, slot>>
          /\ \A c \in Drain \ {d} : closure'[c] = closure[c]
      BY <2>2 DEF BatchOpens, TypeOK
    <3>2. Holds(d)'
      BY <2>1, <3>1 DEF Holding, Holds, Span
    <3>3. ASSUME NEW c \in Drain, c # d PROVE Holds(c)'
      BY <1>1, <2>1, <3>1, <3>3, Bystander DEF Holding
    <3>4. QED
      BY <3>2, <3>3 DEF Holding
  <2>3. CASE BatchCannotOpen(d) \/ BatchFindsReindex(d)
    BY <2>1, <2>3, ClosureHolds DEF BatchCannotOpen, BatchFindsReindex
  <2>4. CASE WriteRow(d) \/ RowFindsSlotEmpty(d)
    <3>1. RowsLeft(d, batch[d] \ {NextRow(d)}) /\ Holds(d)
      BY <2>4 DEF WriteRow, RowFindsSlotEmpty, Holding
    <3>2. PICK m, n \in Nat : m =< n /\ n =< taken /\ batch[d] = m..n
      BY <2>1, <3>1 DEF Holds, Span
    <3>3. batch[d] \ {NextRow(d)} = (m + 1)..n
      BY <2>1, <3>1, <3>2, FirstRow
    <3>4. (m + 1)..n = {} \/ Span((m + 1)..n)
      BY <3>2 DEF Span
    <3>5. QED
      BY <2>1, <3>1, <3>3, <3>4, ClosureHolds
  <2>5. QED
    BY <1>8, <2>2, <2>3, <2>4 DEF ClosureStep
<1>9. ASSUME NEW d \in Drain, Cancel(d) PROVE Holding'
  <2>1. To(d, "ended") /\ UNCHANGED <<batch, closure>> /\ taken =< taken'
    BY <1>9, ReceiptTyped DEF Cancel, TypeOK
  <2>2. CASE stage[d] # "write"
    <3>1. closure[d] = "none"
      BY <1>9, <2>2 DEF Cancel, Holding, Holds
    <3>2. slot' = slot \/ slot = d
      BY <1>9 DEF Cancel, Holding, Holds
    <3>3. QED
      BY <1>2, <2>1, <3>1, <3>2
  \* The guard and the rows stay with the closure of the cancelled drain.
  <2>3. CASE stage[d] = "write"
    <3>1. UNCHANGED slot
      BY <1>9, <2>3 DEF Cancel
    <3>2. stage'[d] = "ended" /\ \A c \in Drain \ {d} : stage'[c] = stage[c]
      BY <2>1 DEF To, TypeOK
    <3>3. closure[d] # "none" /\ slot = d /\ Span(batch[d])
      BY <2>3 DEF Holding, Holds
    <3>4. Span(batch[d])'
      <4>1. PICK m, n \in Nat : m =< n /\ n =< taken /\ batch[d] = m..n
        BY <3>3 DEF Span
      <4>2. n =< taken' /\ batch'[d] = m..n
        BY <1>1, <2>1, <4>1
      <4>3. QED
        BY <4>1, <4>2 DEF Span
    <3>5. Holds(d)'
      BY <2>1, <3>1, <3>2, <3>3, <3>4 DEF Holds
    <3>6. ASSUME NEW c \in Drain, c # d PROVE Holds(c)'
      BY <1>1, <2>1, <3>1, <3>2, <3>6, Bystander DEF Holding
    <3>7. QED
      BY <3>5, <3>6 DEF Holding
  <2>4. QED
    BY <2>2, <2>3
<1>10. ASSUME NEW s \in Settler,
              \/ SettleCalled(s) \/ SettleTakes(s) \/ SettleReturns(s)
              \/ SettleAwaited(s) \/ SettleAborts(s)
       PROVE  Holding'
  <2>1. UNCHANGED <<taken, stage, batch, closure, slot>>
    BY <1>10 DEF SettleCalled, SettleTakes, SettleReturns, SettleAwaited, SettleAborts
  <2>2. QED
    BY <1>1, <1>3, <2>1
<1>11. CASE \/ SlotOpened \/ SlotClosed \/ ReindexStarts \/ ReindexRestores \/ ReindexEnds
            \/ UNCHANGED vars
  <2>1. UNCHANGED <<taken, stage, batch, closure, slot>>
    BY <1>11 DEF SlotOpened, SlotClosed, ReindexStarts, ReindexRestores, ReindexEnds, vars
  <2>2. QED
    BY <1>1, <1>3, <2>1
<1>12. QED
  BY <1>4, <1>5, <1>6, <1>7, <1>8, <1>9, <1>10, <1>11 DEF Next

\* The slot is held by the drain, or the closure, that works under it.
THEOREM SlotHolding == Spec => []Holding
<1>1. Init => Holding
  BY DEF Init, Holding, Holds
<1>2. TypeOK /\ TypeOK' /\ Ownership /\ Holding /\ [Next]_vars => Holding'
  BY HoldingStep
<1>3. QED
  BY <1>1, <1>2, QueueTyping, QueueOwnership, PTL DEF Spec

\* The first row of the closure that writes precedes every row still waiting.
LEMMA FirstOfAll ==
  ASSUME TypeOK, Holding, NEW d \in Drain, NEW e \in Drain, WriteRow(d),
         NEW r \in batch[e] \cup Queued
  PROVE  NextRow(d) =< r
<1>1. closure[d] # "none" /\ slot = d /\ Holds(d)
  BY DEF WriteRow, Holding, Holds
<1>2. PICK m, n \in Nat : m =< n /\ n =< taken /\ batch[d] = m..n
  BY <1>1 DEF Holds, Span
<1>3. NextRow(d) = m
  BY <1>1, <1>2, FirstRow
<1>4. CASE r \in batch[e]
  <2>1. closure[e] # "none"
    BY <1>4 DEF Holding, Holds
  <2>2. e = d
    BY <1>1, <2>1 DEF Holding, Holds
  <2>3. QED
    BY <1>2, <1>3, <1>4, <2>2
<1>5. CASE r \in Queued
  BY <1>2, <1>3, <1>5 DEF Queued, TypeOK
<1>6. QED
  BY <1>4, <1>5

\* Rows are written in the order they were queued, for any batch size and any
\* pattern of cancellations (write_behind_slot, the slot's guard in the closure).
THEOREM WrittenInOrder == Spec => InOrder
<1>1. TypeOK /\ Holding =>
        \A d, e \in Drain : WriteRow(d) => \A r \in batch[e] \cup Queued : NextRow(d) =< r
  BY FirstOfAll
<1>2. QED
  BY <1>1, QueueTyping, SlotHolding, PTL DEF InOrder

-----------------------------------------------------------------------------
(* What a settlement sees when it returns.                                  *)

\* The rows still to be written: queued, or in the closure of some drain.
Pending == Queued \cup UNION {batch[d] : d \in Drain}

\* No two settlements of the slot are under way at once.
Alone == \A s, t \in Settler : spc[s] # "idle" /\ spc[t] # "idle" => s = t

Spawned(d) == d \in Drain /\ stage[d] \notin {"unborn", "reserved"}

\* The handle of a working drain is published, or its writer is about to publish
\* it, or a settlement took it; and only spawned drains have handles.
HandleInv ==
  /\ \A d \in Drain : stage[d] \in Working =>
       \/ waiting = d
       \/ \E s \in Settler : spc[s] \in {"await", "aborted"} /\ handle[s] = d
       \/ \E w \in Writer : wpc[w] # "idle" /\ wgen[w] = d
  /\ waiting # Nobody => Spawned(waiting)
  /\ \A w \in Writer : wpc[w] = "publish" => Spawned(wgen[w])
  /\ \A s \in Settler : spc[s] \in {"await", "aborted"} => Spawned(handle[s])

\* What settlement s was called to see is written.
Seen(s) == \A r \in Pending : r > asked[s]

\* A settlement has seen its rows written, or a drain it knows of still works.
SettleInv ==
  /\ \A d \in Drain : 0 \notin batch[d]
  /\ \A s \in Settler :
       /\ asked[s] =< rows
       /\ spc[s] = "take" => waiting # Nobody \/ Seen(s)
       /\ spc[s] = "await" => stage[handle[s]] \in Working \/ Seen(s)

\* Rows leave from the front of the queue, into a closure or for good.
RowsFlow ==
  /\ taken =< taken'
  /\ rows' \in {rows, rows + 1}
  /\ \A d \in Drain : \A r \in batch'[d] : r \in batch[d] \cup Queued

\* A closure lets go of some of its rows.
LEMMA ClosureFlow ==
  ASSUME TypeOK, NEW d \in Drain, NEW left \in SUBSET batch[d], RowsLeft(d, left),
         UNCHANGED <<taken, rows>>
  PROVE  RowsFlow
<1>1. batch'[d] = left /\ \A c \in Drain \ {d} : batch'[c] = batch[c]
  BY DEF RowsLeft, TypeOK
<1>2. taken =< taken' /\ rows' = rows
  BY DEF TypeOK
<1>3. ASSUME NEW c \in Drain, NEW r \in batch'[c] PROVE r \in batch[c]
  BY <1>1, <1>3
<1>4. QED
  BY <1>2, <1>3 DEF RowsFlow

\* Every step of the program moves rows that way.
LEMMA RowsFlowStep ==
  ASSUME TypeOK, TypeOK', [Next]_vars
  PROVE  RowsFlow
<1> USE DEF queueVars, drainVars, slotVars, callers
<1>1. ASSUME UNCHANGED <<rows, batch>>, taken' \in {taken, rows} PROVE RowsFlow
  BY <1>1 DEF RowsFlow, TypeOK
<1>2. ASSUME NEW w \in Writer, Enqueue(w) PROVE RowsFlow
  BY <1>2 DEF Enqueue, RowsFlow, TypeOK
<1>3. ASSUME NEW w \in Writer, Spawn(w) \/ SpawnRefused(w) \/ Publish(w) PROVE RowsFlow
  <2>1. wgen[w] \in Drain
    BY <1>3 DEF Spawn, SpawnRefused, Publish, TypeOK
  <2>2. taken' \in {taken, rows}
    BY <1>3, <2>1, ReceiptTyped DEF Spawn, SpawnRefused, Publish
  <2>3. QED
    BY <1>1, <1>3, <2>2 DEF Spawn, SpawnRefused, Publish
<1>4. ASSUME NEW d \in Drain, DrainStep(d) PROVE RowsFlow
  <2>1. CASE WaitedOut(d) \/ LockSlot(d) \/ Admitted(d)
    BY <1>1, <2>1 DEF WaitedOut, LockSlot, Admitted
  <2>2. CASE CheckQueue(d) \/ AdmissionFails(d)
    BY <1>1, <2>2 DEF CheckQueue, AdmissionFails, RemoveEntry
  <2>3. CASE Leave(d)
    BY <1>1, <2>3, ReceiptTyped DEF Leave
  <2>4. CASE TakeBatch(d)
    <3>1. CASE ~ present \/ Queued = {}
      BY <1>1, <2>4, <3>1 DEF TakeBatch, RemoveEntry
    <3>2. CASE ~ (~ present \/ Queued = {})
      <4>1. /\ taken' = (IF rows - taken > BatchRows THEN taken + BatchRows ELSE rows)
            /\ batch' = [batch EXCEPT ![d] = (taken + 1)..taken']
            /\ UNCHANGED rows
        BY <2>4, <3>2 DEF TakeBatch
      <4>2. taken =< taken' /\ taken' =< rows
        BY <4>1, QueueAssumption DEF TypeOK, QueueAssumption
      <4>3. batch'[d] = (taken + 1)..taken' /\ \A c \in Drain \ {d} : batch'[c] = batch[c]
        BY <4>1 DEF TypeOK
      <4>4. QED
        BY <4>1, <4>2, <4>3 DEF RowsFlow, Queued, TypeOK
    <3>3. QED
      BY <3>1, <3>2
  <2>5. QED
    BY <1>4, <2>1, <2>2, <2>3, <2>4 DEF DrainStep
<1>5. ASSUME NEW d \in Drain, ClosureStep(d) PROVE RowsFlow
  <2>1. CASE BatchOpens(d)
    BY <1>1, <2>1 DEF BatchOpens
  <2>2. CASE BatchCannotOpen(d) \/ BatchFindsReindex(d)
    BY <2>2, ClosureFlow DEF BatchCannotOpen, BatchFindsReindex
  <2>3. CASE WriteRow(d) \/ RowFindsSlotEmpty(d)
    <3>1. batch[d] \ {NextRow(d)} \in SUBSET batch[d]
      OBVIOUS
    <3>2. QED
      BY <2>3, <3>1, ClosureFlow DEF WriteRow, RowFindsSlotEmpty
  <2>4. QED
    BY <1>5, <2>1, <2>2, <2>3 DEF ClosureStep
<1>6. ASSUME NEW d \in Drain, Cancel(d) PROVE RowsFlow
  BY <1>1, <1>6, ReceiptTyped DEF Cancel
<1>7. ASSUME NEW s \in Settler,
             \/ SettleCalled(s) \/ SettleTakes(s) \/ SettleReturns(s)
             \/ SettleAwaited(s) \/ SettleAborts(s)
      PROVE  RowsFlow
  BY <1>1, <1>7 DEF SettleCalled, SettleTakes, SettleReturns, SettleAwaited, SettleAborts
<1>8. CASE \/ SlotOpened \/ SlotClosed \/ ReindexStarts \/ ReindexRestores \/ ReindexEnds
           \/ UNCHANGED vars
  BY <1>1, <1>8 DEF SlotOpened, SlotClosed, ReindexStarts, ReindexRestores, ReindexEnds, vars
<1>9. QED
  BY <1>2, <1>3, <1>4, <1>5, <1>6, <1>7, <1>8 DEF Next

\* So what is pending later was pending before, or was queued just now.
LEMMA PendingStep ==
  ASSUME TypeOK, TypeOK', RowsFlow, NEW r \in Pending'
  PROVE  r \in Pending \/ (r = rows + 1 /\ rows' = rows + 1)
<1>1. CASE r \in Queued'
  <2>1. PICK t \in Nat : t = taken' /\ taken =< t
    BY DEF RowsFlow, TypeOK
  <2>2. r \in (t + 1)..rows' /\ rows' \in {rows, rows + 1} /\ taken =< t
    BY <1>1, <2>1 DEF RowsFlow, Queued
  <2>3. r \in Queued \/ (r = rows + 1 /\ rows' = rows + 1)
    <3>1. taken \in Nat /\ rows \in Nat
      BY DEF TypeOK
    <3>2. QED
      BY <2>2, <3>1 DEF Queued
  <2>4. QED
    BY <2>3 DEF Pending
<1>2. CASE r \notin Queued'
  <2>1. PICK d \in Drain : r \in batch'[d]
    BY <1>2 DEF Pending
  <2>2. r \in batch[d] \cup Queued
    BY <2>1 DEF RowsFlow
  <2>3. QED
    BY <2>2 DEF Pending
<1>3. QED
  BY <1>1, <1>2

\* A row that was written or dropped does not come back: no cancellation, no refused
\* spawn and no failed batch puts it into the queue or a batch again (write_behind_slot
\* drains the rows out of the queue before it writes them).
THEOREM NoRowTwice == Spec => [][\A r \in Pending' : r \in Pending \/ r > rows]_vars
<1>1. TypeOK /\ TypeOK' /\ [Next]_vars => \A r \in Pending' : r \in Pending \/ r > rows
  <2> SUFFICES ASSUME TypeOK, TypeOK', [Next]_vars, NEW r \in Pending'
               PROVE  r \in Pending \/ r > rows
    OBVIOUS
  <2>1. r \in Pending \/ (r = rows + 1 /\ rows' = rows + 1)
    BY RowsFlowStep, PendingStep
  <2>2. QED
    BY <2>1 DEF TypeOK
<1>2. QED
  BY <1>1, QueueTyping, PTL DEF Spec

\* What was seen stays seen.
LEMMA SeenStays ==
  ASSUME TypeOK, TypeOK', RowsFlow, NEW s \in Settler, asked[s] =< rows, Seen(s),
         asked'[s] = asked[s]
  PROVE  Seen(s)'
<1>1. ASSUME NEW r \in Pending' PROVE r > asked[s]
  BY PendingStep DEF Seen, TypeOK
<1>2. QED
  BY <1>1 DEF Seen

-----------------------------------------------------------------------------
(* Drains that end, and the handles that name them.                         *)

\* One task's step moves one spawned drain; when it ends the drain's work, the
\* handle in the entry goes too.
DrainMoves(d) ==
  /\ \A c \in Drain \ {d} : stage'[c] = stage[c]
  /\ {stage[d], stage'[d]} \cap {"unborn", "reserved"} = {}
  /\ UNCHANGED <<wpc, wgen, spc, handle, asked>>
  /\ \/ UNCHANGED waiting /\ (stage'[d] \in Working <=> stage[d] \in Working)
     \/ waiting' = Nobody /\ stage[d] \in Working /\ stage'[d] \notin Working

\* The steps of a drain and its cancellation move it so.
LEMMA DrainMovesStep ==
  ASSUME TypeOK, Ownership, NEW d \in Drain, DrainStep(d) \/ Cancel(d)
  PROVE  DrainMoves(d)
<1> USE DEF queueVars, drainVars, slotVars, callers
<1>1. ASSUME NEW st \in Stages, To(d, st)
      PROVE  stage'[d] = st /\ \A c \in Drain \ {d} : stage'[c] = stage[c]
  BY <1>1 DEF To, TypeOK
<1>2. UNCHANGED <<wpc, wgen, spc, handle, asked>>
  BY DEF DrainStep, WaitedOut, LockSlot, CheckQueue, Admitted, AdmissionFails, TakeBatch, Leave,
         Cancel
<1>3. ASSUME stage[d] \in Working, NEW st \in Working \ {"reserved"}, To(d, st),
             stage[d] # "reserved", UNCHANGED waiting
      PROVE  DrainMoves(d)
  BY <1>1, <1>2, <1>3 DEF DrainMoves, Working, Stages
<1>4. ASSUME stage[d] \in Working, NEW st \in {"leave", "ended"}, To(d, st),
             stage[d] # "reserved", waiting' = Nobody
      PROVE  DrainMoves(d)
  BY <1>1, <1>2, <1>4 DEF DrainMoves, Working, Stages
<1>5. CASE WaitedOut(d) \/ LockSlot(d) \/ Admitted(d)
  BY <1>3, <1>5 DEF WaitedOut, LockSlot, Admitted, Working
<1>6. CASE CheckQueue(d)
  <2>1. stage[d] \in Working /\ stage[d] # "reserved"
    BY <1>6 DEF CheckQueue, Working
  <2>2. CASE RemoveEntry /\ To(d, "leave")
    BY <1>4, <2>1, <2>2 DEF RemoveEntry
  <2>3. CASE To(d, "admit") /\ UNCHANGED waiting
    BY <1>3, <2>1, <2>3 DEF Working
  <2>4. QED
    BY <1>6, <2>2, <2>3 DEF CheckQueue
<1>7. CASE AdmissionFails(d)
  BY <1>4, <1>7 DEF AdmissionFails, RemoveEntry, Working
<1>8. CASE TakeBatch(d)
  <2>1. stage[d] \in Working /\ stage[d] # "reserved"
    BY <1>8 DEF TakeBatch, Working
  <2>2. CASE RemoveEntry /\ To(d, "leave")
    BY <1>4, <2>1, <2>2 DEF RemoveEntry
  <2>3. CASE To(d, "write") /\ UNCHANGED waiting
    BY <1>3, <2>1, <2>3 DEF Working
  <2>4. QED
    BY <1>8, <2>2, <2>3 DEF TakeBatch
\* A drain that leaves has removed its entry: a successor's is not touched.
<1>9. CASE Leave(d)
  <2>1. stage[d] = "leave" /\ stage[d] \notin Working
    BY <1>9 DEF Leave, Working
  <2>2. generation # d
    BY <2>1, NobodyIsNoDrain DEF Ownership, ReservationsAreLive
  <2>3. UNCHANGED waiting
    BY <1>9, <2>2, StrangerDrops DEF Leave
  <2>4. stage'[d] = "ended" /\ \A c \in Drain \ {d} : stage'[c] = stage[c]
    BY <1>1, <1>9 DEF Leave, Stages
  <2>5. QED
    BY <1>2, <2>1, <2>3, <2>4 DEF DrainMoves, Working
<1>10. CASE Cancel(d)
  <2>1. stage[d] \in Working /\ stage[d] # "reserved"
    BY <1>10 DEF Cancel, Working
  <2>2. waiting' = Nobody
    BY <1>10, <2>1, OwnerDrops DEF Cancel, Ownership
  <2>3. QED
    BY <1>4, <1>10, <2>1, <2>2 DEF Cancel
<1>11. QED
  BY <1>5, <1>6, <1>7, <1>8, <1>9, <1>10 DEF DrainStep

\* And so do those of its closure.
LEMMA ClosureMovesStep ==
  ASSUME TypeOK, Holding, NEW d \in Drain, ClosureStep(d)
  PROVE  DrainMoves(d)
<1> USE DEF queueVars, drainVars, slotVars, callers
<1>1. closure[d] # "none" /\ stage[d] \in {"write", "ended"}
  BY DEF ClosureStep, BatchOpens, BatchCannotOpen, BatchFindsReindex, WriteRow,
         RowFindsSlotEmpty, Holding, Holds
<1>2. UNCHANGED <<waiting, wpc, wgen, spc, handle, asked>>
  BY DEF ClosureStep, BatchOpens, BatchCannotOpen, BatchFindsReindex, WriteRow,
         RowFindsSlotEmpty
<1>3. UNCHANGED stage \/ stage' = [stage EXCEPT ![d] = IF @ = "write" THEN "lock" ELSE @]
  BY DEF ClosureStep, BatchOpens, BatchCannotOpen, BatchFindsReindex, WriteRow,
         RowFindsSlotEmpty, RowsLeft
<1>4. /\ \A c \in Drain \ {d} : stage'[c] = stage[c]
      /\ stage'[d] = stage[d] \/ (stage[d] = "write" /\ stage'[d] = "lock")
  BY <1>3 DEF TypeOK
<1>5. QED
  BY <1>1, <1>2, <1>4 DEF DrainMoves, Working

\* A drain that ends its work, unless it is cancelled, leaves no row behind: it
\* holds the slot, so no closure writes, and it found or made the queue empty.
LEMMA WorkEnds ==
  ASSUME TypeOK, Holding, NEW d \in Drain, DrainStep(d),
         stage[d] \in Working, stage'[d] \notin Working
  PROVE  Pending' = {}
<1> USE DEF queueVars, drainVars, slotVars, callers
<1>1. \A st \in Stages : To(d, st) => stage'[d] = st
  BY DEF To, TypeOK
<1>2. /\ stage[d] \in {"check", "admit", "take"} /\ RemoveEntry
      /\ UNCHANGED <<rows, batch, closure>>
  <2>1. ~ (WaitedOut(d) \/ LockSlot(d) \/ Admitted(d))
    BY <1>1 DEF WaitedOut, LockSlot, Admitted, Working, Stages
  <2>2. ~ Leave(d)
    BY DEF Leave, Working
  <2>3. CASE CheckQueue(d)
    <3>1. ~ To(d, "admit")
      BY <1>1 DEF Working, Stages
    <3>2. QED
      BY <2>3, <3>1 DEF CheckQueue
  <2>4. CASE AdmissionFails(d)
    BY <2>4 DEF AdmissionFails
  <2>5. CASE TakeBatch(d)
    <3>1. ~ To(d, "write")
      BY <1>1 DEF Working, Stages
    <3>2. QED
      BY <2>5, <3>1 DEF TakeBatch
  <2>6. QED
    BY <2>1, <2>2, <2>3, <2>4, <2>5 DEF DrainStep
<1>3. slot = d /\ closure[d] = "none"
  BY <1>2 DEF Holding, Holds
<1>4. \A c \in Drain : batch[c] = {}
  BY <1>3 DEF Holding, Holds
<1>5. Queued' = {}
  BY <1>2 DEF RemoveEntry, Queued, TypeOK
<1>6. QED
  BY <1>2, <1>4, <1>5 DEF Pending

\* Drains and closures keep the handles.
LEMMA HandleMoves ==
  ASSUME Ownership, HandleInv, NEW d \in Drain, DrainMoves(d)
  PROVE  HandleInv'
<1>1. \A c : Spawned(c) => Spawned(c)'
  BY DEF Spawned, DrainMoves
<1>2. ASSUME NEW c \in Drain, stage'[c] \in Working
      PROVE  stage[c] \in Working /\ UNCHANGED waiting
  BY <1>2 DEF DrainMoves, Ownership
<1>3. UNCHANGED <<wpc, wgen, spc, handle>> /\ waiting' \in {waiting, Nobody}
  BY DEF DrainMoves
<1>4. ASSUME NEW c \in Drain, stage'[c] \in Working
      PROVE  \/ waiting' = c
             \/ \E s \in Settler : spc'[s] \in {"await", "aborted"} /\ handle'[s] = c
             \/ \E w \in Writer : wpc'[w] # "idle" /\ wgen'[w] = c
  BY <1>2, <1>3, <1>4 DEF HandleInv
<1>5. QED
  BY <1>1, <1>3, <1>4 DEF HandleInv

\* So does everybody else.
LEMMA HandleStep ==
  ASSUME TypeOK, TypeOK', Ownership, Holding, HandleInv, [Next]_vars
  PROVE  HandleInv'
<1> USE DEF queueVars, drainVars, slotVars, callers
<1>1. ASSUME NEW w \in Writer, Enqueue(w) PROVE HandleInv'
  <2>1. UNCHANGED <<waiting, spc, handle>>
    BY <1>1 DEF Enqueue
  <2>2. CASE ReservationHeld
    BY <1>1, <2>1, <2>2 DEF Enqueue, HandleInv, Spawned
  <2>3. CASE ~ ReservationHeld
    <3>1. generation = Nobody
      BY <2>3 DEF ReservationHeld, Ownership, ReservationsAreLive, Working
    <3>2. \A d \in Drain : stage[d] \notin Working
      BY <3>1, NobodyIsNoDrain DEF Ownership
    <3>3. /\ drains' = drains + 1 /\ drains' \in Drain
          /\ stage' = [stage EXCEPT ![drains'] = "reserved"]
          /\ wpc' = [wpc EXCEPT ![w] = "spawn"] /\ wgen' = [wgen EXCEPT ![w] = drains']
      BY <1>1, <2>3, QueueAssumption DEF Enqueue, To, TypeOK, QueueAssumption, Drain
    <3>4. /\ \A d \in Drain \ {drains'} : stage'[d] = stage[d]
          /\ wpc'[w] = "spawn" /\ wgen'[w] = drains'
          /\ \A v \in Writer \ {w} : wpc'[v] = wpc[v] /\ wgen'[v] = wgen[v]
      BY <3>3 DEF TypeOK
    <3>5. stage[drains'] = "unborn"
      BY <3>3 DEF Ownership, TypeOK, Drain
    <3>6. \A c : Spawned(c) => Spawned(c)'
      BY <3>4, <3>5 DEF Spawned
    <3>7. \A d \in Drain : stage'[d] \in Working => wpc'[w] # "idle" /\ wgen'[w] = d
      BY <3>2, <3>4
    <3>8. \A v \in Writer : wpc'[v] = "publish" => Spawned(wgen[v])' /\ wgen'[v] = wgen[v]
      BY <3>4, <3>6 DEF HandleInv
    <3>9. \A v \in Writer : wpc'[v] = "publish" => Spawned(wgen[v])'
      BY <3>8
    <3>10. waiting' # Nobody => Spawned(waiting)'
      BY <2>1, <3>6 DEF HandleInv
    <3>11. \A s \in Settler : spc'[s] \in {"await", "aborted"} => Spawned(handle[s])'
      BY <2>1, <3>6 DEF HandleInv
    <3>12. QED
      BY <3>7, <3>9, <3>10, <3>11 DEF HandleInv
  <2>4. QED
    BY <2>2, <2>3
<1>2. ASSUME NEW w \in Writer, Spawn(w) PROVE HandleInv'
  <2>1. wgen[w] \in Drain /\ stage[wgen[w]] = "reserved"
    BY <1>2 DEF Spawn, Ownership
  <2>2. /\ stage'[wgen[w]] = "wait" /\ \A d \in Drain \ {wgen[w]} : stage'[d] = stage[d]
        /\ wpc'[w] = "publish" /\ \A v \in Writer \ {w} : wpc'[v] = wpc[v]
        /\ UNCHANGED <<waiting, wgen, spc, handle>>
    BY <1>2, <2>1 DEF Spawn, To, TypeOK
  <2>3. \A c : (Spawned(c) \/ c = wgen[w]) => Spawned(c)'
    BY <2>1, <2>2 DEF Spawned
  <2>4. \A d \in Drain : stage'[d] \in Working => stage[d] \in Working
    BY <2>1, <2>2 DEF Working
  <2>5. \A v \in Writer : wpc[v] # "idle" => wpc'[v] # "idle"
    BY <2>2
  <2>6. ASSUME NEW d \in Drain, stage'[d] \in Working
        PROVE  \/ waiting' = d
               \/ \E s \in Settler : spc'[s] \in {"await", "aborted"} /\ handle'[s] = d
               \/ \E v \in Writer : wpc'[v] # "idle" /\ wgen'[v] = d
    BY <2>2, <2>4, <2>5, <2>6 DEF HandleInv
  <2>7. QED
    BY <2>2, <2>3, <2>6 DEF HandleInv
\* A refused spawn takes the entry's reservation, and nobody works.
<1>3. ASSUME NEW w \in Writer, SpawnRefused(w) PROVE HandleInv'
  <2>1. wgen[w] \in Drain /\ stage[wgen[w]] = "reserved" /\ stage[wgen[w]] \in Working
    BY <1>3 DEF SpawnRefused, Ownership, Working
  <2>2. /\ stage'[wgen[w]] = "ended" /\ \A d \in Drain \ {wgen[w]} : stage'[d] = stage[d]
        /\ wpc'[w] = "publish" /\ \A v \in Writer \ {w} : wpc'[v] = wpc[v]
        /\ UNCHANGED <<wgen, spc, handle>>
    BY <1>3, <2>1 DEF SpawnRefused, To, TypeOK
  <2>3. \A c : (Spawned(c) \/ c = wgen[w]) => Spawned(c)'
    BY <2>1, <2>2 DEF Spawned
  <2>4. \A d \in Drain : stage'[d] \notin Working
    BY <2>1, <2>2 DEF Ownership, Working
  <2>5. waiting' = Nobody
    BY <1>3, <2>1, OwnerDrops DEF SpawnRefused, Ownership
  <2>6. QED
    BY <2>2, <2>3, <2>4, <2>5 DEF HandleInv
<1>4. ASSUME NEW w \in Writer, Publish(w) PROVE HandleInv'
  <2>1. Spawned(wgen[w])
    BY <1>4 DEF Publish, HandleInv
  <2>2. /\ waiting' = (IF present /\ generation = wgen[w] THEN wgen[w] ELSE waiting)
        /\ \A v \in Writer \ {w} : wpc'[v] = wpc[v] /\ wgen'[v] = wgen[v]
        /\ wpc'[w] = "idle" /\ UNCHANGED <<present, generation, stage, spc, handle>>
    BY <1>4 DEF Publish, TypeOK
  <2>3. \A c : Spawned(c) => Spawned(c)'
    BY <2>2 DEF Spawned
  <2>4. ASSUME NEW d \in Drain, stage'[d] \in Working
        PROVE  \/ waiting' = d
               \/ \E s \in Settler : spc'[s] \in {"await", "aborted"} /\ handle'[s] = d
               \/ \E v \in Writer : wpc'[v] # "idle" /\ wgen'[v] = d
    <3>1. present /\ generation = d
      BY <2>2, <2>4 DEF Ownership
    <3>2. CASE \E v \in Writer : wpc[v] # "idle" /\ wgen[v] = d
      BY <2>2, <3>1, <3>2
    <3>3. CASE waiting = d
      BY <2>2, <3>1, <3>3
    <3>4. CASE \E s \in Settler : spc[s] \in {"await", "aborted"} /\ handle[s] = d
      BY <2>2, <3>4
    <3>5. QED
      BY <2>2, <2>4, <3>2, <3>3, <3>4 DEF HandleInv
  <2>5. waiting' # Nobody => Spawned(waiting)'
    <3>1. waiting' = wgen[w] \/ waiting' = waiting
      BY <2>2
    <3>2. waiting' # Nobody => Spawned(waiting')
      BY <2>1, <3>1 DEF HandleInv
    <3>3. QED
      BY <2>2, <3>2 DEF Spawned
  <2>6. QED
    BY <2>2, <2>3, <2>4, <2>5 DEF HandleInv
<1>5. ASSUME NEW d \in Drain, DrainStep(d) \/ ClosureStep(d) \/ Cancel(d) PROVE HandleInv'
  BY <1>5, DrainMovesStep, ClosureMovesStep, HandleMoves
<1>6. ASSUME NEW s \in Settler, SettleTakes(s) PROVE HandleInv'
  <2>1. /\ Spawned(waiting) /\ handle'[s] = waiting /\ spc'[s] = "await" /\ spc[s] = "take"
        /\ \A t \in Settler \ {s} : handle'[t] = handle[t] /\ spc'[t] = spc[t]
        /\ waiting' = Nobody /\ UNCHANGED <<stage, wpc, wgen>>
    BY <1>6 DEF SettleTakes, HandleInv, TypeOK
  <2>2. \A c : Spawned(c) => Spawned(c)'
    BY <2>1 DEF Spawned
  <2>3. ASSUME NEW d \in Drain, stage'[d] \in Working
        PROVE  \/ waiting' = d
               \/ \E t \in Settler : spc'[t] \in {"await", "aborted"} /\ handle'[t] = d
               \/ \E v \in Writer : wpc'[v] # "idle" /\ wgen'[v] = d
    BY <2>1, <2>3 DEF HandleInv
  <2>4. ASSUME NEW t \in Settler, spc'[t] \in {"await", "aborted"} PROVE Spawned(handle[t])'
    <3>1. Spawned(handle'[t])
      BY <2>1, <2>4 DEF HandleInv
    <3>2. QED
      BY <2>1, <3>1 DEF Spawned
  <2>5. QED
    BY <2>1, <2>2, <2>3, <2>4 DEF HandleInv
\* A settlement keeps its handle until the drain ended.
<1>7. ASSUME NEW s \in Settler,
             \/ SettleCalled(s) \/ SettleReturns(s) \/ SettleAwaited(s) \/ SettleAborts(s)
      PROVE  HandleInv'
  <2>1. UNCHANGED <<waiting, stage, wpc, wgen>>
    BY <1>7 DEF SettleCalled, SettleReturns, SettleAwaited, SettleAborts
  <2>2. \A t \in Settler \ {s} : handle'[t] = handle[t] /\ spc'[t] = spc[t]
    BY <1>7 DEF SettleCalled, SettleReturns, SettleAwaited, SettleAborts, TypeOK
  <2>3. spc'[s] \in {"await", "aborted"} => handle'[s] = handle[s] /\ spc[s] = "await"
    BY <1>7 DEF SettleCalled, SettleReturns, SettleAwaited, SettleAborts, TypeOK
  <2>4. \/ spc[s] \in {"await", "aborted"} => spc'[s] \in {"await", "aborted"} /\ handle'[s] = handle[s]
        \/ stage[handle[s]] = "ended"
    BY <1>7 DEF SettleCalled, SettleReturns, SettleAwaited, SettleAborts, TypeOK
  <2>5. ASSUME NEW d \in Drain, stage'[d] \in Working
        PROVE  \/ waiting' = d
               \/ \E t \in Settler : spc'[t] \in {"await", "aborted"} /\ handle'[t] = d
               \/ \E v \in Writer : wpc'[v] # "idle" /\ wgen'[v] = d
    <3>1. stage[d] # "ended" /\ stage[d] \in Working
      BY <2>1, <2>5 DEF Working
    <3>2. CASE \E t \in Settler : spc[t] \in {"await", "aborted"} /\ handle[t] = d
      BY <2>2, <2>4, <3>1, <3>2
    <3>3. QED
      BY <2>1, <3>1, <3>2 DEF HandleInv
  <2>6. ASSUME NEW t \in Settler, spc'[t] \in {"await", "aborted"} PROVE Spawned(handle[t])'
    <3>1. Spawned(handle[t]) /\ handle'[t] = handle[t]
      BY <2>2, <2>3, <2>6 DEF HandleInv
    <3>2. QED
      BY <2>1, <3>1 DEF Spawned
  <2>7. QED
    BY <2>1, <2>5, <2>6 DEF HandleInv, Spawned
<1>8. CASE \/ SlotOpened \/ SlotClosed \/ ReindexStarts \/ ReindexRestores \/ ReindexEnds
           \/ UNCHANGED vars
  <2>1. UNCHANGED <<waiting, stage, wpc, wgen, spc, handle>>
    BY <1>8 DEF SlotOpened, SlotClosed, ReindexStarts, ReindexRestores, ReindexEnds, vars
  <2>2. QED
    BY <2>1 DEF HandleInv, Spawned
<1>9. QED
  BY <1>1, <1>2, <1>3, <1>4, <1>5, <1>6, <1>7, <1>8 DEF Next

\* Nobody loses the handle of a drain that works (write_behind_slot publishes it under
\* the reservation, settle_deferred_writes takes it and awaits it).
THEOREM HandlesAreKept == Spec => []HandleInv
<1>1. Init => HandleInv
  BY DEF Init, HandleInv, Working
<1>2. TypeOK /\ TypeOK' /\ Ownership /\ Holding /\ HandleInv /\ [Next]_vars => HandleInv'
  BY HandleStep
<1>3. QED
  BY <1>1, <1>2, QueueTyping, QueueOwnership, SlotHolding, PTL DEF Spec

-----------------------------------------------------------------------------
(* A settlement that is alone sees its rows written.                        *)

\* A step that leaves settlements alone, the handle in the entry too, and the work of
\* every spawned drain.
LEMMA SettlersStandBy ==
  ASSUME TypeOK, TypeOK', RowsFlow, HandleInv, SettleInv,
         UNCHANGED <<spc, handle, asked>>,
         waiting # Nobody => waiting' # Nobody,
         \A d \in Drain : Spawned(d) /\ stage[d] \in Working => stage'[d] \in Working
  PROVE  SettleInv'
<1>1. \A d \in Drain : 0 \notin batch'[d]
  BY DEF RowsFlow, SettleInv, Queued, TypeOK
<1>2. ASSUME NEW s \in Settler
      PROVE  /\ asked'[s] =< rows'
             /\ spc'[s] = "take" => waiting' # Nobody \/ Seen(s)'
             /\ spc'[s] = "await" => stage'[handle'[s]] \in Working \/ Seen(s)'
  <2>1. asked[s] =< rows /\ asked'[s] = asked[s] /\ asked[s] \in Nat
    BY DEF SettleInv, TypeOK
  <2>2. Seen(s) => Seen(s)'
    BY <2>1, SeenStays
  <2>3. asked'[s] =< rows'
    BY <2>1 DEF RowsFlow, TypeOK
  <2>4. spc[s] = "await" => Spawned(handle[s]) /\ handle[s] \in Drain
    BY DEF HandleInv, Spawned
  <2>5. QED
    BY <2>2, <2>3, <2>4 DEF SettleInv
<1>3. QED
  BY <1>1, <1>2 DEF SettleInv

\* No step of the program, while settlements do not overlap, lets one miss its rows.
LEMMA SettleStep ==
  ASSUME TypeOK, TypeOK', Ownership, Holding, HandleInv, SettleInv, Alone, Alone', [Next]_vars
  PROVE  SettleInv'
<1> USE DEF queueVars, drainVars, slotVars, callers
<1>0. RowsFlow
  BY RowsFlowStep
<1>00. \A d \in Drain : 0 \notin batch'[d]
  BY <1>0 DEF RowsFlow, SettleInv, Queued, TypeOK
<1>1. ASSUME NEW w \in Writer, Enqueue(w) PROVE SettleInv'
  <2>1. UNCHANGED <<waiting, spc, handle, asked>>
    BY <1>1 DEF Enqueue
  <2>2. \A d \in Drain : Spawned(d) => stage'[d] = stage[d]
    <3>1. CASE ReservationHeld
      BY <1>1, <3>1 DEF Enqueue
    <3>2. CASE ~ ReservationHeld
      <4>1. drains' = drains + 1 /\ drains' \in Drain /\ stage' = [stage EXCEPT ![drains'] = "reserved"]
        BY <1>1, <3>2, QueueAssumption DEF Enqueue, To, TypeOK, QueueAssumption, Drain
      <4>2. stage[drains'] = "unborn"
        BY <4>1 DEF Ownership, TypeOK, Drain
      <4>3. QED
        BY <4>1, <4>2 DEF Spawned, TypeOK
    <3>3. QED
      BY <3>1, <3>2
  <2>3. QED
    BY <1>0, <2>1, <2>2, SettlersStandBy
\* The drain of a writer that has not spawned has no handle anywhere.
<1>2. ASSUME NEW w \in Writer, Spawn(w) \/ SpawnRefused(w) PROVE SettleInv'
  <2>1. wgen[w] \in Drain /\ stage[wgen[w]] = "reserved" /\ stage[wgen[w]] \in Working
    BY <1>2 DEF Spawn, SpawnRefused, Ownership, Working
  <2>2. PICK st \in {"wait", "ended"} : To(wgen[w], st)
    BY <1>2 DEF Spawn, SpawnRefused
  <2>3. \A d \in Drain : Spawned(d) => stage'[d] = stage[d]
    BY <2>1, <2>2 DEF To, Spawned, TypeOK
  <2>4. waiting = Nobody
    <3>1. waiting # Nobody => waiting = wgen[w] /\ Spawned(waiting)
      BY <2>1 DEF HandleInv, Ownership, ReservationsAreLive
    <3>2. QED
      BY <2>1, <3>1 DEF Spawned
  <2>5. UNCHANGED <<spc, handle, asked>>
    BY <1>2 DEF Spawn, SpawnRefused
  <2>6. QED
    BY <1>0, <2>3, <2>4, <2>5, SettlersStandBy
<1>3. ASSUME NEW w \in Writer, Publish(w) PROVE SettleInv'
  <2>1. wgen[w] \in Drain
    BY <1>3 DEF Publish, TypeOK
  <2>2. UNCHANGED <<stage, spc, handle, asked>> /\ (waiting # Nobody => waiting' # Nobody)
    BY <1>3, <2>1, NobodyIsNoDrain DEF Publish
  <2>3. QED
    BY <1>0, <2>2, SettlersStandBy
<1>4. ASSUME NEW d \in Drain, DrainStep(d) \/ ClosureStep(d) \/ Cancel(d) PROVE SettleInv'
  <2>1. DrainMoves(d)
    BY <1>4, DrainMovesStep, ClosureMovesStep
  <2>2. UNCHANGED <<spc, handle, asked>>
    BY <2>1 DEF DrainMoves
  <2>3. CASE UNCHANGED waiting /\ (stage'[d] \in Working <=> stage[d] \in Working)
    <3>1. \A c \in Drain : stage[c] \in Working => stage'[c] \in Working
      BY <2>1, <2>3 DEF DrainMoves
    <3>2. QED
      BY <1>0, <2>2, <2>3, <3>1, SettlersStandBy
  <2>4. CASE stage[d] \in Working /\ stage'[d] \notin Working
    \* A cancelled drain was aborted by the only settlement, which asks no more.
    <3>1. CASE Cancel(d)
      <4>1. PICK t \in Settler : spc[t] = "aborted"
        BY <3>1 DEF Cancel
      <4>2. \A s \in Settler : spc'[s] \notin {"take", "await"}
        BY <2>2, <4>1 DEF Alone
      <4>3. \A s \in Settler : asked'[s] =< rows'
        BY <1>0, <2>2 DEF RowsFlow, SettleInv, TypeOK
      <4>4. QED
        BY <1>00, <4>2, <4>3 DEF SettleInv
    <3>2. CASE DrainStep(d)
      <4>1. Pending' = {}
        BY <2>4, <3>2, WorkEnds
      <4>2. \A s \in Settler : Seen(s)'
        BY <4>1 DEF Seen
      <4>3. \A s \in Settler : asked'[s] =< rows'
        BY <1>0, <2>2 DEF RowsFlow, SettleInv, TypeOK
      <4>4. QED
        BY <1>00, <4>2, <4>3 DEF SettleInv
    <3>3. CASE ClosureStep(d)
      <4>1. UNCHANGED waiting
        BY <3>3 DEF ClosureStep, BatchOpens, BatchCannotOpen, BatchFindsReindex, WriteRow,
                    RowFindsSlotEmpty
      <4>2. stage[d] \in {"write", "ended"}
        BY <3>3 DEF ClosureStep, BatchOpens, BatchCannotOpen, BatchFindsReindex, WriteRow,
                    RowFindsSlotEmpty, Holding, Holds
      <4>3. stage'[d] \in {"write", "lock", "ended"} /\ (stage[d] = "write" => stage'[d] # "ended")
        BY <3>3, <4>2 DEF ClosureStep, BatchOpens, BatchCannotOpen, BatchFindsReindex, WriteRow,
                    RowFindsSlotEmpty, RowsLeft, TypeOK
      <4>4. QED
        BY <2>4, <4>2, <4>3 DEF Working
    <3>4. QED
      BY <1>4, <3>1, <3>2, <3>3
  <2>5. QED
    BY <2>1, <2>3, <2>4 DEF DrainMoves
\* Called while a drain works and no writer is about to publish: its handle is there.
<1>5. ASSUME NEW s \in Settler, SettleCalled(s) PROVE SettleInv'
  <2>1. /\ spc[s] = "idle" /\ spc'[s] = "take" /\ \A t \in Settler \ {s} : spc'[t] = spc[t]
        /\ UNCHANGED <<rows, taken, waiting, batch, stage, handle, wpc, wgen>>
        /\ \A t \in Settler \ {s} : asked'[t] = asked[t]
    BY <1>5 DEF SettleCalled, TypeOK
  <2>2. \A t \in Settler \ {s} : spc'[t] = "idle" /\ spc[t] = "idle"
    BY <2>1 DEF Alone, TypeOK
  <2>3. CASE (\A w \in Writer : wpc[w] = "idle") /\ (\E d \in Drain : stage[d] \in Working)
    <3>1. asked'[s] = rows
      BY <1>5, <2>3 DEF SettleCalled, TypeOK
    <3>2. waiting # Nobody
      BY <2>1, <2>2, <2>3, NobodyIsNoDrain DEF HandleInv
    <3>3. \A t \in Settler : asked'[t] =< rows'
      BY <2>1, <3>1 DEF SettleInv, TypeOK
    <3>4. QED
      BY <1>00, <2>1, <2>2, <3>2, <3>3 DEF SettleInv
  <2>4. CASE ~ ((\A w \in Writer : wpc[w] = "idle") /\ (\E d \in Drain : stage[d] \in Working))
    <3>1. asked'[s] = 0
      BY <1>5, <2>4 DEF SettleCalled, TypeOK
    <3>2. \A r \in Pending' : r > 0
      <4>1. \A d \in Drain : \A r \in batch'[d] : r > 0
        BY <1>00 DEF TypeOK
      <4>2. \A r \in Queued : r > 0
        BY DEF Queued, TypeOK
      <4>3. Queued' = Queued
        BY <2>1 DEF Queued
      <4>4. QED
        BY <4>1, <4>2, <4>3 DEF Pending
    <3>3. Seen(s)'
      BY <3>1, <3>2 DEF Seen
    <3>4. \A t \in Settler : asked'[t] =< rows'
      BY <2>1, <3>1 DEF SettleInv, TypeOK
    <3>5. QED
      BY <1>00, <2>1, <2>2, <3>3, <3>4 DEF SettleInv
  <2>5. QED
    BY <2>3, <2>4
<1>6. ASSUME NEW s \in Settler, SettleTakes(s) PROVE SettleInv'
  <2>1. /\ spc[s] = "take" /\ spc'[s] = "await" /\ \A t \in Settler \ {s} : spc'[t] = spc[t]
        /\ handle'[s] = waiting /\ waiting # Nobody
        /\ UNCHANGED <<rows, stage, asked>>
    BY <1>6 DEF SettleTakes, TypeOK
  <2>2. \A t \in Settler \ {s} : spc'[t] = "idle"
    BY <2>1 DEF Alone, TypeOK
  <2>3. stage'[handle'[s]] \in Working
    BY <2>1, NobodyIsNoDrain DEF Ownership, ReservationsAreLive
  <2>4. \A t \in Settler : asked'[t] =< rows'
    BY <2>1 DEF SettleInv
  <2>5. QED
    BY <1>00, <2>1, <2>2, <2>3, <2>4 DEF SettleInv
\* The awaited drain ended, so its rows were seen out.
<1>7. ASSUME NEW s \in Settler, SettleReturns(s) \/ SettleAwaited(s) \/ SettleAborts(s)
      PROVE  SettleInv'
  <2>1. UNCHANGED <<rows, taken, batch, waiting, stage, asked>>
    BY <1>7 DEF SettleReturns, SettleAwaited, SettleAborts
  <2>2. \A t \in Settler \ {s} : spc'[t] = spc[t] /\ handle'[t] = handle[t]
    BY <1>7 DEF SettleReturns, SettleAwaited, SettleAborts, TypeOK
  <2>3. /\ spc'[s] # "await"
        /\ spc'[s] = "take" => spc[s] = "await" /\ stage[handle[s]] = "ended"
    BY <1>7 DEF SettleReturns, SettleAwaited, SettleAborts, TypeOK
  <2>4. \A t \in Settler : Seen(t) => Seen(t)'
    BY <1>0, <2>1, SeenStays DEF SettleInv
  <2>5. spc'[s] = "take" => Seen(s)'
    BY <2>3, <2>4 DEF SettleInv, Working
  <2>6. ASSUME NEW t \in Settler
        PROVE  /\ asked'[t] =< rows'
               /\ spc'[t] = "take" => waiting' # Nobody \/ Seen(t)'
               /\ spc'[t] = "await" => stage'[handle'[t]] \in Working \/ Seen(t)'
    <3>1. CASE t = s
      BY <2>1, <2>3, <2>5, <3>1 DEF SettleInv
    <3>2. CASE t # s
      BY <2>1, <2>2, <2>4, <3>2 DEF SettleInv
    <3>3. QED
      BY <3>1, <3>2
  <2>7. QED
    BY <1>00, <2>6 DEF SettleInv
<1>8. CASE \/ SlotOpened \/ SlotClosed \/ ReindexStarts \/ ReindexRestores \/ ReindexEnds
           \/ UNCHANGED vars
  <2>1. UNCHANGED <<waiting, stage, spc, handle, asked>>
    BY <1>8 DEF SlotOpened, SlotClosed, ReindexStarts, ReindexRestores, ReindexEnds, vars
  <2>2. QED
    BY <1>0, <2>1, SettlersStandBy
<1>9. QED
  BY <1>1, <1>2, <1>3, <1>4, <1>5, <1>6, <1>7, <1>8 DEF Next

\* A settlement returns only over rows queued after it was called: every row it
\* was to wait for is written.
LEMMA ReturnsSeen ==
  ASSUME TypeOK, Ownership, SettleInv, NEW s \in Settler, SettleReturns(s)
  PROVE  \A r \in Queued \cup UNION {batch[d] : d \in Drain} : r > asked[s]
<1>1. waiting = Nobody
  BY NobodyIsNoDrain DEF SettleReturns, Ownership, ReservationsAreLive
<1>2. Seen(s)
  BY <1>1 DEF SettleReturns, SettleInv
<1>3. QED
  BY <1>2 DEF Seen, Pending

\* While settlements of a slot do not overlap, each of them returns only when the rows
\* queued before it was called are written (settle_deferred_writes), for any number
\* of writers, drains, cancelled drains and refused spawns.
THEOREM SettledRowsAreWritten == Spec /\ []Alone => SettleObservesQueue
<1>1. Init => SettleInv
  BY QueueAssumption DEF Init, SettleInv, QueueAssumption
<1>2. /\ TypeOK /\ TypeOK' /\ Ownership /\ Holding /\ HandleInv /\ SettleInv
      /\ Alone /\ Alone' /\ [Next]_vars
      => SettleInv'
  BY SettleStep
<1>3. TypeOK /\ Ownership /\ SettleInv =>
        \A s \in Settler :
          SettleReturns(s) /\ (\E d \in Drain : stage[d] \in Working)
          => \A r \in Queued \cup UNION {batch[d] : d \in Drain} : r > asked[s]
  BY ReturnsSeen
<1>4. QED
  BY <1>1, <1>2, <1>3, QueueTyping, QueueOwnership, SlotHolding, HandlesAreKept, PTL
     DEF Spec, SettleObservesQueue

\* A slot whose only caller of settle_deferred_writes is one task needs no premise.
\* (settle_deferred_writes, as the run checks it).
THEOREM OneSettlerSeesItsRows ==
  ASSUME \A s, t \in Settler : s = t
  PROVE  Spec => SettleObservesQueue
<1>1. Alone
  BY DEF Alone
<1>2. []Alone
  BY <1>1, PTL
<1>3. QED
  BY <1>2, SettledRowsAreWritten, PTL

-----------------------------------------------------------------------------
(* No row waits behind a drain that is no more.                             *)

\* A drain that has work ends, by itself, cancelled or refused.
DrainsEnd == \A d \in Drain : stage[d] \in Working => <>(stage[d] \notin Working)

\* A reservation passes to nobody else: it is released first.
LEMMA ReservationsAreReleased ==
  ASSUME TypeOK, Ownership, [Next]_vars, NEW d \in Drain, generation = d
  PROVE  generation' \in {d, Nobody}
<1>1. ReservationHeld
  <2>1. present /\ stage[d] \in Working /\ (waiting # Nobody => waiting = d)
    BY NobodyIsNoDrain DEF Ownership, ReservationsAreLive
  <2>2. QED
    BY <2>1, NobodyIsNoDrain DEF ReservationHeld, Working
<1>2. ASSUME NEW w \in Writer, Enqueue(w) PROVE generation' = d
  BY <1>1, <1>2 DEF Enqueue
<1>3. ASSUME NEW e \in Drain, DropReceipt(e) PROVE generation' \in {d, Nobody}
  BY <1>3 DEF DropReceipt, RemoveEntry
<1>4. ASSUME NEW w \in Writer, Spawn(w) \/ SpawnRefused(w) \/ Publish(w)
      PROVE  generation' \in {d, Nobody}
  <2>1. CASE SpawnRefused(w)
    BY <2>1 DEF SpawnRefused, DropReceipt, RemoveEntry
  <2>2. CASE Spawn(w) \/ Publish(w)
    BY <2>2 DEF Spawn, Publish, queueVars
  <2>3. QED
    BY <1>4, <2>1, <2>2
<1>5. ASSUME NEW e \in Drain, DrainStep(e) \/ ClosureStep(e) \/ Cancel(e)
      PROVE  generation' \in {d, Nobody}
  <2>1. CASE Leave(e) \/ Cancel(e)
    BY <1>3, <2>1 DEF Leave, Cancel
  <2>2. CASE DrainStep(e) /\ ~Leave(e)
    BY <2>2 DEF DrainStep, WaitedOut, LockSlot, CheckQueue, Admitted, AdmissionFails, TakeBatch,
                RemoveEntry, queueVars
  <2>3. CASE ClosureStep(e)
    BY <2>3 DEF ClosureStep, BatchOpens, BatchCannotOpen, BatchFindsReindex, WriteRow,
                RowFindsSlotEmpty, queueVars
  <2>4. QED
    BY <1>5, <2>1, <2>2, <2>3
<1>6. ASSUME NEW s \in Settler,
             \/ SettleCalled(s) \/ SettleTakes(s) \/ SettleReturns(s)
             \/ SettleAwaited(s) \/ SettleAborts(s)
      PROVE  generation' = d
  BY <1>6 DEF SettleCalled, SettleTakes, SettleReturns, SettleAwaited, SettleAborts, queueVars
<1>7. CASE SlotOpened \/ SlotClosed \/ ReindexStarts \/ ReindexRestores \/ ReindexEnds \/ UNCHANGED vars
  BY <1>7 DEF SlotOpened, SlotClosed, ReindexStarts, ReindexRestores, ReindexEnds, vars, queueVars
<1>8. QED
  BY <1>2, <1>4, <1>5, <1>6, <1>7 DEF Next

\* The end of one drain is the end of its reservation.
LEMMA ReservationEnds ==
  ASSUME NEW d \in Drain
  PROVE  []TypeOK /\ []Ownership /\ [][Next]_vars
         /\ (stage[d] \in Working => <>(stage[d] \notin Working))
         => (generation = d => <>(generation = Nobody))
<1> DEFINE Reserved == generation = d
           Free == generation = Nobody
           Works == stage[d] \in Working
           Over == stage[d] \notin Working
<1>1. TypeOK /\ Ownership /\ [Next]_vars /\ Reserved => Reserved' \/ Free'
  BY ReservationsAreReleased
<1>2. (Ownership /\ Reserved => Works) /\ (Works => ~Over)
  BY NobodyIsNoDrain DEF Ownership, ReservationsAreLive
<1> HIDE DEF Reserved, Free, Works, Over
<1>3. []TypeOK /\ []Ownership /\ [][Next]_vars /\ (Works => <>Over) => (Reserved => <>Free)
  BY <1>1, <1>2, PTL
<1>4. QED
  BY <1>3 DEF Reserved, Free, Works, Over

\* A row does not outwait its drain: when drains end, each queued row is taken from
\* the queue, or the reservation is given back for the next caller to renew
\* (write_behind_slot, DeferredDrain::drop).
THEOREM RowsLeaveInTheEnd == Spec /\ []DrainsEnd => RowsLeave
<1> SUFFICES ASSUME NEW r \in 1..MaxRows
             PROVE  Spec /\ []DrainsEnd
                    => ((r \in Queued) ~> (r \notin Queued \/ generation = Nobody))
  BY DEF RowsLeave
<1> DEFINE Reserved == \E d \in Drain : generation = d
           Free == generation = Nobody
           Waits == r \in Queued
           Gone == r \notin Queued \/ generation = Nobody
<1>1. TypeOK /\ Waits => Reserved \/ Gone
  BY DEF TypeOK
<1>2. []TypeOK /\ []Ownership /\ [][Next]_vars /\ DrainsEnd => (Reserved => <>Free)
  BY ReservationEnds DEF DrainsEnd
<1>3. Free => Gone
  OBVIOUS
<1> HIDE DEF Reserved, Free, Waits, Gone
<1>4. Spec /\ []DrainsEnd => (Waits ~> Gone)
  BY <1>1, <1>2, <1>3, QueueTyping, QueueOwnership, PTL DEF Spec
<1>5. QED
  BY <1>4 DEF Waits, Gone

=============================================================================
