---------------------------- MODULE RegistryProofs ----------------------------
(***************************************************************************)
(* Proofs about Registry, for any requests, roots and capacity: the table  *)
(* never holds more roots than it may, no edit of a config file is missed, *)
(* the handles of a root share one store, watchers live and die with the   *)
(* handles they serve, and a handle that goes on serving gets its watcher. *)
(***************************************************************************)
EXTENDS Registry, FiniteSetTheorems, TLAPS

USE DEF UnderGate

\* What a request knows at each point.
Local ==
  \A c \in Request :
    /\ pc[c] # "idle" => wants[c] \in Root
    /\ pc[c] \in {"check", "reload", "spawn"} => chosen[c] \in Handle /\ chosen[c] \in held[c]
    /\ pc[c] = "open" => chosen[c] = NoHandle
    /\ pc[c] \in UnderGate =>
         /\ table[wants[c]] = chosen[c]
         /\ chosen[c] = NoHandle => Cardinality(Open) < Seats
    /\ pc[c] \in {"exists", "strict"} => chosen[c] # NoHandle

\* The identity request c read is not that of the file any more, or there is no file.
Behind(c) == noted[c] < disk[wants[c]].stamp \/ disk[wants[c]].kind = "absent"

\* What was read of a file stands for it, or the identity read before shows the change;
\* a reload without the file to read is behind from the start.
Readings ==
  \A c \in Request :
    /\ pc[c] \in UnderGate \ {"stamp"} => noted[c] <= disk[wants[c]].stamp
    /\ pc[c] = "lenient" => chosen[c] = NoHandle \/ Behind(c)
    /\ pc[c] = "priors" => \/ Behind(c)
                           \/ /\ read[c] = disk[wants[c]]
                              /\ chosen[c] # NoHandle => read[c].kind = "good"

\* Handles in use were created, and those in the table belong to their root.
Handles ==
  /\ \A r \in Root : table[r] # NoHandle =>
       table[r] <= born /\ of[table[r]] = r /\ table[r] \notin evicted
  /\ \A c \in Request : \A h \in held[c] : h <= born
  /\ \A h \in Handle :
       IF h <= born THEN of[h] \in Root ELSE of[h] = NoRoot /\ h \notin evicted

\* The identity is never newer than the file, and older where the config is not its.
Stamps ==
  \A r \in Root : table[r] # NoHandle =>
    /\ stamp[table[r]] <= disk[r].stamp
    /\ \/ config[table[r]] = Of(disk[r])
       \/ stamp[table[r]] < disk[r].stamp
       \/ disk[r].kind = "absent"

\* A live handle that was not evicted shares the store of the one in the table.
Shared ==
  \A h \in Live(table, held) \ evicted :
    table[of[h]] # NoHandle /\ store[h] = store[table[of[h]]]

IInv == TypeOK /\ Local /\ Readings /\ Handles /\ Stamps /\ Shared /\ Capacity

LEMMA Facts ==
  /\ NoHandle \notin Handle /\ NoRoot \notin Root /\ Nobody \notin Request
  /\ MaxActive \in Nat /\ MaxHandles \in Nat /\ MaxEdits \in Nat /\ IsFiniteSet(Root)
  /\ Seats \in Nat /\ Seats >= 1 /\ Seats >= MaxActive
  /\ \A h \in Handle : h \in Nat
  /\ \A s \in Stamp : s \in Int
  /\ \A v \in Version : v.stamp \in Nat /\ v.stamp \in Stamp /\ v.kind \in Kind
BY RegistryAssumption DEF RegistryAssumption, Seats, Handle, Stamp, NoStamp, Version

LEMMA OpenFacts == IsFiniteSet(Open) /\ Cardinality(Open) \in Nat
BY Facts, FS_Subset, FS_CardinalityType DEF Open

LEMMA DropTyping == ASSUME TypeOK, DropHandles PROVE watcher' \in [Handle -> {"none", "running", "aborted"}]
BY DEF TypeOK, DropHandles

\* What a request that only moves on, cloning handles that are live, preserves.
LEMMA MoveFrame ==
  ASSUME IInv, UNCHANGED <<disk, table, born, of, store, stamp, config, evicted>>,
         \A c \in Request : \A h \in held'[c] : h \in Live(table, held),
         held' \in [Request -> SUBSET Handle]
  PROVE  Handles' /\ Stamps' /\ Shared' /\ Capacity'
<1>1. \A h \in Live(table, held) : h \in Handle /\ h <= born
  BY Facts DEF IInv, Handles, Live, TypeOK
<1>2. Handles'
  BY <1>1 DEF IInv, Handles
<1>3. Live(table', held') \subseteq Live(table, held)
  BY DEF Live
<1>4. Shared'
  BY <1>3 DEF IInv, Shared
<1> QED
  BY <1>2, <1>4 DEF IInv, Stamps, Capacity, Open

LEMMA InitInv == Init => IInv
<1> SUFFICES ASSUME Init PROVE IInv
  OBVIOUS
<1> USE Facts
<1>0. FirstKinds \subseteq Kind /\ 0 \in 0..MaxEdits /\ Unread \in Version
  BY RegistryAssumption DEF RegistryAssumption, Unread, Version, Kind
<1>1. /\ disk \in [Root -> Version] /\ config \in [Handle -> [file : Version, priors : Version]]
      /\ born \in 0..MaxHandles /\ stamp \in [Handle -> Stamp]
      /\ noted \in [Request -> Stamp] /\ read \in [Request -> Version]
  BY <1>0 DEF Init, Version, Of, Stamp
<1>2. \A c \in Request : (gate = c) = (pc[c] \in UnderGate)
  BY DEF Init
<1>3. TypeOK
  BY <1>1, <1>2 DEF Init, TypeOK, PCs
<1>4. Local /\ Readings /\ Stamps
  BY DEF Init, Local, Readings, Stamps
<1>8. Handles
  <2>1. \A h \in Handle : ~(h <= 0)
    BY DEF Handle
  <2> QED
    BY <2>1 DEF Init, Handles
<1>5. Shared
  BY DEF Init, Shared, Live
<1>6. Open = {}
  BY DEF Init, Open
<1>7. Capacity
  BY <1>6, FS_EmptySet DEF Capacity
<1> QED
  BY <1>3, <1>4, <1>5, <1>7, <1>8 DEF IInv

LEMMA EditInv == ASSUME IInv, NEW r \in Root, Edit(r) PROVE IInv'
<1> USE DEF IInv
<1>1. PICK s \in 1..MaxEdits, k \in Kind :
        /\ \A q \in Root : disk[q].stamp < s
        /\ disk' = [disk EXCEPT ![r] = [stamp |-> s, kind |-> k]]
  BY DEF Edit
<1>2. /\ UNCHANGED <<table, gate, born, of, store, stamp, config, watcher, evicted, pc, wants,
                     held, chosen, noted, read>>
  BY DEF Edit, about, locals
<1>3. /\ disk' \in [Root -> Version]
      /\ \A q \in Root : disk'[q] = disk[q] \/ disk[q].stamp < disk'[q].stamp
  BY <1>1, Facts DEF TypeOK, Version
<1>4. \A q \in Root : disk[q].stamp \in Nat /\ disk'[q].stamp \in Nat
  BY <1>3, Facts DEF TypeOK, Version
<1>5. TypeOK'
  BY <1>2, <1>3 DEF TypeOK
<1>6. Local'
  BY <1>2 DEF Local, Open
<1>9. Readings'
  <2> SUFFICES ASSUME NEW c \in Request, pc[c] \in UnderGate \ {"stamp"}
               PROVE  /\ noted[c] <= disk'[wants[c]].stamp
                      /\ disk'[wants[c]] = disk[wants[c]] \/ noted[c] < disk'[wants[c]].stamp
    BY <1>2 DEF Readings, Behind
  <2>1. wants[c] \in Root /\ noted[c] <= disk[wants[c]].stamp /\ noted[c] \in Int
    BY Facts DEF Local, Readings, TypeOK
  <2> QED
    BY <1>3, <1>4, <2>1
<1>7. Handles' /\ Shared' /\ Capacity'
  BY <1>2 DEF Handles, Shared, Capacity, Live, Open
<1>8. Stamps'
  <2> SUFFICES ASSUME NEW q \in Root, table[q] # NoHandle
               PROVE  /\ stamp[table[q]] <= disk'[q].stamp
                      /\ disk'[q] = disk[q] \/ stamp[table[q]] < disk'[q].stamp
    BY <1>2 DEF Stamps
  <2>1. stamp[table[q]] <= disk[q].stamp /\ stamp[table[q]] \in Int
    BY Facts DEF TypeOK, Stamps
  <2> QED
    BY <1>3, <1>4, <2>1
<1> QED
  BY <1>5, <1>6, <1>7, <1>8, <1>9

\* A request that goes on with some of its clones, the gate as it was.
LEMMA ReturnInv ==
  ASSUME IInv, NEW c \in Request, NEW where \in {"idle", "open", "use"}, NEW hs \in SUBSET Handle,
         Return(c, where, hs), hs \subseteq Live(table, held), wants[c] \in Root,
         pc[c] \notin UnderGate \/ gate' = Nobody,
         pc[c] \in UnderGate => gate = c,
         pc[c] \notin UnderGate => gate' = gate,
         UNCHANGED <<disk, table, born, of, store, stamp, config, evicted>>,
         watcher' \in [Handle -> {"none", "running", "aborted"}]
  PROVE  IInv'
<1> USE DEF IInv
<1>1. \A d \in Request \ {c} : /\ pc'[d] = pc[d] /\ wants'[d] = wants[d] /\ held'[d] = held[d]
                              /\ chosen'[d] = chosen[d] /\ noted'[d] = noted[d]
                              /\ read'[d] = read[d]
  BY DEF Return, TypeOK
<1>2. /\ pc'[c] = where /\ held'[c] = hs /\ chosen'[c] = NoHandle
      /\ (where # "idle" => wants'[c] = wants[c])
  BY DEF Return, TypeOK
<1>3. /\ held' \in [Request -> SUBSET Handle] /\ pc' \in [Request -> PCs]
      /\ wants' \in [Request -> Root \cup {NoRoot}]
      /\ chosen' \in [Request -> Handle \cup {NoHandle}]
      /\ noted' \in [Request -> Stamp] /\ read' \in [Request -> Version]
  <2>1. NoStamp \in Stamp /\ Unread \in Version
    BY Facts DEF Stamp, Unread, Version, Kind
  <2> QED
    BY <2>1 DEF Return, TypeOK, PCs
<1>4. \A d \in Request : (gate' = d) = (pc'[d] \in UnderGate)
  <2>1. CASE pc[c] \in UnderGate
    <3>1. gate = c /\ gate' = Nobody
      BY <2>1
    <3>2. \A d \in Request \ {c} : pc[d] \notin UnderGate
      BY <3>1 DEF TypeOK
    <3> QED
      BY <1>1, <1>2, <3>1, <3>2, Facts
  <2>2. CASE pc[c] \notin UnderGate
    <3>1. gate' = gate /\ gate # c
      BY <2>2 DEF TypeOK
    <3> QED
      BY <1>1, <1>2, <3>1 DEF TypeOK
  <2> QED
    BY <2>1, <2>2
<1>5. gate' \in Request \cup {Nobody}
  BY DEF TypeOK
<1>6. TypeOK'
  BY <1>3, <1>4, <1>5 DEF TypeOK
<1>7. Local'
  BY <1>1, <1>2 DEF Local, Open
<1>9. Readings'
  BY <1>1, <1>2 DEF Readings, Behind
<1>8. \A d \in Request : \A h \in held'[d] : h \in Live(table, held)
  BY <1>1, <1>2, <1>3 DEF Live, TypeOK
<1> QED
  BY <1>3, <1>6, <1>7, <1>8, <1>9, MoveFrame

\* A request that moves on with the clones it has, outside the gate.
LEMMA StayInv ==
  ASSUME IInv, NEW c \in Request,
         NEW where \in {"look", "check", "reload"}, pc[c] \in {"idle", "look", "check"},
         pc' = [pc EXCEPT ![c] = where],
         wants' \in [Request -> Root \cup {NoRoot}], wants'[c] \in Root,
         \A d \in Request \ {c} :
           wants'[d] = wants[d] /\ held'[d] = held[d] /\ chosen'[d] = chosen[d],
         held' \in [Request -> SUBSET Handle], held'[c] \subseteq Live(table, held),
         chosen' \in [Request -> Handle \cup {NoHandle}],
         where # "look" => chosen'[c] \in Handle /\ chosen'[c] \in held'[c],
         UNCHANGED <<disk, table, gate, born, about, evicted, noted, read>>
  PROVE  IInv'
<1> USE DEF IInv
<1>1. UNCHANGED <<of, store, stamp, config, watcher>>
  BY DEF about
<1>2. \A d \in Request : (gate' = d) = (pc'[d] \in UnderGate)
  BY DEF TypeOK
<1>3. TypeOK'
  BY <1>1, <1>2 DEF TypeOK, PCs
<1>4. \A d \in Request \ {c} : pc'[d] = pc[d]
  BY DEF TypeOK
<1>5. pc'[c] = where
  BY DEF TypeOK
<1>6. Cardinality(Open)' = Cardinality(Open)
  BY DEF Open
<1>7. Local'
  BY <1>4, <1>5, <1>6 DEF Local
<1>9. Readings'
  BY <1>4, <1>5 DEF Readings, Behind
<1>8. \A d \in Request : \A h \in held'[d] : h \in Live(table, held)
  BY DEF Live, TypeOK
<1> QED
  BY <1>1, <1>3, <1>7, <1>8, <1>9, MoveFrame

LEMMA TableLive == ASSUME IInv, NEW r \in Root, table[r] # NoHandle
                   PROVE  table[r] \in Handle /\ {table[r]} \subseteq Live(table, held)
BY DEF IInv, TypeOK, Live

LEMMA HeldLive == ASSUME IInv, NEW c \in Request
                  PROVE  held[c] \subseteq Live(table, held)
BY DEF IInv, TypeOK, Live

LEMMA LookInv == ASSUME IInv, NEW c \in Request, (\E r \in Root : Ask(c, r)) \/ Look(c) \/ Check(c)
                 PROVE  IInv'
<1>1. ASSUME NEW r \in Root, Ask(c, r) PROVE IInv'
  <2>1. /\ pc[c] = "idle" /\ pc' = [pc EXCEPT ![c] = "look"]
        /\ UNCHANGED <<disk, table, gate, born, about, evicted, held, chosen, noted, read>>
    BY <1>1 DEF Ask
  <2>2. /\ wants' \in [Request -> Root \cup {NoRoot}] /\ wants'[c] = r
        /\ \A d \in Request \ {c} : wants'[d] = wants[d]
    BY <1>1 DEF Ask, IInv, TypeOK
  <2>3. /\ held' \in [Request -> SUBSET Handle] /\ chosen' \in [Request -> Handle \cup {NoHandle}]
    BY <2>1 DEF IInv, TypeOK
  <2>4. held'[c] \subseteq Live(table, held)
    BY <2>1, HeldLive
  <2> QED
    BY <2>1, <2>2, <2>3, <2>4, StayInv
<1>2. CASE Look(c)
  <2>1. wants[c] \in Root /\ pc[c] = "look" /\ gate' = gate
    BY <1>2 DEF Look, IInv, Local
  <2>2. CASE table[wants[c]] = NoHandle
    <3>1. PICK where \in {"open", "idle"} : Return(c, where, {})
      BY <1>2, <2>2 DEF Look
    <3>2. watcher' \in [Handle -> {"none", "running", "aborted"}]
      BY <1>2 DEF Look, about, IInv, TypeOK
    <3>3. UNCHANGED <<disk, table, born, of, store, stamp, config, evicted>>
      BY <1>2 DEF Look, about
    <3> QED
      BY <2>1, <3>1, <3>2, <3>3, ReturnInv
  <2>3. CASE table[wants[c]] # NoHandle
    <3>1. /\ held' = [held EXCEPT ![c] = {table[wants[c]]}]
          /\ chosen' = [chosen EXCEPT ![c] = table[wants[c]]]
          /\ pc' = [pc EXCEPT ![c] = "check"] /\ UNCHANGED <<wants, noted, read>>
          /\ UNCHANGED <<disk, table, gate, born, about, evicted>>
      BY <1>2, <2>3 DEF Look, Goes
    <3>2. table[wants[c]] \in Handle /\ {table[wants[c]]} \subseteq Live(table, held)
      BY <2>1, <2>3, TableLive
    <3>3. /\ wants' \in [Request -> Root \cup {NoRoot}] /\ held' \in [Request -> SUBSET Handle]
          /\ chosen' \in [Request -> Handle \cup {NoHandle}]
          /\ held'[c] = {table[wants[c]]} /\ chosen'[c] = table[wants[c]]
      BY <3>1, <3>2 DEF IInv, TypeOK
    <3> QED
      BY <2>1, <3>1, <3>2, <3>3, StayInv
  <2> QED
    BY <2>2, <2>3
<1>3. CASE Check(c)
  <2>1. /\ wants[c] \in Root /\ pc[c] = "check" /\ gate' = gate
        /\ chosen[c] \in Handle /\ chosen[c] \in held[c]
    BY <1>3 DEF Check, IInv, Local
  <2>2. CASE Changed(chosen[c])
    <3>1. /\ pc' = [pc EXCEPT ![c] = "reload"]
          /\ UNCHANGED <<wants, noted, read, held, chosen, disk, table, gate, born, about, evicted>>
      BY <1>3, <2>2 DEF Check, Goes, about
    <3> QED
      BY <2>1, <3>1, StayInv, HeldLive DEF IInv, TypeOK
  <2>3. CASE ~Changed(chosen[c])
    <3>1. Return(c, "use", {chosen[c]}) /\ DropHandles
      BY <1>3, <2>3 DEF Check
    <3>2. watcher' \in [Handle -> {"none", "running", "aborted"}]
      BY <3>1, DropTyping DEF IInv
    <3>3. {chosen[c]} \subseteq Live(table, held)
      BY <2>1, HeldLive
    <3> QED
      BY <1>3, <2>1, <3>1, <3>2, <3>3, ReturnInv DEF Check
  <2> QED
    BY <2>2, <2>3
<1> QED
  BY <1>1, <1>2, <1>3

\* Taking the gate for the root's own handle.
LEMMA EnterReloadInv == ASSUME IInv, NEW c \in Request, EnterReload(c) PROVE IInv'
<1> DEFINE current == table[wants[c]]
<1>1. /\ wants[c] \in Root /\ pc[c] = "reload" /\ gate = Nobody
      /\ UNCHANGED <<disk, table, born, of, store, stamp, config, evicted>>
  BY DEF EnterReload, IInv, Local
<1>2. CASE current = NoHandle
  <2>1. PICK where \in {"open", "idle"} : Return(c, where, {}) /\ DropHandles /\ gate' = gate
    BY <1>2 DEF EnterReload
  <2>2. watcher' \in [Handle -> {"none", "running", "aborted"}]
    BY <2>1, DropTyping DEF IInv
  <2> QED
    BY <1>1, <2>1, <2>2, ReturnInv
<1>3. CASE current # NoHandle /\ ~Changed(current)
  <2>1. Return(c, "use", {current}) /\ DropHandles /\ gate' = gate
    BY <1>3 DEF EnterReload
  <2>2. watcher' \in [Handle -> {"none", "running", "aborted"}]
    BY <2>1, DropTyping DEF IInv
  <2>3. current \in Handle /\ {current} \subseteq Live(table, held)
    BY <1>1, <1>3, TableLive
  <2> QED
    BY <1>1, <2>1, <2>2, <2>3, ReturnInv
<1>4. CASE current # NoHandle /\ Changed(current)
  <2> USE DEF IInv
  <2>1. /\ pc' = [pc EXCEPT ![c] = "stamp"] /\ UNCHANGED <<wants, noted, read, watcher>>
        /\ gate' = c
        /\ held' = [held EXCEPT ![c] = @ \cup {current}]
        /\ chosen' = [chosen EXCEPT ![c] = current]
    BY <1>4 DEF EnterReload, Goes
  <2>2. current \in Handle /\ {current} \subseteq Live(table, held)
    BY <1>1, <1>4, TableLive
  <2> HIDE DEF current
  <2>3. /\ held' \in [Request -> SUBSET Handle] /\ chosen' \in [Request -> Handle \cup {NoHandle}]
        /\ pc' \in [Request -> PCs] /\ chosen'[c] = current
    BY <2>1, <2>2 DEF TypeOK, PCs
  <2>4. \A d \in Request : (gate' = d) = (pc'[d] \in UnderGate)
    <3>1. \A d \in Request : pc[d] \notin UnderGate
      BY <1>1, Facts DEF TypeOK
    <3> QED
      BY <2>1, <3>1 DEF TypeOK
  <2>5. TypeOK'
    BY <1>1, <2>1, <2>3, <2>4 DEF TypeOK
  <2>6. Local'
    <3>1. current = table[wants[c]] /\ current # NoHandle
      BY <1>4 DEF current
    <3>2. /\ pc'[c] = "stamp" /\ held'[c] = held[c] \cup {current}
          /\ \A d \in Request \ {c} :
               pc'[d] = pc[d] /\ held'[d] = held[d] /\ chosen'[d] = chosen[d]
      BY <2>1 DEF TypeOK
    <3> QED
      BY <1>1, <2>1, <2>2, <2>3, <3>1, <3>2 DEF Local, Open
  <2>8. Readings'
    BY <1>1, <2>1, <2>3 DEF Readings, Behind, TypeOK
  <2>7. \A d \in Request : \A h \in held'[d] : h \in Live(table, held)
    BY <2>1, <2>2 DEF Live, TypeOK
  <2> QED
    BY <1>1, <2>3, <2>5, <2>6, <2>7, <2>8, MoveFrame
<1> QED
  BY <1>2, <1>3, <1>4

\* What an eviction leaves: a free seat, and every handle of the root marked.
LEMMA EvictFacts ==
  ASSUME IInv, Evict, UNCHANGED <<disk, born, of, store, stamp, config, held>>
  PROVE  /\ table' \in [Root -> Handle \cup {NoHandle}] /\ evicted' \subseteq Handle
         /\ \A r \in Root : table'[r] \in {table[r], NoHandle}
         /\ Cardinality(Open') < Seats
         /\ Handles' /\ Stamps' /\ Shared' /\ Capacity'
<1> USE DEF IInv
<1>1. CASE Cardinality(Open) >= MaxActive /\ Open # {}
  <2>1. PICK r \in Open : /\ table' = [table EXCEPT ![r] = NoHandle]
                          /\ evicted' = evicted \cup {h \in Handle : of[h] = r}
    BY <1>1 DEF Evict
  <2>2. r \in Root /\ \A q \in Root : table'[q] = IF q = r THEN NoHandle ELSE table[q]
    BY <2>1 DEF Open, TypeOK
  <2>3. Open' = Open \ {r}
    BY <2>2 DEF Open
  <2>4. Cardinality(Open') = Cardinality(Open) - 1
    BY <2>1, <2>3, OpenFacts, FS_RemoveElement
  <2>5. Cardinality(Open') < Seats
    <3>1. Cardinality(Open) \in Nat /\ Cardinality(Open) <= Seats /\ Seats \in Nat
      BY OpenFacts, Facts DEF Capacity
    <3> QED
      BY <2>4, <3>1
  <2>6. table' \in [Root -> Handle \cup {NoHandle}] /\ evicted' \subseteq Handle
    BY <2>1 DEF TypeOK
  <2>7. Handles'
    <3>1. \A q \in Root : table'[q] # NoHandle =>
            table'[q] <= born /\ of[table'[q]] = q /\ table'[q] \notin evicted'
      <4> SUFFICES ASSUME NEW q \in Root, table'[q] # NoHandle
                   PROVE  table'[q] <= born /\ of[table'[q]] = q /\ table'[q] \notin evicted'
        OBVIOUS
      <4>1. q # r /\ table'[q] = table[q]
        BY <2>2
      <4>2. table[q] <= born /\ of[table[q]] = q /\ table[q] \notin evicted
        BY <4>1 DEF Handles
      <4> QED
        BY <2>1, <4>1, <4>2
    <3>2. \A h \in Handle : ~(h <= born) => h \notin evicted'
      BY <2>1, <2>2, Facts DEF Handles
    <3> QED
      BY <3>1, <3>2 DEF Handles
  <2>8. Stamps'
    BY <2>2 DEF Stamps
  <2>9. Shared'
    <3> SUFFICES ASSUME NEW h \in Live(table', held) \ evicted'
                 PROVE  table'[of[h]] # NoHandle /\ store[h] = store[table'[of[h]]]
      BY DEF Shared
    <3>1. h \in Live(table, held) \ evicted /\ of[h] # r /\ h \in Handle
      BY <2>1, <2>2, Facts DEF Live
    <3>2. h <= born
      BY <3>1, Facts DEF Live, Handles
    <3>3. of[h] \in Root
      BY <3>1, <3>2 DEF Handles
    <3> QED
      BY <2>2, <3>1, <3>3 DEF Shared
  <2> QED
    BY <2>2, <2>5, <2>6, <2>7, <2>8, <2>9, Facts, OpenFacts, <2>4 DEF Capacity
<1>2. CASE ~(Cardinality(Open) >= MaxActive /\ Open # {})
  <2>1. table' = table /\ evicted' = evicted
    BY <1>2 DEF Evict
  <2>2. Cardinality(Open) < Seats
    <3>1. CASE Open = {}
      BY <3>1, FS_EmptySet, Facts
    <3>2. CASE ~(Cardinality(Open) >= MaxActive)
      BY <3>2, OpenFacts, Facts
    <3> QED
      BY <1>2, <3>1, <3>2
  <2> QED
    BY <2>1, <2>2 DEF TypeOK, Handles, Stamps, Shared, Capacity, Open, Live
<1> QED
  BY <1>1, <1>2

LEMMA EnterOpenInv == ASSUME IInv, NEW c \in Request, EnterOpen(c) PROVE IInv'
<1>1. /\ wants[c] \in Root /\ pc[c] = "open" /\ gate = Nobody /\ chosen[c] = NoHandle
      /\ UNCHANGED <<disk, born, of, store, stamp, config>> /\ DropHandles
  BY DEF EnterOpen, IInv, Local
<1>2. watcher' \in [Handle -> {"none", "running", "aborted"}]
  BY <1>1, DropTyping DEF IInv
<1>3. CASE table[wants[c]] # NoHandle
  <2>1. Return(c, "use", {table[wants[c]]}) /\ UNCHANGED <<table, evicted, gate>>
    BY <1>3 DEF EnterOpen
  <2>2. table[wants[c]] \in Handle /\ {table[wants[c]]} \subseteq Live(table, held)
    BY <1>1, <1>3, TableLive
  <2> QED
    BY <1>1, <1>2, <2>1, <2>2, ReturnInv
<1>4. CASE table[wants[c]] = NoHandle
  <2>1. /\ Evict /\ pc' = [pc EXCEPT ![c] = "stamp"] /\ gate' = c
        /\ UNCHANGED <<wants, noted, read, held, chosen>>
    BY <1>4 DEF EnterOpen, Goes
  <2>2. /\ table' \in [Root -> Handle \cup {NoHandle}] /\ evicted' \subseteq Handle
        /\ \A r \in Root : table'[r] \in {table[r], NoHandle}
        /\ Cardinality(Open') < Seats
        /\ Handles' /\ Stamps' /\ Shared' /\ Capacity'
    BY <1>1, <2>1, EvictFacts
  <2>3. \A d \in Request : pc[d] \notin UnderGate
    BY <1>1, Facts DEF IInv, TypeOK
  <2>4. \A d \in Request : (gate' = d) = (pc'[d] \in UnderGate)
    BY <2>1, <2>3 DEF IInv, TypeOK
  <2>5. TypeOK'
    BY <1>1, <1>2, <2>1, <2>2, <2>4 DEF IInv, TypeOK, PCs
  <2>6. table'[wants[c]] = NoHandle
    BY <1>1, <1>4, <2>2
  <2>7. Local'
    BY <1>1, <2>1, <2>2, <2>3, <2>6 DEF IInv, TypeOK, Local
  <2>8. Readings'
    BY <1>1, <2>1, <2>3 DEF IInv, TypeOK, Readings
  <2> QED
    BY <2>2, <2>5, <2>7, <2>8 DEF IInv
<1> QED
  BY <1>3, <1>4

\* What a step under the gate that only reads the file preserves.
LEMMA ReadingFrame ==
  ASSUME IInv, NEW c \in Request, pc[c] \in UnderGate, pc'[c] \in UnderGate,
         \A d \in Request \ {c} : pc'[d] = pc[d] /\ noted'[d] = noted[d] /\ read'[d] = read[d],
         pc' \in [Request -> PCs], noted' \in [Request -> Stamp], read' \in [Request -> Version],
         pc'[c] \in {"exists", "strict"} => chosen[c] # NoHandle,
         UNCHANGED <<disk, table, gate, born, about, evicted, wants, held, chosen>>,
         noted'[c] <= disk[wants[c]].stamp,
         pc'[c] = "lenient" => chosen[c] = NoHandle \/ Behind(c)',
         pc'[c] = "priors" => \/ Behind(c)'
                             \/ /\ read'[c] = disk[wants[c]]
                                /\ chosen[c] # NoHandle => read'[c].kind = "good"
  PROVE  IInv'
<1> USE DEF IInv
<1>1. UNCHANGED <<of, store, stamp, config, watcher>>
  BY DEF about
<1>2. \A d \in Request : (gate' = d) = (pc'[d] \in UnderGate)
  BY DEF TypeOK
<1>3. TypeOK'
  BY <1>1, <1>2 DEF TypeOK
<1>4. Local'
  BY DEF Local, Open
<1>5. Readings'
  BY DEF Readings, Behind
<1>6. Handles' /\ Stamps' /\ Shared' /\ Capacity'
  BY <1>1 DEF Handles, Stamps, Shared, Capacity, Open, Live
<1> QED
  BY <1>3, <1>4, <1>5, <1>6

LEMMA ReadStampInv == ASSUME IInv, NEW c \in Request, ReadStamp(c) PROVE IInv'
<1> USE DEF IInv
<1> DEFINE next == IF chosen[c] = NoHandle THEN "lenient" ELSE "exists"
<1>1. /\ wants[c] \in Root /\ pc[c] = "stamp"
      /\ noted' = [noted EXCEPT ![c] = Identity(disk[wants[c]])]
      /\ pc' = [pc EXCEPT ![c] = next]
      /\ UNCHANGED <<disk, table, gate, born, about, evicted, wants, held, chosen, read>>
  BY DEF ReadStamp, Local
<1>2. disk[wants[c]] \in Version
  BY <1>1 DEF TypeOK
<1>3. /\ Identity(disk[wants[c]]) \in Stamp
      /\ Identity(disk[wants[c]]) <= disk[wants[c]].stamp
  BY <1>2, Facts DEF Identity, NoStamp, Stamp
<1>4. /\ noted' \in [Request -> Stamp] /\ pc' \in [Request -> PCs] /\ read' \in [Request -> Version]
      /\ noted'[c] = Identity(disk[wants[c]]) /\ pc'[c] = next
      /\ \A d \in Request \ {c} : pc'[d] = pc[d] /\ noted'[d] = noted[d] /\ read'[d] = read[d]
  BY <1>1, <1>3 DEF TypeOK, PCs
<1> QED
  BY <1>1, <1>3, <1>4, ReadingFrame

LEMMA TestExistsInv == ASSUME IInv, NEW c \in Request, TestExists(c) PROVE IInv'
<1> USE DEF IInv
<1> DEFINE next == IF disk[wants[c]].kind = "absent" THEN "lenient" ELSE "strict"
<1>1. /\ wants[c] \in Root /\ pc[c] = "exists" /\ chosen[c] # NoHandle
      /\ pc' = [pc EXCEPT ![c] = next]
      /\ UNCHANGED <<disk, table, gate, born, about, evicted, wants, held, chosen, noted, read>>
  BY DEF TestExists, Goes, Local
<1>2. /\ pc' \in [Request -> PCs] /\ noted' \in [Request -> Stamp] /\ read' \in [Request -> Version]
      /\ pc'[c] = next /\ \A d \in Request \ {c} : pc'[d] = pc[d]
  BY <1>1 DEF TypeOK, PCs
<1>3. noted[c] <= disk[wants[c]].stamp
  BY <1>1 DEF Readings
<1>4. next = "lenient" => Behind(c)'
  BY <1>1 DEF Behind
<1> QED
  BY <1>1, <1>2, <1>3, <1>4, ReadingFrame

LEMMA SpawnInv == ASSUME IInv, NEW c \in Request, Spawn(c) \/ Answer(c) PROVE IInv'
<1>1. CASE Spawn(c)
  <2>1. /\ wants[c] \in Root /\ pc[c] = "spawn" /\ gate' = gate
        /\ chosen[c] \in Handle /\ chosen[c] \in held[c]
        /\ UNCHANGED <<disk, table, born, of, store, stamp, config, evicted>>
    BY <1>1 DEF Spawn, IInv, Local
  <2>2. watcher' \in [Handle -> {"none", "running", "aborted"}]
    BY <1>1 DEF Spawn, IInv, TypeOK
  <2>3. {chosen[c]} \subseteq Live(table, held) /\ Return(c, "use", {chosen[c]})
    BY <1>1, <2>1, HeldLive DEF Spawn
  <2> QED
    BY <2>1, <2>2, <2>3, ReturnInv
<1>2. CASE Answer(c)
  <2>1. /\ wants[c] \in Root /\ pc[c] = "use" /\ gate' = gate
        /\ UNCHANGED <<disk, table, born, of, store, stamp, config, evicted>>
        /\ Return(c, "idle", {}) /\ DropHandles
    BY <1>2 DEF Answer, IInv, Local
  <2>2. watcher' \in [Handle -> {"none", "running", "aborted"}]
    BY <2>1, DropTyping DEF IInv
  <2> QED
    BY <2>1, <2>2, ReturnInv
<1> QED
  BY <1>1, <1>2

-----------------------------------------------------------------------------
(* Load and Install, the only step that adds to the table.                  *)

LEMMA RefuseInv ==
  ASSUME IInv, NEW c \in Request, Load(c), ~Loads(disk[wants[c]], pc[c] = "strict")
  PROVE  IInv'
<1>1. /\ pc[c] \in UnderGate /\ wants[c] \in Root /\ gate = c /\ gate' = Nobody
      /\ table[wants[c]] = chosen[c]
  BY DEF Load, IInv, TypeOK, Local
<1>2. /\ UNCHANGED <<disk, table, born, of, store, stamp, config, evicted>>
      /\ DropHandles
  BY DEF Load
<1>3. watcher' \in [Handle -> {"none", "running", "aborted"}]
  BY <1>2, DropTyping DEF IInv
<1>4. CASE chosen[c] # NoHandle /\ disk[wants[c]].kind # "removed"
  <2>1. Return(c, "use", {chosen[c]})
    BY <1>4 DEF Load
  <2>2. chosen[c] \in Handle /\ {chosen[c]} \subseteq Live(table, held)
    BY <1>1, <1>4, TableLive
  <2> QED
    BY <1>1, <1>2, <1>3, <2>1, <2>2, ReturnInv
<1>5. CASE ~(chosen[c] # NoHandle /\ disk[wants[c]].kind # "removed")
  <2>1. Return(c, "idle", {})
    BY <1>5 DEF Load
  <2> QED
    BY <1>1, <1>2, <1>3, <2>1, ReturnInv
<1> QED
  BY <1>4, <1>5

LEMMA LoadInv ==
  ASSUME IInv, NEW c \in Request, Load(c), Loads(disk[wants[c]], pc[c] = "strict")
  PROVE  IInv'
<1> USE DEF IInv
<1> DEFINE version == disk[wants[c]]
<1>1. /\ pc[c] \in {"strict", "lenient"} /\ wants[c] \in Root
      /\ read' = [read EXCEPT ![c] = version] /\ pc' = [pc EXCEPT ![c] = "priors"]
      /\ UNCHANGED <<disk, table, gate, born, about, evicted, wants, held, chosen, noted>>
  BY DEF Load, Local, about
<1>2. /\ pc' \in [Request -> PCs] /\ noted' \in [Request -> Stamp] /\ read' \in [Request -> Version]
      /\ pc'[c] = "priors" /\ read'[c] = version
      /\ \A d \in Request \ {c} : pc'[d] = pc[d] /\ read'[d] = read[d]
  BY <1>1 DEF TypeOK, PCs
<1>3. noted[c] <= version.stamp /\ (pc[c] = "lenient" => chosen[c] = NoHandle \/ Behind(c))
  BY <1>1 DEF Readings
<1>4. Behind(c)' = Behind(c)
  BY <1>1 DEF Behind
<1>5. pc[c] = "strict" => version.kind = "good"
  BY DEF Loads
<1> QED
  BY <1>1, <1>2, <1>3, <1>4, <1>5, ReadingFrame

LEMMA InstallInv == ASSUME IInv, NEW c \in Request, Install(c) PROVE IInv'
<1> USE DEF IInv
<1> DEFINE h == born + 1
<1> DEFINE r == wants[c]
<1> DEFINE s == IF chosen[c] = NoHandle THEN h ELSE store[chosen[c]]
<1> DEFINE both == [file |-> read[c], priors |-> disk[r]]
<1>1. /\ pc[c] = "priors" /\ r \in Root /\ gate = c /\ gate' = Nobody
      /\ table[r] = chosen[c] /\ (chosen[c] = NoHandle => Cardinality(Open) < Seats)
      /\ noted[c] <= disk[r].stamp
      /\ read[c] = disk[r] \/ noted[c] < disk[r].stamp \/ disk[r].kind = "absent"
  BY DEF Install, TypeOK, Local, Readings, Behind
<1>2. /\ born < MaxHandles /\ born' = h
      /\ of' = [of EXCEPT ![h] = r] /\ store' = [store EXCEPT ![h] = s]
      /\ stamp' = [stamp EXCEPT ![h] = noted[c]] /\ config' = [config EXCEPT ![h] = both]
      /\ table' = [table EXCEPT ![r] = h]
      /\ held' = [held EXCEPT ![c] = @ \cup {h}] /\ chosen' = [chosen EXCEPT ![c] = h]
      /\ pc' = [pc EXCEPT ![c] = "spawn"]
      /\ UNCHANGED <<wants, noted, read, watcher, disk, evicted>>
  BY DEF Install, Goes, Kept
<1>3. h \in Handle /\ h \in Nat /\ born \in Nat /\ h # NoHandle /\ ~(h <= born)
  <2>1. born \in Nat /\ born < MaxHandles /\ MaxHandles \in Nat
    BY <1>2, RegistryAssumption DEF TypeOK, RegistryAssumption
  <2>2. born + 1 \in Nat /\ ~(born + 1 <= born) /\ born + 1 \in 1..MaxHandles
    BY <2>1
  <2>3. h \in Handle
    BY <2>2 DEF Handle
  <2> QED
    BY <2>1, <2>2, <2>3, RegistryAssumption DEF RegistryAssumption
<1>4. s \in Handle
  <2>1. chosen[c] \in Handle \cup {NoHandle} /\ \A g \in Handle : store[g] \in Handle
    BY DEF TypeOK
  <2>2. CASE chosen[c] = NoHandle
    BY <1>3, <2>2
  <2>3. CASE chosen[c] # NoHandle
    BY <2>1, <2>3
  <2> QED
    BY <2>2, <2>3
<1> HIDE DEF h, r, s, both
<1>5. /\ \A g \in Handle \ {h} : /\ of'[g] = of[g] /\ store'[g] = store[g]
                                  /\ stamp'[g] = stamp[g] /\ config'[g] = config[g]
      /\ of'[h] = r /\ store'[h] = s /\ stamp'[h] = noted[c] /\ config'[h] = both
      /\ \A q \in Root \ {r} : table'[q] = table[q]
      /\ table'[r] = h
      /\ \A d \in Request \ {c} : held'[d] = held[d] /\ chosen'[d] = chosen[d] /\ pc'[d] = pc[d]
      /\ held'[c] = held[c] \cup {h} /\ chosen'[c] = h /\ pc'[c] = "spawn"
  BY <1>1, <1>2, <1>3 DEF TypeOK
<1>6. \A d \in Request \ {c} : pc[d] \notin UnderGate
  BY <1>1 DEF TypeOK
<1>7. TypeOK'
  <2>1. /\ of' \in [Handle -> Root \cup {NoRoot}] /\ store' \in [Handle -> Handle]
        /\ stamp' \in [Handle -> Stamp]
        /\ config' \in [Handle -> [file : Version, priors : Version]]
        /\ table' \in [Root -> Handle \cup {NoHandle}]
        /\ held' \in [Request -> SUBSET Handle] /\ chosen' \in [Request -> Handle \cup {NoHandle}]
        /\ pc' \in [Request -> PCs]
    BY <1>1, <1>2, <1>3, <1>4 DEF TypeOK, PCs, both
  <2>2. \A d \in Request : (gate' = d) = (pc'[d] \in UnderGate)
    BY <1>1, <1>5, <1>6, Facts
  <2>3. born' \in 0..MaxHandles
    BY <1>2, <1>3, Facts DEF h
  <2> QED
    BY <1>1, <1>2, <2>1, <2>2, <2>3 DEF TypeOK
<1>8. Local'
  BY <1>1, <1>2, <1>3, <1>5, <1>6 DEF Local, r
<1>14. Readings'
  BY <1>2, <1>5, <1>6 DEF Readings
<1>9. born' = h /\ \A n \in Nat : (n <= h) = (n <= born \/ n = h)
  BY <1>2, <1>3 DEF h
<1>10. Handles'
  <2>1. \A q \in Root : table'[q] # NoHandle =>
          table'[q] <= h /\ of'[table'[q]] = q /\ table'[q] \notin evicted
    <3> SUFFICES ASSUME NEW q \in Root, table'[q] # NoHandle
                 PROVE  table'[q] <= h /\ of'[table'[q]] = q /\ table'[q] \notin evicted
      OBVIOUS
    <3>1. CASE q = r
      BY <1>3, <1>5, <1>9, <3>1 DEF Handles
    <3>2. CASE q # r
      <4>1. table'[q] = table[q] /\ table[q] \in Handle /\ table[q] \in Nat
        BY <1>5, <3>2, Facts DEF TypeOK
      <4>2. table[q] <= born /\ of[table[q]] = q /\ table[q] \notin evicted
        BY <4>1 DEF Handles
      <4>3. table[q] # h
        BY <1>3, <4>2
      <4> QED
        BY <1>5, <1>9, <4>1, <4>2, <4>3
    <3> QED
      BY <3>1, <3>2
  <2>2. \A d \in Request : \A g \in held'[d] : g <= h
    <3> SUFFICES ASSUME NEW d \in Request, NEW g \in held'[d] PROVE g <= h
      OBVIOUS
    <3>1. g = h \/ g \in held[d]
      BY <1>5
    <3>2. CASE g = h
      BY <1>3, <3>2
    <3>3. CASE g \in held[d]
      BY <1>9, <3>3, Facts DEF Handles, TypeOK
    <3> QED
      BY <3>1, <3>2, <3>3
  <2>3. \A g \in Handle :
          IF g <= h THEN of'[g] \in Root ELSE of'[g] = NoRoot /\ g \notin evicted
    <3> SUFFICES ASSUME NEW g \in Handle
                 PROVE  IF g <= h THEN of'[g] \in Root ELSE of'[g] = NoRoot /\ g \notin evicted
      OBVIOUS
    <3>1. CASE g = h
      BY <1>1, <1>3, <1>5, <3>1
    <3>2. CASE g # h
      BY <1>5, <1>9, <3>2, Facts DEF Handles
    <3> QED
      BY <3>1, <3>2
  <2> QED
    BY <1>2, <2>1, <2>2, <2>3 DEF Handles
<1>11. Stamps'
  <2> SUFFICES ASSUME NEW q \in Root, table'[q] # NoHandle
               PROVE  /\ stamp'[table'[q]] <= disk[q].stamp
                      /\ \/ config'[table'[q]] = Of(disk[q])
                         \/ stamp'[table'[q]] < disk[q].stamp
                         \/ disk[q].kind = "absent"
    BY <1>2 DEF Stamps
  <2>1. CASE q = r
    BY <1>1, <1>5, <2>1 DEF both, Of
  <2>2. CASE q # r
    <3>1. table'[q] = table[q] /\ table[q] \in Handle
      BY <1>5, <2>2 DEF TypeOK
    <3>2. table[q] # h
      BY <1>3, <3>1, Facts DEF Handles
    <3> QED
      BY <1>5, <3>1, <3>2, Facts DEF Stamps
  <2> QED
    BY <2>1, <2>2
<1>12. Shared'
  <2> SUFFICES ASSUME NEW g \in Live(table', held') \ evicted
               PROVE  table'[of'[g]] # NoHandle /\ store'[g] = store'[table'[of'[g]]]
    BY <1>2 DEF Shared
  <2>1. CASE g = h
    BY <1>1, <1>3, <1>5, <2>1
  <2>2. CASE g # h
    <3>1. g \in Live(table, held) \ evicted /\ g \in Handle
      BY <1>5, <2>2 DEF Live
    <3>2. g <= born
      BY <3>1, Facts DEF Live, Handles
    <3>3. /\ of[g] \in Root /\ table[of[g]] # NoHandle /\ store[g] = store[table[of[g]]]
          /\ of'[g] = of[g] /\ store'[g] = store[g]
      BY <1>5, <2>2, <3>1, <3>2 DEF Handles, Shared
    <3>4. CASE of[g] = r
      <4>1. chosen[c] # NoHandle /\ s = store[chosen[c]]
        BY <1>1, <3>3, <3>4 DEF s
      <4> QED
        BY <1>1, <1>3, <1>5, <3>3, <3>4, <4>1
    <3>5. CASE of[g] # r
      <4>1. table'[of[g]] = table[of[g]] /\ table[of[g]] \in Handle /\ table[of[g]] <= born
        BY <1>5, <3>3, <3>5 DEF TypeOK, Handles
      <4>2. table[of[g]] # h
        BY <1>3, <4>1
      <4> QED
        BY <1>5, <3>3, <4>1, <4>2
    <3> QED
      BY <3>4, <3>5
  <2> QED
    BY <2>1, <2>2
<1>13. Capacity'
  <2>1. Open' = Open \cup {r}
    BY <1>1, <1>3, <1>5 DEF Open
  <2>2. CASE chosen[c] # NoHandle
    <3>1. r \in Open
      BY <1>1, <2>2 DEF Open
    <3> QED
      BY <2>1, <3>1, Facts DEF Capacity, Seats
  <2>3. CASE chosen[c] = NoHandle
    <3>1. Cardinality(Open') <= Cardinality(Open) + 1 /\ Cardinality(Open) \in Nat
          /\ Cardinality(Open') \in Nat
      <4>1. IsFiniteSet(Open)
        BY OpenFacts
      <4>2. /\ Cardinality(Open) \in Nat /\ Cardinality(Open \cup {r}) \in Nat
            /\ \/ Cardinality(Open \cup {r}) = Cardinality(Open)
               \/ Cardinality(Open \cup {r}) = Cardinality(Open) + 1
        BY <4>1, FS_AddElement, FS_CardinalityType
      <4> QED
        BY <2>1, <4>2
    <3>2. Cardinality(Open) < Seats /\ Seats \in Nat
      BY <1>1, <2>3, Facts
    <3> QED
      BY <3>1, <3>2 DEF Capacity, Seats
  <2> QED
    BY <2>2, <2>3
<1> QED
  BY <1>7, <1>8, <1>10, <1>11, <1>12, <1>13, <1>14

LEMMA NextInv == IInv /\ [Next]_vars => IInv'
<1>1. ASSUME IInv, UNCHANGED vars PROVE IInv'
  <2>1. UNCHANGED <<disk, table, gate, born, of, store, stamp, config, watcher, evicted>>
        /\ UNCHANGED <<pc, wants, held, chosen, noted, read>>
    BY <1>1 DEF vars, about, locals
  <2>2. TypeOK'
    BY <1>1, <2>1 DEF IInv, TypeOK
  <2>3. Local'
    BY <1>1, <2>1 DEF IInv, Local, Open
  <2>4. Readings'
    BY <1>1, <2>1 DEF IInv, Readings, Behind
  <2> QED
    BY <1>1, <2>1, <2>2, <2>3, <2>4 DEF vars, about, locals, IInv, Handles, Stamps, Shared, Capacity, Open, Live
<1>2. ASSUME IInv, NEW c \in Request, Load(c) PROVE IInv'
  BY <1>2, RefuseInv, LoadInv
<1> QED
  BY <1>1, <1>2, EditInv, LookInv, EnterReloadInv, EnterOpenInv, ReadStampInv, TestExistsInv,
     InstallInv, SpawnInv
  DEF Next, Resolve

THEOREM RegistryInvariant == Spec => []IInv
BY InitInv, NextInv, PTL DEF Spec

\* The variables keep their types, and one request at a time is under the gate.
THEOREM RegistryTyping == Spec => []TypeOK
<1>1. IInv => TypeOK
  BY DEF IInv
<1> QED
  BY <1>1, RegistryInvariant, PTL

\* However opens, reloads and evictions interleave, no more roots are open than
\* configured (get_or_open, open_gate).
THEOREM NeverOverCapacity == Spec => []Capacity
<1>1. IInv => Capacity
  BY DEF IInv
<1> QED
  BY <1>1, RegistryInvariant, PTL

\* A handle whose settings or priors do not stand for the file that is there still
\* looks changed, whatever was written between the readings of a load (reopen).
THEOREM EditsAreNoticed == Spec => []NoEditMissed
<1>1. ASSUME IInv, NEW r \in Open, disk[r].kind # "absent", config[table[r]] # Of(disk[r])
      PROVE  Changed(table[r])
  <2>1. r \in Root /\ table[r] \in Handle /\ of[table[r]] = r
    BY <1>1 DEF Open, IInv, TypeOK, Handles
  <2>2. stamp[table[r]] < disk[r].stamp
    BY <1>1, <2>1 DEF Open, IInv, Stamps
  <2>3. stamp[table[r]] \in Int /\ disk[r].stamp \in Int
    BY <1>1, <2>1, Facts DEF IInv, TypeOK
  <2> QED
    BY <1>1, <2>1, <2>2, <2>3 DEF Changed, Identity
<1>2. IInv => NoEditMissed
  BY <1>1 DEF NoEditMissed
<1> QED
  BY <1>2, RegistryInvariant, PTL

\* The live handles of a root share one store until it is evicted (reopen).
THEOREM HandlesShareTheStore == Spec => []OneStore
<1>1. IInv => OneStore
  BY DEF IInv, Shared, OneStore
<1> QED
  BY <1>1, RegistryInvariant, PTL

\* A reload serves anything but a config that loads only where there is no file, or
\* where the file changed since its identity was read, which the next access sees
\* (open_handle, load_config).
THEOREM LastGoodConfigServed == Spec => LastGoodServed
<1> DEFINE Serves(r) == \/ /\ config'[table'[r]].file.kind = "good"
                           /\ config'[table'[r]].priors.kind = "good"
                        \/ disk'[r].kind = "absent"
                        \/ Changed(table[r])'
<1>1. ASSUME IInv, [Next]_vars, NEW r \in Root, table'[r] # table[r],
             {table[r], table'[r]} \subseteq Handle
      PROVE  Serves(r)
  <2>1. ~UNCHANGED vars /\ \A q \in Root : ~Edit(q)
    BY <1>1 DEF vars, Edit
  <2>2. \A c \in Request : ~\E q \in Root : Ask(c, q)
    BY <1>1 DEF Ask
  <2>3. \A c \in Request :
          ~(Look(c) \/ Check(c) \/ EnterReload(c) \/ ReadStamp(c) \/ TestExists(c) \/ Load(c)
            \/ Spawn(c) \/ Answer(c))
    <3>1. table' # table
      BY <1>1
    <3> QED
      BY <3>1 DEF Look, Check, EnterReload, ReadStamp, TestExists, Load, Spawn, Answer
  <2>4. PICK c \in Request : EnterOpen(c) \/ Install(c)
    BY <1>1, <2>1, <2>2, <2>3 DEF Next, Resolve
  <2>5. CASE EnterOpen(c)
    <3>1. table'[r] \in {table[r], NoHandle}
      BY <2>5, <1>1 DEF EnterOpen, Evict, IInv, TypeOK
    <3> QED
      BY <1>1, <3>1, Facts
  <2>6. CASE Install(c)
    <3> DEFINE h == born + 1
    <3>1. /\ pc[c] = "priors" /\ disk' = disk
          /\ table' = [table EXCEPT ![wants[c]] = h]
          /\ of' = [of EXCEPT ![h] = wants[c]] /\ stamp' = [stamp EXCEPT ![h] = noted[c]]
          /\ config' = [config EXCEPT ![h] = [file |-> read[c], priors |-> disk[wants[c]]]]
      BY <2>6 DEF Install, Kept
    <3> HIDE DEF h
    <3>2. wants[c] = r /\ table'[r] = h /\ h \in Handle /\ chosen[c] = table[r]
      BY <1>1, <3>1 DEF IInv, TypeOK, Local
    <3>3. /\ config'[h] = [file |-> read[c], priors |-> disk[r]]
          /\ stamp'[h] = noted[c] /\ of'[h] = r
      BY <1>1, <3>1, <3>2 DEF IInv, TypeOK
    <3>4. chosen[c] # NoHandle
      BY <1>1, <3>2, Facts
    <3>5. noted[c] \in Int /\ disk[r].stamp \in Int
      BY <1>1, Facts DEF IInv, TypeOK
    <3>6. CASE Behind(c)
      BY <3>1, <3>2, <3>3, <3>5, <3>6 DEF Behind, Changed, Identity
    <3>7. CASE ~Behind(c)
      BY <1>1, <3>1, <3>2, <3>3, <3>4, <3>7 DEF IInv, Readings
    <3> QED
      BY <3>6, <3>7
  <2> QED
    BY <2>4, <2>5, <2>6
<1>2. IInv /\ [Next]_vars =>
        \A r \in Root : {table[r], table'[r]} \subseteq Handle /\ table'[r] # table[r] =>
          Serves(r)
  BY <1>1
<1> QED
  BY <1>2, RegistryInvariant, PTL DEF Spec, LastGoodServed

-----------------------------------------------------------------------------
(* The watchers of the handles.                                             *)

\* A request that has not looked yet has no clone, and a reload has the one it replaces.
Clones ==
  \A c \in Request :
    /\ pc[c] \in {"idle", "look", "open"} => held[c] = {}
    /\ pc[c] \in UnderGate /\ chosen[c] # NoHandle => chosen[c] \in held[c]

WatchInv == Clones /\ WatchersMatch

\* What DropHandles leaves running is what was running and is still live.
LEMMA DropWatch ==
  ASSUME DropHandles, NEW h \in Handle
  PROVE  (watcher'[h] = "running") = (watcher[h] = "running" /\ h \in Live(table', held'))
BY DEF DropHandles

\* A request that was not about to start a watcher goes on; no other handle enters
\* the table.
LEMMA WatchFrame ==
  ASSUME IInv, WatchersMatch, NEW c \in Request, pc[c] # "spawn",
         \A r \in Root : table'[r] \in {table[r], NoHandle},
         \A d \in Request \ {c} : pc'[d] = pc[d] /\ chosen'[d] = chosen[d],
         \/ DropHandles
         \/ watcher' = watcher /\ Live(table, held) \subseteq Live(table', held')
  PROVE  WatchersMatch'
<1>1. \A h \in Handle : watcher'[h] = "running" => h \in Live(table', held')
  BY DropWatch DEF WatchersMatch
<1>2. ASSUME NEW r \in Root, table'[r] # NoHandle
      PROVE  \/ watcher'[table'[r]] = "running"
             \/ \E d \in Request : pc'[d] = "spawn" /\ chosen'[d] = table'[r]
  <2>1. table'[r] = table[r] /\ table[r] \in Handle /\ r \in Open
    BY <1>2 DEF IInv, TypeOK, Open
  <2>2. CASE watcher[table[r]] = "running"
    <3>1. table[r] \in Live(table', held')
      BY <2>1 DEF Live
    <3> QED
      BY <2>1, <2>2, <3>1, DropWatch
  <2>3. CASE \E d \in Request : pc[d] = "spawn" /\ chosen[d] = table[r]
    BY <2>1, <2>3
  <2> QED
    BY <2>1, <2>2, <2>3 DEF WatchersMatch
<1> QED
  BY <1>1, <1>2 DEF WatchersMatch, Open

LEMMA InitWatch == Init => WatchInv
BY DEF Init, WatchInv, Clones, WatchersMatch, Open

\* Where a request is done with its clones.
LEMMA ReturnClones ==
  ASSUME IInv, Clones, NEW c \in Request, NEW where \in {"idle", "open", "use"}, NEW hs,
         Return(c, where, hs), where # "use" => hs = {}
  PROVE  /\ Clones'
         /\ \A d \in Request \ {c} : pc'[d] = pc[d] /\ chosen'[d] = chosen[d]
BY DEF Return, Clones, IInv, TypeOK

LEMMA LookWatch ==
  ASSUME IInv, WatchInv, NEW c \in Request, (\E r \in Root : Ask(c, r)) \/ Look(c) \/ Check(c)
  PROVE  WatchInv'
<1> USE DEF WatchInv
<1>1. CASE \E r \in Root : Ask(c, r)
  <2>1. /\ pc[c] = "idle" /\ pc' = [pc EXCEPT ![c] = "look"]
        /\ UNCHANGED <<table, watcher, held, chosen>>
    BY <1>1 DEF Ask, about
  <2>2. Clones'
    BY <2>1 DEF Clones, IInv, TypeOK
  <2>3. WatchersMatch'
    BY <2>1, WatchFrame DEF IInv, TypeOK
  <2> QED
    BY <2>2, <2>3
<1>2. CASE Look(c)
  <2>1. pc[c] = "look" /\ held[c] = {} /\ UNCHANGED <<table, watcher>> /\ wants[c] \in Root
    BY <1>2 DEF Look, Clones, about, IInv, Local
  <2>2. CASE table[wants[c]] = NoHandle
    <3>1. PICK where \in {"open", "idle"} : Return(c, where, {})
      BY <1>2, <2>2 DEF Look
    <3>2. /\ Clones'
          /\ \A d \in Request \ {c} : pc'[d] = pc[d] /\ chosen'[d] = chosen[d]
      BY <3>1, ReturnClones
    <3>3. Live(table', held') = Live(table, held)
      BY <2>1, <3>1 DEF Live, Return, IInv, TypeOK
    <3> QED
      BY <2>1, <3>2, <3>3, WatchFrame
  <2>3. CASE table[wants[c]] # NoHandle
    <3>1. /\ held' = [held EXCEPT ![c] = {table[wants[c]]}]
          /\ chosen' = [chosen EXCEPT ![c] = table[wants[c]]]
          /\ pc' = [pc EXCEPT ![c] = "check"]
      BY <1>2, <2>3 DEF Look, Goes
    <3>2. Clones'
      BY <3>1 DEF Clones, IInv, TypeOK
    <3>3. Live(table, held) \subseteq Live(table', held')
      BY <2>1, <3>1 DEF Live, IInv, TypeOK
    <3>4. \A d \in Request \ {c} : pc'[d] = pc[d] /\ chosen'[d] = chosen[d]
      BY <3>1 DEF IInv, TypeOK
    <3> QED
      BY <2>1, <3>2, <3>3, <3>4, WatchFrame
  <2> QED
    BY <2>2, <2>3
<1>3. CASE Check(c)
  <2>1. pc[c] = "check" /\ table' = table
    BY <1>3 DEF Check
  <2>2. CASE Changed(chosen[c])
    <3>1. pc' = [pc EXCEPT ![c] = "reload"] /\ UNCHANGED <<held, chosen, watcher>>
      BY <1>3, <2>2 DEF Check, Goes
    <3>2. Clones'
      BY <3>1 DEF Clones, IInv, TypeOK
    <3> QED
      BY <2>1, <3>1, <3>2, WatchFrame DEF IInv, TypeOK
  <2>3. CASE ~Changed(chosen[c])
    <3>1. Return(c, "use", {chosen[c]}) /\ DropHandles
      BY <1>3, <2>3 DEF Check
    <3> QED
      BY <2>1, <3>1, ReturnClones, WatchFrame
  <2> QED
    BY <2>2, <2>3
<1> QED
  BY <1>1, <1>2, <1>3

LEMMA EnterReloadWatch ==
  ASSUME IInv, WatchInv, NEW c \in Request, EnterReload(c)
  PROVE  WatchInv'
<1> USE DEF WatchInv
<1> DEFINE current == table[wants[c]]
<1>1. pc[c] = "reload" /\ table' = table /\ wants[c] \in Root
  BY DEF EnterReload, IInv, Local
<1>2. CASE current = NoHandle \/ ~Changed(current)
  <2>1. \E where \in {"idle", "open", "use"}, hs \in {{}, {current}} :
          Return(c, where, hs) /\ DropHandles /\ (where # "use" => hs = {})
    BY <1>2 DEF EnterReload
  <2> QED
    BY <1>1, <2>1, ReturnClones, WatchFrame
<1>3. CASE current # NoHandle /\ Changed(current)
  <2>1. /\ pc' = [pc EXCEPT ![c] = "stamp"] /\ watcher' = watcher
        /\ held' = [held EXCEPT ![c] = @ \cup {current}]
        /\ chosen' = [chosen EXCEPT ![c] = current]
    BY <1>3 DEF EnterReload, Goes
  <2> HIDE DEF current
  <2>2. Clones'
    BY <2>1 DEF Clones, IInv, TypeOK
  <2>3. Live(table, held) \subseteq Live(table', held')
    BY <1>1, <2>1 DEF Live, IInv, TypeOK
  <2>4. \A d \in Request \ {c} : pc'[d] = pc[d] /\ chosen'[d] = chosen[d]
    BY <2>1 DEF IInv, TypeOK
  <2> QED
    BY <1>1, <2>1, <2>2, <2>3, <2>4, WatchFrame
<1> QED
  BY <1>2, <1>3

LEMMA EnterOpenWatch ==
  ASSUME IInv, WatchInv, NEW c \in Request, EnterOpen(c)
  PROVE  WatchInv'
<1> USE DEF WatchInv
<1>1. pc[c] = "open" /\ DropHandles /\ chosen[c] = NoHandle
  BY DEF EnterOpen, IInv, Local
<1>2. CASE table[wants[c]] # NoHandle
  <2>1. Return(c, "use", {table[wants[c]]}) /\ table' = table
    BY <1>2 DEF EnterOpen
  <2> QED
    BY <1>1, <2>1, ReturnClones, WatchFrame
<1>3. CASE table[wants[c]] = NoHandle
  <2>1. Evict /\ pc' = [pc EXCEPT ![c] = "stamp"] /\ UNCHANGED <<held, chosen>>
    BY <1>3 DEF EnterOpen, Goes
  <2>2. \A r \in Root : table'[r] \in {table[r], NoHandle}
    BY <2>1 DEF Evict, IInv, TypeOK
  <2>3. Clones'
    BY <1>1, <2>1 DEF Clones, IInv, TypeOK
  <2>4. \A d \in Request \ {c} : pc'[d] = pc[d] /\ chosen'[d] = chosen[d]
    BY <2>1 DEF IInv, TypeOK
  <2> QED
    BY <1>1, <2>2, <2>3, <2>4, WatchFrame
<1> QED
  BY <1>2, <1>3

LEMMA LoadWatch ==
  ASSUME IInv, WatchInv, NEW c \in Request, ReadStamp(c) \/ TestExists(c) \/ Load(c)
  PROVE  WatchInv'
<1> USE DEF WatchInv
<1>1. /\ pc[c] \in UnderGate /\ wants[c] \in Root /\ table[wants[c]] = chosen[c]
      /\ (chosen[c] # NoHandle => chosen[c] \in held[c]) /\ table' = table
  BY DEF ReadStamp, TestExists, Load, IInv, Local, Clones
<1>2. CASE Load(c) /\ ~Loads(disk[wants[c]], pc[c] = "strict")
  <2>1. \E where \in {"idle", "use"}, hs \in {{}, {chosen[c]}} :
          Return(c, where, hs) /\ (where # "use" => hs = {})
    BY <1>2 DEF Load
  <2>2. DropHandles
    BY <1>2 DEF Load
  <2> QED
    BY <1>1, <2>1, <2>2, ReturnClones, WatchFrame
<1>3. CASE ~(Load(c) /\ ~Loads(disk[wants[c]], pc[c] = "strict"))
  <2>1. /\ \E where \in UnderGate : pc' = [pc EXCEPT ![c] = where]
        /\ UNCHANGED <<watcher, held, chosen>>
    BY <1>3 DEF ReadStamp, TestExists, Load, Goes, about
  <2>2. Clones' /\ \A d \in Request \ {c} : pc'[d] = pc[d]
    BY <1>1, <2>1 DEF Clones, IInv, TypeOK
  <2> QED
    BY <1>1, <2>1, <2>2, WatchFrame
<1> QED
  BY <1>2, <1>3

\* The handle that is replaced stays live in the request's hands until the new one
\* gets its watcher.
LEMMA InstallWatch ==
  ASSUME IInv, WatchInv, NEW c \in Request, Install(c)
  PROVE  WatchInv'
<1> USE DEF WatchInv
<1>7. /\ pc[c] = "priors" /\ wants[c] \in Root /\ table[wants[c]] = chosen[c]
      /\ (chosen[c] # NoHandle => chosen[c] \in held[c])
  BY DEF Install, IInv, Local, Clones
<1>1. PICK h : /\ h = born + 1 /\ h \in Handle
               /\ table' = [table EXCEPT ![wants[c]] = h]
               /\ held' = [held EXCEPT ![c] = @ \cup {h}]
               /\ chosen' = [chosen EXCEPT ![c] = h]
               /\ pc' = [pc EXCEPT ![c] = "spawn"]
               /\ watcher' = watcher
  <2>1. born + 1 \in Handle
    <3>1. born < MaxHandles /\ born \in 0..MaxHandles /\ MaxHandles \in Nat
      BY Facts DEF Install, IInv, TypeOK
    <3> QED
      BY <3>1 DEF Handle
  <2> QED
    BY <2>1 DEF Install, Goes
<1>2. /\ \A r \in Root : table'[r] = IF r = wants[c] THEN h ELSE table[r]
      /\ \A d \in Request \ {c} : pc'[d] = pc[d] /\ chosen'[d] = chosen[d] /\ held'[d] = held[d]
      /\ pc'[c] = "spawn" /\ chosen'[c] = h /\ held'[c] = held[c] \cup {h}
  BY <1>1 DEF IInv, TypeOK
<1>3. Clones'
  BY <1>2 DEF Clones
<1>4. Live(table, held) \subseteq Live(table', held')
  <2> SUFFICES ASSUME NEW g \in Live(table, held) PROVE g \in Live(table', held')
    OBVIOUS
  <2>1. CASE \E d \in Request : g \in held[d]
    BY <1>2, <2>1 DEF Live
  <2>2. ASSUME NEW r \in Root, table[r] = g PROVE g \in Live(table', held')
    <3>1. CASE r # wants[c]
      BY <1>2, <2>2, <3>1 DEF Live
    <3>2. CASE r = wants[c]
      <4>1. g = chosen[c] /\ g \in Handle /\ g # NoHandle
        BY <1>7, <2>2, <3>2, Facts DEF Live
      <4>2. g \in held'[c]
        BY <1>7, <1>2, <4>1
      <4> QED
        BY <4>1, <4>2 DEF Live
    <3> QED
      BY <3>1, <3>2
  <2> QED
    BY <2>1, <2>2 DEF Live
<1>5. \A g \in Handle : watcher'[g] = "running" => g \in Live(table', held')
  BY <1>1, <1>4 DEF WatchersMatch
<1>6. ASSUME NEW r \in Root, table'[r] # NoHandle
      PROVE  \/ watcher'[table'[r]] = "running"
             \/ \E d \in Request : pc'[d] = "spawn" /\ chosen'[d] = table'[r]
  <2>1. CASE r = wants[c]
    BY <1>2, <2>1
  <2>2. CASE r # wants[c]
    <3>1. table'[r] = table[r] /\ r \in Open
      BY <1>2, <1>6, <2>2 DEF Open
    <3> QED
      BY <1>7, <1>1, <1>2, <3>1 DEF WatchersMatch
  <2> QED
    BY <2>1, <2>2
<1> QED
  BY <1>3, <1>5, <1>6 DEF WatchersMatch, Open

LEMMA SpawnWatch ==
  ASSUME IInv, WatchInv, NEW c \in Request, Spawn(c)
  PROVE  WatchInv'
<1> USE DEF WatchInv
<1>1. /\ pc[c] = "spawn" /\ chosen[c] \in Handle
      /\ Return(c, "use", {chosen[c]}) /\ table' = table
      /\ \A h \in Handle : watcher'[h] =
           IF h = chosen[c] THEN "running"
           ELSE IF watcher[h] = "running" /\ h \notin Live(table', held') THEN "aborted"
           ELSE watcher[h]
  BY DEF Spawn, IInv, Local
<1>2. /\ Clones' /\ held'[c] = {chosen[c]}
      /\ \A d \in Request \ {c} : pc'[d] = pc[d] /\ chosen'[d] = chosen[d]
  BY <1>1, ReturnClones DEF Return, IInv, TypeOK
<1>3. \A h \in Handle : watcher'[h] = "running" => h \in Live(table', held')
  BY <1>1, <1>2 DEF WatchersMatch, Live
<1>4. ASSUME NEW r \in Root, table[r] # NoHandle
      PROVE  \/ watcher'[table[r]] = "running"
             \/ \E d \in Request : pc'[d] = "spawn" /\ chosen'[d] = table[r]
  <2>1. table[r] \in Handle /\ r \in Open /\ table[r] \in Live(table', held')
    BY <1>1, <1>4 DEF IInv, TypeOK, Open, Live
  <2>2. CASE table[r] = chosen[c]
    BY <1>1, <2>1, <2>2
  <2>3. CASE table[r] # chosen[c]
    BY <1>1, <1>2, <2>1, <2>3 DEF WatchersMatch
  <2> QED
    BY <2>2, <2>3
<1> QED
  BY <1>1, <1>2, <1>3, <1>4 DEF WatchersMatch, Open

LEMMA NextWatch == IInv /\ WatchInv /\ [Next]_vars => WatchInv'
<1> SUFFICES ASSUME IInv, WatchInv, [Next]_vars PROVE WatchInv'
  OBVIOUS
<1>1. CASE UNCHANGED vars \/ \E r \in Root : Edit(r)
  <2>1. UNCHANGED <<table, watcher, pc, held, chosen>>
    BY <1>1 DEF vars, Edit, about, locals
  <2> QED
    BY <2>1 DEF WatchInv, Clones, WatchersMatch, Open, Live
<1>2. ASSUME NEW c \in Request, Answer(c) PROVE WatchInv'
  <2>1. pc[c] = "use" /\ Return(c, "idle", {}) /\ DropHandles /\ table' = table
    BY <1>2 DEF Answer
  <2> QED
    BY <2>1, ReturnClones, WatchFrame DEF WatchInv
<1> QED
  BY <1>1, <1>2, LookWatch, EnterReloadWatch, EnterOpenWatch, LoadWatch, InstallWatch, SpawnWatch
  DEF Next, Resolve

\* No watcher outlives its handle, and the handle a root is served by is watched or
\* about to be, however opens, reloads and evictions cross the spawn that comes after
\* the gate (spawn_watcher_for_handle, Drop of RepoHandle).
THEOREM HandlesAreWatched == Spec => []WatchersMatch
<1>1. WatchInv => WatchersMatch
  BY DEF WatchInv
<1> QED
  BY <1>1, InitWatch, NextWatch, RegistryInvariant, PTL DEF Spec

-----------------------------------------------------------------------------
(* The handle that serves a root gets its watcher.                           *)

\* Whoever installed a handle goes on to start its watcher.
SpawnsGoOn == \A c \in Request : pc[c] = "spawn" => <>(pc[c] # "spawn")

\* Request c is about to start the watcher of the handle h that serves root r.
AboutToWatch(c, r, h) == table[r] = h /\ pc[c] = "spawn" /\ chosen[c] = h

\* It can only go on by starting it, unless the handle is replaced or evicted first.
LEMMA WatchesNext ==
  ASSUME IInv, [Next]_vars, NEW c \in Request, NEW r \in Root, NEW h \in Handle,
         AboutToWatch(c, r, h)
  PROVE  AboutToWatch(c, r, h)' \/ table'[r] # h \/ watcher'[h] = "running"
<1>1. ASSUME NEW d \in Request, d # c, Resolve(d) \/ \E q \in Root : Ask(d, q)
      PROVE  pc'[c] = pc[c] /\ chosen'[c] = chosen[c]
  BY <1>1 DEF Resolve, Ask, Look, Check, EnterReload, EnterOpen, ReadStamp, TestExists, Load, Install, Spawn,
              Answer, Return, Goes, IInv, TypeOK
<1>2. CASE Spawn(c)
  BY <1>2 DEF Spawn, AboutToWatch
<1>3. ASSUME Resolve(c) \/ \E q \in Root : Ask(c, q) PROVE Spawn(c)
  BY <1>3 DEF Resolve, Ask, Look, Check, EnterReload, EnterOpen, ReadStamp, TestExists, Load,
              Install, Answer, AboutToWatch
<1>4. CASE UNCHANGED vars \/ \E q \in Root : Edit(q)
  BY <1>4 DEF vars, Edit, about, locals, AboutToWatch
<1>5. QED
  BY <1>1, <1>2, <1>3, <1>4 DEF Next, AboutToWatch

\* One request's patience is enough for the handle it installed.
LEMMA WatchedByOne ==
  ASSUME NEW c \in Request, NEW r \in Root, NEW h \in Handle
  PROVE  []IInv /\ [][Next]_vars /\ (pc[c] = "spawn" => <>(pc[c] # "spawn"))
         => (AboutToWatch(c, r, h) => <>(table[r] # h \/ watcher[h] = "running"))
<1> DEFINE About == AboutToWatch(c, r, h)
           Ready == pc[c] = "spawn"
           Gone == pc[c] # "spawn"
           Goal == table[r] # h \/ watcher[h] = "running"
<1>1. IInv /\ [Next]_vars /\ About => About' \/ Goal'
  BY WatchesNext
<1>2. (About => Ready) /\ (Ready => ~Gone)
  BY DEF AboutToWatch
<1> HIDE DEF About, Ready, Gone, Goal
<1>3. []IInv /\ [][Next]_vars /\ (Ready => <>Gone) => (About => <>Goal)
  BY <1>1, <1>2, PTL
<1>4. QED
  BY <1>3 DEF About, Ready, Gone, Goal

\* The handle that serves a root gets its watcher, unless it is replaced or evicted
\* before: whoever installed it is about to start one, and nothing else can come
\* between (get_or_open, spawn_watcher_for_handle).
THEOREM ServedHandlesGetWatchers ==
  ASSUME NEW r \in Root, NEW h \in Handle
  PROVE  Spec /\ []SpawnsGoOn
         => ((table[r] = h) ~> (table[r] # h \/ watcher[h] = "running"))
<1> DEFINE Serves == table[r] = h
           About == \E c \in Request : AboutToWatch(c, r, h)
           Goal == table[r] # h \/ watcher[h] = "running"
<1>1. IInv /\ WatchInv /\ Serves => About \/ Goal
  BY Facts DEF WatchInv, WatchersMatch, AboutToWatch, Open
<1>2. []IInv /\ [][Next]_vars /\ SpawnsGoOn => (About => <>Goal)
  BY WatchedByOne DEF SpawnsGoOn
<1> HIDE DEF Serves, About, Goal
<1>3. Spec /\ []SpawnsGoOn => (Serves ~> Goal)
  BY <1>1, <1>2, InitWatch, NextWatch, RegistryInvariant, PTL DEF Spec
<1>4. QED
  BY <1>3 DEF Serves, Goal

\* In the end no reload or eviction changes who serves the root.
Settles(r) == (\E h \in Handle : <>[](table[r] = h)) \/ <>[](table[r] = NoHandle)

\* So every root that is not reloaded and evicted for ever is watched: replacements
\* without end are the only other way to stay without a watcher.
THEOREM SettledRootsAreWatched ==
  Spec /\ []SpawnsGoOn /\ (\A r \in Root : Settles(r)) => EveryRootIsWatched
<1> SUFFICES ASSUME NEW r \in Root
             PROVE  Spec /\ []SpawnsGoOn /\ Settles(r)
                    => []<>(table[r] # NoHandle => watcher[table[r]] = "running")
  BY DEF EveryRootIsWatched
<1> DEFINE Watched == table[r] # NoHandle => watcher[table[r]] = "running"
<1>1. ASSUME NEW h \in Handle
      PROVE  Spec /\ []SpawnsGoOn /\ <>[](table[r] = h) => []<>Watched
  <2> DEFINE Serves == table[r] = h
             Goal == table[r] # h \/ watcher[h] = "running"
  <2>1. Spec /\ []SpawnsGoOn => (Serves ~> Goal)
    BY ServedHandlesGetWatchers
  <2>2. Serves /\ Goal => Watched
    OBVIOUS
  <2> HIDE DEF Serves, Goal, Watched
  <2>3. Spec /\ []SpawnsGoOn /\ <>[]Serves => []<>Watched
    BY <2>1, <2>2, PTL
  <2>4. QED
    BY <2>3 DEF Serves
<1>2. <>[](table[r] = NoHandle) => []<>Watched
  <2> DEFINE Closed == table[r] = NoHandle
  <2>1. Closed => Watched
    OBVIOUS
  <2> HIDE DEF Closed, Watched
  <2>2. <>[]Closed => []<>Watched
    BY <2>1, PTL
  <2>3. QED
    BY <2>2 DEF Closed
<1>3. QED
  BY <1>1, <1>2, Zenon DEF Settles, Watched

=============================================================================
