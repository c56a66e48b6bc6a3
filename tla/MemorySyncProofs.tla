--------------------------- MODULE MemorySyncProofs ---------------------------
(***************************************************************************)
(* Proofs about MemorySync, for any entries, texts, circuit breaker and    *)
(* bounds: the variables keep their types, an entry that was retired does  *)
(* not come back, the loser of a conflict is kept, what people wrote is    *)
(* asked for until it is read, a pass brings an entry and its file         *)
(* together, and with jobs and flushes that end every edit is read.        *)
(***************************************************************************)
EXTENDS MemorySync, SequenceTheorems, TLAPS

Item == Bytes \cup {Diff}

\* What holds the guard, the entry it works on and what is planned fit together.
Shape ==
  /\ job = "idle" => target = NoId
  /\ job = "expire" => target = NoId
  /\ job \in {"idle", "write", "remove", "prune"} => \A id \in Id : plan[id] = "none"
  /\ job = "write" => phase \in {"write", "record"}
  /\ (phase = "retire") = (job \in {"remove", "prune"})
  /\ phase = "store" => plan[target] \in {"adopt", "conflict"}
  /\ target # NoId => row[target] # NoRow

\* A planned action has the row and the file it needs.
Planned ==
  \A id \in Id :
    /\ plan[id] \in {"import", "adopt", "conflict"} => seen[id] \in Bytes
    /\ plan[id] \notin {"none", "import"} => row[id] # NoRow

Typed == TypeOK /\ Shape /\ Planned

LEMMA Facts ==
  /\ NoId \notin Id /\ NoRow \notin Row
  /\ NoFile \notin Bytes /\ Unreadable \notin Bytes /\ NoFile # Unreadable
  /\ NoHash \notin Bytes /\ Diff \notin Bytes
  /\ Fresh \in [Text -> Text]
  /\ MaxRevisions \in Nat /\ MaxRevisions >= 2
  /\ MaxTime \in Nat /\ MaxEdits \in Nat /\ MaxWrites \in Nat
  /\ Manual \subseteq Id /\ Expiring \subseteq Id
BY MemorySyncAssumption DEF MemorySyncAssumption

\* What Keep returns: a sequence within the bound that ends with the item.
LEMMA KeepFacts ==
  ASSUME NEW s \in Seq(Item), NEW x \in Item, Len(s) <= MaxRevisions
  PROVE  /\ Keep(s, x) \in Seq(Item)
         /\ Len(Keep(s, x)) <= MaxRevisions
         /\ Len(Keep(s, x)) \in DOMAIN Keep(s, x)
         /\ Keep(s, x)[Len(Keep(s, x))] = x
<1> DEFINE t == Append(s, x)
<1>1. /\ t \in Seq(Item) /\ Len(t) = Len(s) + 1 /\ t[Len(t)] = x
      /\ Len(s) \in Nat /\ t # << >>
  BY AppendProperties, LenProperties
<1>2. CASE Len(t) > MaxRevisions
  <2>1. Keep(s, x) = Tail(t)
    BY <1>2 DEF Keep
  <2>2. t # << >>
    BY <1>1
  <2>3. /\ Tail(t) \in Seq(Item) /\ Len(Tail(t)) = Len(t) - 1
        /\ \A i \in 1..(Len(t) - 1) : Tail(t)[i] = t[i + 1]
    BY <1>1, <2>2, HeadTailProperties
  <2>4. Len(t) - 1 \in 1..(Len(t) - 1)
    BY <1>1, <1>2, Facts
  <2>5. Tail(t)[Len(t) - 1] = t[Len(t)]
    BY <2>3, <2>4, <1>1
  <2>6. DOMAIN Tail(t) = 1..(Len(t) - 1)
    BY <2>3, LenProperties
  <2> QED
    BY <1>1, <1>2, <2>1, <2>3, <2>4, <2>5, <2>6, Facts
<1>3. CASE ~(Len(t) > MaxRevisions)
  <2>1. Keep(s, x) = t
    BY <1>3 DEF Keep
  <2>2. DOMAIN t = 1..Len(t)
    BY <1>1, LenProperties
  <2> QED
    BY <1>1, <1>3, <2>1, <2>2, Facts
<1> QED
  BY <1>2, <1>3

\* The item before the last one survives another Keep: MAX_REVISIONS is at least 2.
LEMMA KeepKeeps ==
  ASSUME NEW s \in Seq(Item), NEW x \in Item, NEW y \in Item, Len(s) <= MaxRevisions
  PROVE  \E i \in DOMAIN Keep(Keep(s, x), y) : Keep(Keep(s, x), y)[i] = x
<1> DEFINE k == Keep(s, x)
<1> DEFINE t == Append(k, y)
<1>1. /\ k \in Seq(Item) /\ Len(k) <= MaxRevisions /\ Len(k) \in DOMAIN k
      /\ k[Len(k)] = x
  BY KeepFacts
<1>2. Len(k) \in Nat /\ DOMAIN k = 1..Len(k)
  BY <1>1, LenProperties
<1> HIDE DEF k
<1> SUFFICES \E i \in DOMAIN Keep(k, y) : Keep(k, y)[i] = x
  BY DEF k
<1>3. /\ t \in Seq(Item) /\ Len(t) = Len(k) + 1 /\ t[Len(k)] = k[Len(k)]
  BY <1>1, <1>2, AppendProperties
<1>4. CASE Len(t) > MaxRevisions
  <2>1. Keep(k, y) = Tail(t)
    BY <1>4 DEF Keep
  <2>2. t # << >>
    BY <1>1, AppendProperties
  <2>3. /\ Tail(t) \in Seq(Item) /\ Len(Tail(t)) = Len(t) - 1
        /\ \A i \in 1..(Len(t) - 1) : Tail(t)[i] = t[i + 1]
    BY <1>3, <2>2, HeadTailProperties
  <2>4. DOMAIN Tail(t) = 1..(Len(t) - 1)
    BY <2>3, LenProperties
  <2>5. /\ Len(k) - 1 \in 1..(Len(t) - 1) /\ (Len(k) - 1) + 1 = Len(k)
        /\ Len(k) \in Nat
    <3>1. Len(k) >= 2 /\ Len(k) \in Nat /\ Len(t) - 1 = Len(k)
      <4>1. MaxRevisions \in Nat /\ MaxRevisions >= 2
        BY Facts
      <4>2. Len(k) \in Nat /\ Len(t) = Len(k) + 1
        BY <1>2, <1>3
      <4> HIDE DEF t
      <4> QED
        BY <1>4, <4>1, <4>2
    <3> HIDE DEF t
    <3> QED
      BY <3>1
  <2>6. Tail(t)[Len(k) - 1] = x
    BY <1>1, <1>3, <2>3, <2>5
  <2>7. Len(k) - 1 \in DOMAIN Tail(t)
    BY <2>4, <2>5
  <2>8. \E i \in DOMAIN Tail(t) : Tail(t)[i] = x
    BY <2>6, <2>7, Zenon
  <2> QED
    BY <2>1, <2>8, Zenon
<1>5. CASE ~(Len(t) > MaxRevisions)
  <2>1. Keep(k, y) = t
    BY <1>5 DEF Keep
  <2>2. Len(k) \in DOMAIN t
    BY <1>1, <1>2, <1>3, LenProperties
  <2>3. t[Len(k)] = x
    BY <1>1, <1>3
  <2>4. \E i \in DOMAIN t : t[i] = x
    BY <2>2, <2>3, Zenon
  <2> QED
    BY <2>1, <2>4, Zenon
<1> QED
  BY <1>4, <1>5

-----------------------------------------------------------------------------
(* Types.                                                                   *)

LEMMA RenderFacts ==
  /\ \A r \in Row : Render(r) \in Bytes
  /\ \A t \in Text : Fresh[t] \in Text
BY Facts DEF Render, Row, Bytes

LEMMA KeptTyping ==
  ASSUME TypeOK, NEW id \in Id, NEW s \in Seq(Item), Len(s) <= MaxRevisions,
         kept' = [kept EXCEPT ![id] = s]
  PROVE  /\ kept' \in [Id -> Seq(Bytes \cup {Diff})]
         /\ \A i \in Id : Len(kept'[i]) <= MaxRevisions
BY DEF TypeOK, Item

LEMMA RevisedTyping ==
  ASSUME TypeOK, NEW id \in Id, NEW text
  PROVE  Revised(id, text) \in Seq(Item) /\ Len(Revised(id, text)) <= MaxRevisions
<1>1. kept[id] \in Seq(Item) /\ Len(kept[id]) <= MaxRevisions /\ Diff \in Item
  BY DEF TypeOK, Item
<1> QED
  BY <1>1, KeepFacts DEF Revised

LEMMA InitTyping == Init => Typed
<1> SUFFICES ASSUME Init PROVE Typed
  OBVIOUS
<1>1. << >> \in Seq(Item) /\ Len(<< >>) = 0
  BY EmptySeq
<1>2. /\ kept \in [Id -> Seq(Item)]
      /\ \A id \in Id : Len(kept[id]) <= MaxRevisions
  BY <1>1, Facts DEF Init
<1>3. /\ plan \in [Id -> Actions] /\ seen \in [Id -> Bytes \cup {NoFile}]
      /\ row \in [Id -> Row \cup {NoRow}] /\ file \in [Id -> Bytes \cup {NoFile, Unreadable}]
  BY DEF Init, Actions
<1>4. time \in 0..MaxTime /\ edits \in 0..MaxEdits /\ writes \in 0..MaxWrites
  BY Facts DEF Init
<1>5. TypeOK
  BY <1>2, <1>3, <1>4 DEF Init, TypeOK, Item, Passes
<1> QED
  BY <1>5 DEF Init, Typed, Shape, Planned

LEMMA PeopleTyping == Typed /\ (Tick \/ People) => Typed'
<1> SUFFICES ASSUME Typed, Tick \/ People PROVE Typed'
  OBVIOUS
<1> USE DEF Typed
<1>1. CASE Tick
  <2>1. TypeOK'
    BY <1>1, Facts DEF Tick, TypeOK, store, disk, work, tally
  <2> QED
    BY <1>1, <2>1 DEF Tick, Shape, Planned, store, disk, work, tally
<1>2. ASSUME NEW id \in Id, NEW b \in Bytes \cup {NoFile, Unreadable}, FileBecomes(id, b),
             proven' \subseteq Id
      PROVE  Typed'
  <2>1. edits' \in 0..MaxEdits
    BY <1>2, Facts DEF FileBecomes, TypeOK
  <2>2. TypeOK'
    BY <1>2, <2>1 DEF FileBecomes, TypeOK, store, work
  <2> QED
    BY <1>2, <2>2 DEF FileBecomes, Shape, Planned, store, work
<1>3. ASSUME NEW id \in Id, PersonWrites(id) \/ PersonDeletes(id) \/ MergeStops(id)
      PROVE  /\ \E b \in Bytes \cup {NoFile, Unreadable} : FileBecomes(id, b)
             /\ proven' \subseteq Id
  BY <1>3 DEF PersonWrites, PersonDeletes, MergeStops, TypeOK
<1> QED
  BY <1>1, <1>2, <1>3 DEF People

LEMMA DecisionFacts ==
  ASSUME TypeOK, NEW id \in Id
  PROVE  /\ Decision(id) \in Actions \cup {"note"}
         /\ Reads(id) \in Bytes \cup {NoFile}
         /\ Decision(id) \in {"import", "adopt", "conflict", "note"} => Reads(id) \in Bytes
         /\ Decision(id) \notin {"none", "import"} => row[id] \in Row
<1>1. Reads(id) \in Bytes \cup {NoFile}
  BY DEF TypeOK, Reads
<1> QED
  BY <1>1 DEF Decision, Actions, TypeOK

LEMMA PassTyping ==
  ASSUME Typed, NEW kind \in Passes, StartPass(kind), changed' \subseteq Id,
         writes' \in 0..MaxWrites
  PROVE  Typed'
<1> USE DEF Typed
<1>1. \A id \in Id : plan'[id] \in Actions /\ (plan'[id] # "none" => plan'[id] = Decision(id))
  BY DecisionFacts DEF StartPass, Actions
<1>2. \A id \in Id :
        row'[id] \in Row \cup {NoRow} /\ (row'[id] = NoRow) = (row[id] = NoRow)
  <2> SUFFICES ASSUME NEW id \in Id
               PROVE  row'[id] \in Row \cup {NoRow} /\ (row'[id] = NoRow) = (row[id] = NoRow)
    OBVIOUS
  <2>1. CASE Decision(id) = "note"
    <3>1. row[id] \in Row /\ Reads(id) \in Bytes
      BY <2>1, DecisionFacts
    <3>2. row'[id] = [row[id] EXCEPT !.hash = Reads(id)]
      BY <2>1 DEF StartPass
    <3>3. row'[id] \in Row
      BY <3>1, <3>2 DEF Row
    <3> QED
      BY <3>1, <3>3, Facts
  <2>2. CASE Decision(id) # "note"
    BY <2>2 DEF StartPass, TypeOK
  <2> QED
    BY <2>1, <2>2
<1>3. seen' \in [Id -> Bytes \cup {NoFile}]
  BY DecisionFacts DEF StartPass
<1>4. TypeOK'
  <2>1. row' \in [Id -> Row \cup {NoRow}] /\ plan' \in [Id -> Actions]
    BY <1>1, <1>2 DEF StartPass
  <2> QED
    BY <1>3, <2>1 DEF StartPass, TypeOK
<1>5. Planned'
  BY <1>1, <1>2, DecisionFacts, Facts DEF StartPass, Planned
<1>6. Shape'
  BY Facts DEF StartPass, Shape, TypeOK, Passes
<1> QED
  BY <1>4, <1>5, <1>6

LEMMA FlushTyping == Typed /\ (Flush \/ FlushEmptySlot \/ \E kind \in Passes : RunPass(kind)) => Typed'
<1> SUFFICES ASSUME Typed, Flush \/ FlushEmptySlot \/ \E kind \in Passes : RunPass(kind)
             PROVE  Typed'
  OBVIOUS
<1> USE DEF Typed
<1>1. CASE Flush
  <2>1. CASE OwnWrites
    <3>1. TypeOK'
      BY <1>1, <2>1 DEF Flush, TypeOK, store, work, tally
    <3> QED
      BY <1>1, <2>1, <3>1 DEF Flush, Shape, Planned, store, work, tally
  <2>2. CASE ~OwnWrites
    <3>1. StartPass("sync") /\ changed' \subseteq Id /\ writes' \in 0..MaxWrites
      BY <1>1, <2>2 DEF Flush, TypeOK
    <3> QED
      BY <3>1, PassTyping DEF Passes
  <2> QED
    BY <2>1, <2>2
<1>2. CASE FlushEmptySlot
  <2>1. TypeOK'
    BY <1>2 DEF FlushEmptySlot, TypeOK, store, work, tally
  <2> QED
    BY <1>2, <2>1 DEF FlushEmptySlot, Shape, Planned, store, work, tally
<1>3. ASSUME NEW kind \in Passes, RunPass(kind) PROVE Typed'
  <2>1. writes' \in 0..MaxWrites
    BY <1>3, Facts DEF RunPass, TypeOK
  <2>2. StartPass(kind) /\ changed' \subseteq Id
    BY <1>3 DEF RunPass, TypeOK
  <2> QED
    BY <2>1, <2>2, PassTyping
<1> QED
  BY <1>1, <1>2, <1>3

\* Where one entry's row is replaced by another row, the rest of the types stay.
LEMMA RowTyping ==
  ASSUME Typed, NEW id \in Id, NEW r \in Row, row' = [row EXCEPT ![id] = r]
  PROVE  /\ row' \in [Id -> Row \cup {NoRow}] /\ row'[id] = r /\ r # NoRow
         /\ \A i \in Id : row'[i] = NoRow => row[i] = NoRow
BY Facts DEF Typed, TypeOK

LEMMA BeginTyping ==
  ASSUME Typed, Passing, NEW id \in Id, plan[id] # "none",
         Project(id) \/ Import(id) \/ Adopt(id)
  PROVE  Typed'
<1> USE DEF Typed
<1>1. CASE Project(id)
  <2>1. row[id] # NoRow /\ id # NoId
    BY <1>1, Facts DEF Project, Planned
  <2>2. TypeOK'
    BY <1>1, <2>1, Facts DEF Project, Begin, TypeOK, store, disk, tally
  <2>3. Shape'
    BY <1>1, <2>1, Facts DEF Project, Begin, Passing, Passes, Shape, store
  <2> QED
    BY <1>1, <2>2, <2>3 DEF Project, Begin, Planned, store
<1>2. CASE Import(id)
  <2>1. seen[id] \in Bytes /\ id # NoId
    BY <1>2, Facts DEF Import, Planned
  <2> DEFINE r == [text |-> Fresh[seen[id].text], at |-> seen[id].at,
                   status |-> seen[id].status, hash |-> NoHash]
  <2>2. r \in Row
    BY <2>1, Facts DEF Row, Bytes
  <2>3. CASE Duplicate(id, Fresh[seen[id].text])
    <3>1. /\ UNCHANGED <<row, kept, disk, proven, time, dropped, retired, tally, job, seen,
                         target, phase>>
          /\ plan' = [plan EXCEPT ![id] = "none"]
      BY <1>2, <2>3 DEF Import, Done
    <3>2. TypeOK'
      BY <3>1 DEF TypeOK, Actions, disk, tally
    <3>3. Shape' /\ Planned'
      BY <1>2, <3>1 DEF Import, Passing, Passes, Shape, Planned, TypeOK
    <3> QED
      BY <3>2, <3>3
  <2>4. CASE ~Duplicate(id, Fresh[seen[id].text])
    <3>1. /\ row' = [row EXCEPT ![id] = r] /\ target' = id /\ phase' = "write"
          /\ UNCHANGED <<kept, disk, proven, time, dropped, retired, tally, job, plan, seen>>
      BY <1>2, <2>4 DEF Import, Begin
    <3> HIDE DEF r
    <3>2. /\ row' \in [Id -> Row \cup {NoRow}] /\ row'[id] # NoRow
          /\ \A i \in Id : row'[i] = NoRow => row[i] = NoRow
      BY <2>2, <3>1, RowTyping
    <3>3. TypeOK'
      BY <2>1, <3>1, <3>2 DEF TypeOK, disk, tally
    <3>4. Shape'
      BY <1>2, <2>1, <3>1, <3>2 DEF Import, Passing, Passes, Shape
    <3>5. Planned'
      BY <3>1, <3>2 DEF Planned
    <3> QED
      BY <3>3, <3>4, <3>5
  <2> QED
    BY <2>3, <2>4
<1>3. CASE Adopt(id)
  <2>1. row[id] # NoRow /\ id # NoId /\ plan[id] = "adopt"
    BY <1>3, Facts DEF Adopt, Planned
  <2>2. /\ kept' \in [Id -> Seq(Bytes \cup {Diff})]
        /\ \A i \in Id : Len(kept'[i]) <= MaxRevisions
    BY <1>3, RevisedTyping, KeptTyping DEF Adopt
  <2>3. TypeOK'
    BY <1>3, <2>1, <2>2 DEF Adopt, Begin, TypeOK, disk, tally
  <2>4. Shape'
    BY <1>3, <2>1 DEF Adopt, Begin, Passing, Passes, Shape
  <2> QED
    BY <1>3, <2>3, <2>4 DEF Adopt, Begin, Planned
<1> QED
  BY <1>1, <1>2, <1>3

LEMMA ConflictTyping == ASSUME Typed, NEW id \in Id, Conflict(id) PROVE Typed'
<1> USE DEF Typed
<1> DEFINE saved == Keep(kept[id], Render(row[id]))
<1> DEFINE other == [seen[id] EXCEPT !.text = Fresh[@]]
<1>1. /\ row[id] \in Row /\ seen[id] \in Bytes /\ id # NoId /\ plan[id] = "conflict"
      /\ kept[id] \in Seq(Item) /\ Len(kept[id]) <= MaxRevisions
  BY Facts DEF Conflict, Planned, TypeOK, Item
<1>2. Diff \in Item /\ Render(row[id]) \in Item /\ other \in Item
  BY <1>1, Facts, RenderFacts DEF Item, Bytes
<1>3. saved \in Seq(Item) /\ Len(saved) <= MaxRevisions
  BY <1>1, <1>2, KeepFacts
<1>4. Keep(saved, Diff) \in Seq(Item) /\ Len(Keep(saved, Diff)) <= MaxRevisions
  BY <1>2, <1>3, KeepFacts
<1>5. Keep(kept[id], other) \in Seq(Item) /\ Len(Keep(kept[id], other)) <= MaxRevisions
  BY <1>1, <1>2, KeepFacts
<1>6. \E s \in Seq(Item) : Len(s) <= MaxRevisions /\ kept' = [kept EXCEPT ![id] = s]
  BY <1>3, <1>4, <1>5 DEF Conflict
<1>7. /\ kept' \in [Id -> Seq(Bytes \cup {Diff})]
      /\ \A i \in Id : Len(kept'[i]) <= MaxRevisions
  BY <1>6, KeptTyping
<1>8. /\ Passing /\ target' = id /\ phase' \in {"store", "write"}
      /\ UNCHANGED <<row, disk, proven, time, dropped, retired, tally, job, plan, seen>>
  BY DEF Conflict, Begin
<1>9. TypeOK'
  BY <1>1, <1>7, <1>8 DEF TypeOK, disk, tally
<1>10. Shape'
  BY <1>1, <1>8, Facts DEF Passing, Passes, Shape
<1> QED
  BY <1>8, <1>9, <1>10 DEF Planned

LEMMA SettleTyping ==
  ASSUME Typed, NEW id \in Id, Revive(id) \/ Archive(id)
  PROVE  Typed'
<1> USE DEF Typed
<1>1. row[id] \in Row /\ id # NoId /\ time \in 0..MaxTime
  BY Facts DEF Revive, Archive, Planned, TypeOK
<1>2. CASE Revive(id)
  <2> DEFINE r == [row[id] EXCEPT !.status = "active"]
  <2>1. r \in Row
    BY <1>1 DEF Row, Status
  <2>2. row' = [row EXCEPT ![id] = r]
    BY <1>2 DEF Revive
  <2>3. /\ row' \in [Id -> Row \cup {NoRow}] /\ row'[id] # NoRow
        /\ \A i \in Id : row'[i] = NoRow => row[i] = NoRow
    BY <2>1, <2>2, RowTyping
  <2>4. TypeOK'
    BY <1>1, <1>2, <2>3 DEF Revive, Begin, TypeOK, disk, tally
  <2>5. Shape'
    BY <1>1, <1>2, <2>3 DEF Revive, Begin, Passing, Passes, Shape
  <2> QED
    BY <1>2, <2>3, <2>4, <2>5 DEF Revive, Begin, Planned
<1>3. CASE Archive(id)
  <2> DEFINE r == [row[id] EXCEPT !.status = "archived", !.at = time]
  <2>1. r \in Row
    BY <1>1 DEF Row, Status
  <2>2. row' = [row EXCEPT ![id] = r]
    BY <1>3, <1>1 DEF Archive, Row
  <2>3. /\ row' \in [Id -> Row \cup {NoRow}] /\ row'[id] # NoRow
        /\ \A i \in Id : row'[i] = NoRow => row[i] = NoRow
    BY <2>1, <2>2, RowTyping
  <2>4. plan' = [plan EXCEPT ![id] = "none"]
    BY <1>3 DEF Archive, Done
  <2>5. TypeOK'
    BY <1>3, <2>3, <2>4 DEF Archive, Done, TypeOK, Actions, disk, tally
  <2>6. Shape'
    BY <1>3, <2>3, <2>4 DEF Archive, Done, Passing, Passes, Shape, TypeOK
  <2>7. Planned'
    BY <1>3, <2>3, <2>4 DEF Archive, Done, Planned, TypeOK
  <2> QED
    BY <2>5, <2>6, <2>7
<1> QED
  BY <1>2, <1>3

LEMMA WriteTyping == Typed /\ (Store \/ WriteFile \/ Record) => Typed'
<1> SUFFICES ASSUME Typed, Store \/ WriteFile \/ Record PROVE Typed'
  OBVIOUS
<1> USE DEF Typed
<1>1. phase \in {"store", "write", "record"}
  BY DEF Store, WriteFile, Record
<1>2. target \in Id /\ row[target] \in Row /\ job \in Passes \cup {"write"}
  BY <1>1, Facts DEF TypeOK, Shape
<1>3. CASE Store
  <2>1. seen[target] \in Bytes /\ plan[target] \in {"adopt", "conflict"}
    BY <1>2, <1>3 DEF Store, Shape, Planned
  <2> DEFINE b == seen[target]
  <2> DEFINE stamp == IF plan[target] = "conflict" \/ b.at > row[target].at THEN b.at ELSE time
  <2> DEFINE r == [text |-> Fresh[b.text], status |-> b.status, hash |-> row[target].hash,
                   at |-> stamp]
  <2>2. stamp \in 0..MaxTime
    BY <2>1 DEF TypeOK, Bytes
  <2>3. /\ Fresh[b.text] \in Text /\ b.status \in Status
        /\ row[target].hash \in Bytes \cup {NoHash}
    BY <1>2, <2>1, RenderFacts DEF Row, Bytes
  <2>4. row' = [row EXCEPT ![target] = r]
    BY <1>2, <1>3 DEF Store, TypeOK
  <2> HIDE DEF stamp, b
  <2>5. r \in Row
    BY <2>2, <2>3 DEF Row
  <2> HIDE DEF r
  <2>6. /\ row' \in [Id -> Row \cup {NoRow}] /\ row'[target] # NoRow
        /\ \A i \in Id : row'[i] = NoRow => row[i] = NoRow
    BY <1>2, <2>4, <2>5, RowTyping
  <2>7. TypeOK'
    BY <1>2, <1>3, <2>6, Facts DEF Store, TypeOK, disk, tally
  <2>8. Shape'
    BY <1>2, <1>3, <2>6 DEF Store, Passes, Shape
  <2> QED
    BY <1>3, <2>6, <2>7, <2>8 DEF Store, Planned
<1>4. CASE WriteFile
  <2>1. Render(row[target]) \in Bytes
    BY <1>2, RenderFacts
  <2>2. file' \in [Id -> Bytes \cup {NoFile, Unreadable}] /\ changed' \subseteq Id
    BY <1>2, <1>4, <2>1 DEF WriteFile, TypeOK
  <2>3. TypeOK'
    BY <1>2, <1>4, <2>2, Facts DEF WriteFile, TypeOK, store, tally
  <2>4. Shape'
    BY <1>2, <1>4 DEF WriteFile, Passes, Shape, store
  <2> QED
    BY <1>4, <2>3, <2>4 DEF WriteFile, Planned, store
<1>5. CASE Record
  <2> DEFINE r == [row[target] EXCEPT !.hash = Render(row[target])]
  <2>1. r \in Row
    BY <1>2, RenderFacts DEF Row
  <2>2. row' = [row EXCEPT ![target] = r]
    BY <1>5 DEF Record
  <2> HIDE DEF r
  <2>3. /\ row' \in [Id -> Row \cup {NoRow}] /\ row'[target] # NoRow
        /\ \A i \in Id : row'[i] = NoRow => row[i] = NoRow
    BY <1>2, <2>1, <2>2, RowTyping
  <2>4. /\ plan' \in [Id -> Actions] /\ job' \in {"idle"} \cup Passes
        /\ (job' = "idle" => job = "write")
    BY <1>2, <1>5 DEF Record, TypeOK, Actions, Passes
  <2>5. TypeOK'
    BY <1>5, <2>3, <2>4 DEF Record, Rest, TypeOK, disk, tally
  <2>6. \A i \in Id : plan'[i] \in {plan[i], "none"}
    BY <1>5 DEF Record, TypeOK
  <2>7. Shape'
    BY <1>5, <2>3, <2>4, <2>6 DEF Record, Rest, Passes, Shape
  <2> QED
    BY <1>5, <2>3, <2>5, <2>6, <2>7 DEF Record, Planned
<1> QED
  BY <1>3, <1>4, <1>5

\* Whatever ends with the guard free again.
LEMMA IdleTyping ==
  ASSUME Typed, Idle, row' \in [Id -> Row \cup {NoRow}], file' = file,
         kept' \in [Id -> Seq(Bytes \cup {Diff})],
         \A i \in Id : Len(kept'[i]) <= MaxRevisions,
         proven' = proven, time' = time, tally' = tally,
         changed' \subseteq Id, retired' \subseteq Id, dropped' \in BOOLEAN
  PROVE  Typed'
<1>1. TypeOK'
  BY DEF Typed, TypeOK, Idle, Rest, Actions, tally
<1>2. Shape' /\ Planned'
  BY DEF Idle, Rest, Shape, Planned, Passes
<1> QED
  BY <1>1, <1>2 DEF Typed

LEMMA ExpireTyping ==
  ASSUME Typed, Expire, dropped' \in BOOLEAN,
         UNCHANGED <<kept, disk, proven, time, retired, tally>>
  PROVE  Typed'
<1>1. PICK E \in SUBSET {id \in Expiring : row[id] # NoRow /\ row[id].status = "active"} :
        /\ row' = [id \in Id |->
             IF id \in E THEN [row[id] EXCEPT !.status = "archived", !.at = time] ELSE row[id]]
        /\ job' = "expire"
        /\ plan' = [id \in Id |-> IF id \in E THEN "dispose" ELSE "none"]
        /\ seen' = [id \in Id |-> NoFile]
        /\ Rest
  BY DEF Expire
<1>2. \A id \in Id : row'[id] \in Row \cup {NoRow} /\ (row'[id] = NoRow => row[id] = NoRow)
  <2> SUFFICES ASSUME NEW id \in Id
               PROVE  row'[id] \in Row \cup {NoRow} /\ (row'[id] = NoRow => row[id] = NoRow)
    OBVIOUS
  <2>1. CASE id \in E
    <3>1. row[id] \in Row /\ time \in 0..MaxTime
      BY <2>1 DEF Typed, TypeOK
    <3>2. [row[id] EXCEPT !.status = "archived", !.at = time] \in Row
      BY <3>1 DEF Row, Status
    <3> QED
      BY <1>1, <2>1, <3>2, Facts
  <2>2. CASE id \notin E
    BY <1>1, <2>2 DEF Typed, TypeOK
  <2> QED
    BY <2>1, <2>2
<1>3. \A id \in Id : plan'[id] # "none" => row[id] # NoRow
  BY <1>1
<1>4. row' \in [Id -> Row \cup {NoRow}] /\ plan' \in [Id -> Actions]
  BY <1>1, <1>2 DEF Actions
<1>5. TypeOK'
  BY <1>1, <1>4 DEF Typed, TypeOK, Rest, disk, tally
<1>6. Shape'
  <2>1. job' = "expire" /\ target' = NoId /\ phase' = "none"
    BY <1>1 DEF Rest
  <2> QED
    BY <2>1 DEF Shape
<1>7. Planned'
  BY <1>1, <1>2, <1>3 DEF Planned
<1> QED
  BY <1>5, <1>6, <1>7 DEF Typed

LEMMA EndTyping ==
  Typed /\ (EndPass \/ EndExpire \/ PassFails \/ ProjectionFails \/ Crash) => Typed'
<1> SUFFICES ASSUME Typed, EndPass \/ EndExpire \/ PassFails \/ ProjectionFails \/ Crash
             PROVE  Typed'
  OBVIOUS
<1>1. /\ row \in [Id -> Row \cup {NoRow}] /\ kept \in [Id -> Seq(Bytes \cup {Diff})]
      /\ \A i \in Id : Len(kept[i]) <= MaxRevisions
      /\ changed \subseteq Id /\ retired \subseteq Id /\ dropped \in BOOLEAN
  BY DEF Typed, TypeOK
<1>2. CASE EndPass
  <2>1. CASE job = "sync"
    BY <1>1, <1>2, <2>1, IdleTyping DEF EndPass, disk, tally
  <2>2. CASE job # "sync"
    BY <1>1, <1>2, <2>2, ExpireTyping DEF EndPass
  <2> QED
    BY <2>1, <2>2
<1>3. CASE EndExpire
  BY <1>1, <1>3, IdleTyping DEF EndExpire, store, disk, tally
<1>4. CASE PassFails
  <2>1. CASE job = "sync"
    BY <1>1, <1>4, <2>1, IdleTyping DEF PassFails, disk, tally
  <2>2. CASE job # "sync"
    BY <1>1, <1>4, <2>2, ExpireTyping DEF PassFails
  <2> QED
    BY <2>1, <2>2
<1>5. CASE ProjectionFails
  BY <1>1, <1>5, IdleTyping DEF ProjectionFails, store, disk, tally
<1>6. CASE Crash
  <2>1. changed' \subseteq Id /\ dropped' \in BOOLEAN /\ retired' \subseteq Id
    BY <1>1, <1>6 DEF Crash
  <2> QED
    BY <1>1, <1>6, <2>1, IdleTyping DEF Crash, store, tally
<1> QED
  BY <1>2, <1>3, <1>4, <1>5, <1>6

LEMMA DisposeTyping == ASSUME Typed, NEW id \in Id, Dispose(id) PROVE Typed'
<1>1. file' \in [Id -> Bytes \cup {NoFile, Unreadable}] /\ changed' \subseteq Id
  BY DEF Dispose, Typed, TypeOK, disk
<1>2. /\ plan' = [plan EXCEPT ![id] = "none"]
      /\ UNCHANGED <<store, proven, time, dropped, retired, tally, job, seen, target, phase>>
  BY DEF Dispose, Done
<1>3. TypeOK'
  BY <1>1, <1>2 DEF Typed, TypeOK, Actions, store, tally
<1>4. \A i \in Id : plan'[i] \in {plan[i], "none"}
  BY <1>2 DEF Typed, TypeOK
<1>5. job = "expire"
  BY DEF Dispose
<1>6. Shape'
  BY <1>2, <1>5 DEF Typed, TypeOK, Shape, Passes, store
<1>7. Planned'
  BY <1>2, <1>4 DEF Typed, Planned, store
<1> QED
  BY <1>3, <1>6, <1>7 DEF Typed

LEMMA WriteMemoryTyping ==
  ASSUME Typed, NEW id \in Id, NEW text \in Text, WriteMemory(id, text)
  PROVE  Typed'
<1> DEFINE r == IF row[id] = NoRow
                THEN [text |-> text, at |-> time, status |-> "active", hash |-> NoHash]
                ELSE [row[id] EXCEPT !.text = text, !.at = time]
<1>1. /\ row[id] \in Row \cup {NoRow} /\ id # NoId /\ time \in 0..MaxTime
      /\ row' = [row EXCEPT ![id] = r]
  BY Facts DEF Typed, TypeOK, WriteMemory
<1>2. r \in Row
  BY <1>1 DEF Row, Status
<1> HIDE DEF r
<1>3. /\ row' \in [Id -> Row \cup {NoRow}] /\ row'[id] # NoRow
      /\ \A i \in Id : row'[i] = NoRow => row[i] = NoRow
  BY <1>1, <1>2, RowTyping
<1>4. /\ kept' \in [Id -> Seq(Bytes \cup {Diff})]
      /\ \A i \in Id : Len(kept'[i]) <= MaxRevisions
  <2>1. kept[id] \in Seq(Item) /\ Len(kept[id]) <= MaxRevisions
    BY DEF Typed, TypeOK, Item
  <2>2. \E s \in Seq(Item) : Len(s) <= MaxRevisions /\ kept' = [kept EXCEPT ![id] = s]
    BY <2>1, RevisedTyping DEF WriteMemory, Typed
  <2> QED
    BY <2>2, KeptTyping DEF Typed
<1>5. writes' \in 0..MaxWrites
  BY Facts DEF WriteMemory, Starts, Typed, TypeOK
<1>6. TypeOK'
  BY <1>1, <1>3, <1>4, <1>5 DEF WriteMemory, Typed, TypeOK, disk
<1>7. Shape'
  BY <1>1, <1>3 DEF WriteMemory, Starts, Typed, Shape, Passes
<1>8. Planned'
  BY <1>3 DEF WriteMemory, Typed, Planned
<1> QED
  BY <1>6, <1>7, <1>8 DEF Typed

LEMMA RetireTyping ==
  Typed /\ (RetireRow \/ \E id \in Id : (\E how \in {"remove", "prune"} : Retire(id, how)) \/ Confirm(id))
    => Typed'
<1> SUFFICES ASSUME Typed,
        RetireRow \/ \E id \in Id : (\E how \in {"remove", "prune"} : Retire(id, how)) \/ Confirm(id)
             PROVE  Typed'
  OBVIOUS
<1>1. CASE RetireRow
  <2>1. target \in Id /\ row[target] \in Row /\ time \in 0..MaxTime
    BY <1>1, Facts DEF RetireRow, Typed, TypeOK, Shape
  <2>2. [row[target] EXCEPT !.status = "archived", !.at = time] \in Row
    BY <2>1 DEF Row, Status
  <2>3. \/ row' = [row EXCEPT ![target] = NoRow] /\ kept' = [kept EXCEPT ![target] = <<>>]
        \/ /\ row' = [row EXCEPT ![target] = [row[target] EXCEPT !.status = "archived", !.at = time]]
           /\ kept' = kept
    BY <1>1, <2>1 DEF RetireRow, Row
  <2>4. row' \in [Id -> Row \cup {NoRow}]
    BY <2>1, <2>2, <2>3 DEF Typed, TypeOK
  <2>5. << >> \in Seq(Item) /\ Len(<< >>) = 0 /\ Len(<< >>) <= MaxRevisions
    BY EmptySeq, Facts
  <2>6. /\ kept' \in [Id -> Seq(Bytes \cup {Diff})]
        /\ \A i \in Id : Len(kept'[i]) <= MaxRevisions
    BY <2>1, <2>3, <2>5, KeptTyping DEF Typed, TypeOK
  <2>7. changed' \subseteq Id /\ retired' \subseteq Id /\ dropped' \in BOOLEAN
    BY <1>1 DEF RetireRow, Typed, TypeOK, disk
  <2> QED
    BY <1>1, <2>4, <2>6, <2>7, IdleTyping DEF RetireRow, disk
<1>2. ASSUME NEW id \in Id, NEW how \in {"remove", "prune"}, Retire(id, how) PROVE Typed'
  <2>1. writes' \in 0..MaxWrites
    BY <1>2, Facts DEF Retire, Starts, Typed, TypeOK
  <2>2. file' \in [Id -> Bytes \cup {NoFile, Unreadable}] /\ changed' \subseteq Id /\ id # NoId
    BY <1>2, Facts DEF Retire, Typed, TypeOK
  <2>3. TypeOK'
    BY <1>2, <2>1, <2>2 DEF Retire, Typed, TypeOK, store
  <2>4. Shape' /\ Planned'
    BY <1>2, <2>2 DEF Retire, Starts, Typed, Shape, Planned, Passes, store
  <2> QED
    BY <2>3, <2>4 DEF Typed
<1>3. ASSUME NEW id \in Id, Confirm(id) PROVE Typed'
  <2> DEFINE r == [row[id] EXCEPT !.status = "active", !.at = time]
  <2>1. row[id] \in Row /\ time \in 0..MaxTime
    BY <1>3 DEF Confirm, Typed, TypeOK
  <2>2. row' = [row EXCEPT ![id] = r]
    BY <1>3, <2>1 DEF Confirm, Row
  <2>2a. r \in Row
    BY <2>1 DEF Row, Status
  <2> HIDE DEF r
  <2>3. /\ row' \in [Id -> Row \cup {NoRow}]
        /\ \A i \in Id : row'[i] = NoRow => row[i] = NoRow
    BY <2>2, <2>2a, RowTyping
  <2>4. writes' \in 0..MaxWrites
    BY <1>3, Facts DEF Confirm, Starts, Typed, TypeOK
  <2>5. TypeOK'
    BY <1>3, <2>3, <2>4 DEF Confirm, Typed, TypeOK, disk, work
  <2>6. job = "idle" /\ UNCHANGED work /\ target = NoId
    BY <1>3 DEF Confirm, Starts, Typed, Shape
  <2>7. /\ job' = "idle" /\ target' = NoId /\ phase' = "none"
        /\ \A i \in Id : plan'[i] = "none"
    BY <2>6 DEF Typed, TypeOK, Shape, work
  <2>8. Shape' /\ Planned'
    BY <2>7 DEF Shape, Planned
  <2> QED
    BY <2>5, <2>8 DEF Typed
<1> QED
  BY <1>1, <1>2, <1>3

LEMMA StutterTyping == Typed /\ UNCHANGED vars => Typed'
BY DEF vars, store, disk, work, tally, Typed, TypeOK, Shape, Planned

\* The variables keep their types, the bound on revisions included
\* (prune_revisions), and every planned action has what it needs.
LEMMA NextTyping == Typed /\ [Next]_vars => Typed'
<1> SUFFICES ASSUME Typed, Next PROVE Typed'
  BY StutterTyping
<1>1. ASSUME NEW id \in Id,
             Project(id) \/ Import(id) \/ Adopt(id) \/ Conflict(id) \/ Revive(id) \/ Archive(id)
      PROVE  Typed'
  <2>1. CASE Project(id) \/ Import(id) \/ Adopt(id)
    BY <2>1, BeginTyping DEF Project, Import, Adopt
  <2> QED
    BY <1>1, <2>1, ConflictTyping, SettleTyping
<1> QED
  BY <1>1, PeopleTyping, FlushTyping, WriteTyping, EndTyping, DisposeTyping,
     WriteMemoryTyping, RetireTyping
  DEF Next, Work, Apply, Operate, Trouble

THEOREM SyncTyping == Spec => []TypeOK
<1>1. Typed => TypeOK
  BY DEF Typed
<1> QED
  BY <1>1, InitTyping, NextTyping, PTL DEF Spec

-----------------------------------------------------------------------------
(* A retired entry does not come back.                                      *)

Inactive(r) == r = NoRow \/ r.status = "archived"

\* Its file is gone, no pass has plans for it, and only its own removal still works
\* on it: so the next classification finds nothing to revive or to import.
Gone ==
  \A id \in retired :
    /\ file[id] = NoFile
    /\ plan[id] = "none"
    /\ target = id => phase = "retire"
    /\ target # id => Inactive(row[id])

\* A step that leaves the entry, its file and its plan alone.
LEMMA GoneFrame ==
  ASSUME Gone, retired' \subseteq retired,
         \A id \in retired' : /\ file'[id] = NoFile /\ plan'[id] = "none"
                              /\ target' # id /\ Inactive(row'[id])
  PROVE  Gone'
BY DEF Gone, Inactive

\* Outside the removal itself nothing works on a retired entry.
LEMMA NotTarget ==
  ASSUME Typed, Gone, phase # "retire", NEW id \in retired
  PROVE  target # id /\ id \in Id /\ file[id] = NoFile /\ plan[id] = "none" /\ Inactive(row[id])
BY DEF Typed, TypeOK, Gone

LEMMA InitGone == Init => Gone
BY DEF Init, Gone

LEMMA PeopleGone == Typed /\ Gone /\ (Tick \/ People) => Gone'
<1> SUFFICES ASSUME Typed, Gone, Tick \/ People PROVE Gone'
  OBVIOUS
<1>1. CASE Tick
  BY <1>1 DEF Tick, Gone, Inactive, store, disk, work
<1>2. ASSUME NEW id \in Id, NEW b, FileBecomes(id, b) PROVE Gone'
  BY <1>2 DEF FileBecomes, Gone, Inactive, Typed, TypeOK, store, work
<1> QED
  BY <1>1, <1>2 DEF People, PersonWrites, PersonDeletes, MergeStops

LEMMA PassGone ==
  ASSUME Typed, Gone, NEW kind \in Passes, StartPass(kind)
  PROVE  Gone'
<1>1. phase # "retire"
  BY DEF StartPass, Typed, Shape
<1>2. ASSUME NEW id \in retired PROVE Decision(id) = "none"
  <2>1. file[id] = NoFile /\ Inactive(row[id])
    BY <1>1, NotTarget
  <2>2. Reads(id) = NoFile
    BY <2>1, Facts DEF Reads
  <2> QED
    BY <2>1, <2>2 DEF Decision, Inactive
<1>3. \A id \in retired : /\ id \in Id /\ target # id /\ file[id] = NoFile
                          /\ Inactive(row[id]) /\ Decision(id) = "none"
  BY <1>1, <1>2, NotTarget
<1>4. \A id \in retired : plan'[id] = "none" /\ row'[id] = row[id]
  BY <1>3 DEF StartPass
<1> QED
  BY <1>3, <1>4, GoneFrame DEF StartPass

LEMMA FlushGone ==
  Typed /\ Gone /\ (Flush \/ FlushEmptySlot \/ \E kind \in Passes : RunPass(kind)) => Gone'
<1> SUFFICES ASSUME Typed, Gone, Flush \/ FlushEmptySlot \/ \E kind \in Passes : RunPass(kind)
             PROVE  Gone'
  OBVIOUS
<1>1. CASE Flush /\ OwnWrites
  BY <1>1 DEF Flush, Gone, Inactive, store, work
<1>2. CASE Flush /\ ~OwnWrites
  BY <1>2, PassGone DEF Flush, Passes
<1>3. CASE FlushEmptySlot
  BY <1>3 DEF FlushEmptySlot, Gone, Inactive, store, work
<1> QED
  BY <1>1, <1>2, <1>3, PassGone DEF RunPass

\* The steps of a pass on an entry it has plans for: never a retired one.
LEMMA WorkGone ==
  ASSUME Typed, Gone, Apply \/ Store \/ WriteFile \/ Record
  PROVE  Gone'
<1>1. \A id \in retired : id \in Id /\ file[id] = NoFile /\ plan[id] = "none"
  BY DEF Gone, Typed, TypeOK
<1>2. ASSUME NEW id \in Id,
             Project(id) \/ Import(id) \/ Adopt(id) \/ Conflict(id) \/ Revive(id) \/ Archive(id)
      PROVE  Gone'
  <2>1. plan[id] # "none" /\ phase # "retire"
    BY <1>2 DEF Project, Import, Adopt, Conflict, Revive, Archive, Passing, Passes, Typed, Shape
  <2>2. id \notin retired /\ \A i \in retired : target # i /\ Inactive(row[i])
    BY <1>1, <2>1, NotTarget
  <2>3. /\ retired' = retired /\ file' = file
        /\ \A i \in Id \ {id} : row'[i] = row[i] /\ plan'[i] = plan[i]
    BY <1>2 DEF Project, Import, Adopt, Conflict, Revive, Archive, Begin, Done, disk, store,
                Typed, TypeOK
  <2>4. target' \in {id, target}
    BY <1>2 DEF Project, Import, Adopt, Conflict, Revive, Archive, Begin, Done
  <2>5. \A i \in retired' : /\ file'[i] = NoFile /\ plan'[i] = "none"
                            /\ target' # i /\ Inactive(row'[i])
    BY <1>1, <2>2, <2>3, <2>4
  <2> QED
    BY <2>3, <2>5, GoneFrame
<1>3. CASE Store \/ WriteFile \/ Record
  <2>1. phase \in {"store", "write", "record"} /\ target \in Id
    BY <1>3 DEF Store, WriteFile, Record, Typed, TypeOK
  <2>2. \A i \in retired : target # i /\ Inactive(row[i])
    BY <2>1, NotTarget
  <2>3. /\ retired' = retired
        /\ \A i \in Id \ {target} : row'[i] = row[i] /\ plan'[i] = plan[i] /\ file'[i] = file[i]
    BY <1>3, <2>1 DEF Store, WriteFile, Record, disk, store, Typed, TypeOK
  <2>4. target' \in {target, NoId}
    BY <1>3 DEF Store, WriteFile, Record, Rest
  <2>5. \A i \in retired' : /\ file'[i] = NoFile /\ plan'[i] = "none"
                            /\ target' # i /\ Inactive(row'[i])
    BY <1>1, <2>2, <2>3, <2>4, Facts
  <2> QED
    BY <2>3, <2>5, GoneFrame
<1> QED
  BY <1>2, <1>3 DEF Apply

LEMMA ExpireGone ==
  ASSUME Typed, Gone, job \in Passes, Expire, retired' = retired, file' = file
  PROVE  Gone'
<1>1. phase # "retire"
  BY DEF Typed, Shape, Passes
<1>2. \A id \in retired : id \in Id /\ file[id] = NoFile /\ Inactive(row[id])
  BY <1>1, NotTarget
<1>3. PICK E \in SUBSET {id \in Expiring : row[id] # NoRow /\ row[id].status = "active"} :
        /\ row' = [id \in Id |->
             IF id \in E THEN [row[id] EXCEPT !.status = "archived", !.at = time] ELSE row[id]]
        /\ plan' = [id \in Id |-> IF id \in E THEN "dispose" ELSE "none"]
        /\ target' = NoId
  BY DEF Expire, Rest
<1>4. \A id \in retired : id \notin E
  BY <1>2 DEF Inactive
<1>5. \A id \in retired : row'[id] = row[id] /\ plan'[id] = "none" /\ target' # id
  BY <1>2, <1>3, <1>4, Facts
<1> QED
  BY <1>2, <1>5, GoneFrame

LEMMA IdleGone ==
  ASSUME Typed, Gone, Idle, file' = file,
         retired' \subseteq retired,
         \A id \in retired' : Inactive(row'[id])
  PROVE  Gone'
BY Facts, GoneFrame DEF Idle, Rest, Gone, Typed, TypeOK

LEMMA EndGone ==
  Typed /\ Gone /\ (EndPass \/ EndExpire \/ PassFails \/ ProjectionFails \/ Crash) => Gone'
<1> SUFFICES ASSUME Typed, Gone, EndPass \/ EndExpire \/ PassFails \/ ProjectionFails \/ Crash
             PROVE  Gone'
  OBVIOUS
<1>1. CASE EndPass \/ PassFails
  <2>1. job \in Passes /\ phase # "retire" /\ retired' = retired /\ file' = file
    BY <1>1 DEF EndPass, PassFails, Passing, Passes, Typed, Shape, disk
  <2>2. CASE job = "sync"
    <3>1. row' = row /\ Idle
      BY <1>1, <2>2 DEF EndPass, PassFails
    <3> QED
      BY <2>1, <3>1, NotTarget, IdleGone
  <2>3. CASE job # "sync"
    BY <1>1, <2>1, <2>3, ExpireGone DEF EndPass, PassFails
  <2> QED
    BY <2>2, <2>3
<1>2. CASE EndExpire \/ ProjectionFails
  <2>1. phase # "retire" /\ retired' = retired /\ file' = file /\ row' = row /\ Idle
    BY <1>2 DEF EndExpire, ProjectionFails, Typed, Shape, store, disk
  <2> QED
    BY <2>1, NotTarget, IdleGone
<1>3. CASE Crash
  <2>1. /\ retired' = retired \ {target} /\ file' = file /\ row' = row /\ Idle
    BY <1>3 DEF Crash, store
  <2>2. \A id \in retired' : Inactive(row[id])
    BY <2>1 DEF Gone
  <2> QED
    BY <2>1, <2>2, IdleGone
<1> QED
  BY <1>1, <1>2, <1>3

LEMMA DisposeGone == ASSUME Typed, Gone, NEW id \in Id, Dispose(id) PROVE Gone'
<1>1. /\ phase # "retire" /\ plan[id] = "dispose" /\ retired' = retired
      /\ row' = row /\ target' = target
  BY DEF Dispose, Done, Typed, Shape, store
<1>2. \A i \in Id \ {id} : file'[i] = file[i] /\ plan'[i] = plan[i]
  BY DEF Dispose, Done, disk, Typed, TypeOK
<1> QED
  BY <1>1, <1>2, NotTarget, GoneFrame

LEMMA OperationGone ==
  Typed /\ Gone /\ (RetireRow \/ Operate) /\ ~(\E kind \in Passes : RunPass(kind)) => Gone'
<1> SUFFICES ASSUME Typed, Gone, RetireRow \/ Operate, ~(\E kind \in Passes : RunPass(kind))
             PROVE  Gone'
  OBVIOUS
<1>1. CASE RetireRow
  <2>1. /\ target \in Id /\ row[target] \in Row /\ file' = file /\ retired' = retired /\ Idle
    BY <1>1, Facts DEF RetireRow, Typed, TypeOK, Shape, disk
  <2>2. Inactive(row'[target])
    BY <1>1, <2>1 DEF RetireRow, Inactive, Typed, TypeOK, Row
  <2>3. \A id \in Id \ {target} : row'[id] = row[id]
    BY <1>1, <2>1 DEF RetireRow, Typed, TypeOK
  <2>4. \A id \in retired' : Inactive(row'[id])
    BY <2>1, <2>2, <2>3 DEF Gone, Typed, TypeOK
  <2> QED
    BY <2>1, <2>4, IdleGone
<1>2. ASSUME NEW id \in Id, NEW text, WriteMemory(id, text) PROVE Gone'
  <2>1. job = "idle" /\ phase # "retire"
    BY <1>2 DEF WriteMemory, Starts, Typed, Shape
  <2>2. /\ retired' = retired \ {id} /\ target' = id /\ file' = file /\ plan' = plan
        /\ \A i \in Id \ {id} : row'[i] = row[i]
    BY <1>2 DEF WriteMemory, disk, Typed, TypeOK
  <2> QED
    BY <2>1, <2>2, NotTarget, GoneFrame
<1>3. ASSUME NEW id \in Id, NEW how \in {"remove", "prune"}, Retire(id, how) PROVE Gone'
  <2>1. /\ job = "idle" /\ phase # "retire" /\ \A i \in Id : plan[i] = "none"
    BY <1>3 DEF Retire, Starts, Typed, Shape
  <2>2. /\ retired' = retired \cup {id} /\ target' = id /\ phase' = "retire"
        /\ row' = row /\ plan' = plan
        /\ \A i \in Id : file'[i] = IF i = id THEN NoFile ELSE file[i]
    BY <1>3 DEF Retire, store, Typed, TypeOK
  <2>3. \A i \in retired : i \in Id /\ file[i] = NoFile /\ Inactive(row[i])
    BY <2>1, NotTarget
  <2> QED
    BY <2>1, <2>2, <2>3 DEF Gone, Inactive
<1>4. ASSUME NEW id \in Id, Confirm(id) PROVE Gone'
  <2>1. job = "idle" /\ phase # "retire"
    BY <1>4 DEF Confirm, Starts, Typed, Shape
  <2>2. /\ retired' = retired \ {id} /\ UNCHANGED work /\ file' = file
        /\ \A i \in Id \ {id} : row'[i] = row[i]
    BY <1>4 DEF Confirm, disk, Typed, TypeOK
  <2> QED
    BY <2>1, <2>2, NotTarget, GoneFrame DEF work
<1> QED
  BY <1>1, <1>2, <1>3, <1>4 DEF Operate

LEMMA NextGone == Typed /\ Gone /\ [Next]_vars => Gone'
<1>1. ASSUME Typed, Gone, UNCHANGED vars PROVE Gone'
  BY <1>1 DEF vars, store, disk, work, Gone, Inactive
<1> QED
  BY <1>1, PeopleGone, FlushGone, WorkGone, EndGone, DisposeGone, OperationGone
  DEF Next, Work, Trouble, Operate

\* An entry that was removed or pruned does not come back, whatever pass, crash,
\* failed write or deletion follows (archive_then_remove's order).
THEOREM RetiredEntryStays == Spec => []RetiredStays
<1>1. Gone => RetiredStays
  BY DEF Gone, Inactive, RetiredStays
<1> QED
  BY <1>1, InitTyping, NextTyping, InitGone, NextGone, PTL DEF Spec

-----------------------------------------------------------------------------
(* The loser of a conflict is kept.                                         *)

\* Before either side is replaced the version it says is safe: the row's among the
\* revisions, the file's in the row or among the revisions.
Safe ==
  /\ phase = "store" /\ plan[target] = "conflict" =>
       Holds(NoRow, kept[target], row[target].text)
  /\ phase = "write" /\ plan[target] \in {"adopt", "conflict"} =>
       Holds(row[target], kept[target], Fresh[seen[target].text])

\* A step after which nothing is about to be replaced, or which leaves it all alone.
LEMMA SafeFrame ==
  ASSUME Safe,
         \/ phase' \notin {"store", "write"}
         \/ UNCHANGED <<phase, target, plan, seen, row, kept>>
  PROVE  Safe'
BY DEF Safe, Holds

LEMMA ConflictSafe ==
  ASSUME Typed, NEW id \in Id, Conflict(id)
  PROVE  Safe'
<1> USE DEF Typed
<1> DEFINE old == Render(row[id])
<1> DEFINE other == [seen[id] EXCEPT !.text = Fresh[@]]
<1>1. /\ row[id] \in Row /\ seen[id] \in Bytes /\ plan[id] = "conflict"
      /\ kept[id] \in Seq(Item) /\ Len(kept[id]) <= MaxRevisions
  BY Facts DEF Conflict, Planned, TypeOK, Item
<1>2. Diff \in Item /\ old \in Item /\ other \in Item
  BY <1>1, Facts, RenderFacts DEF Item, Bytes
<1>3. /\ old # Diff /\ old.text = row[id].text
      /\ other # Diff /\ other.text = Fresh[seen[id].text]
  BY <1>1, Facts, RenderFacts DEF Render, Bytes
<1>4. UNCHANGED <<row, plan, seen>> /\ target' = id
  BY DEF Conflict, Begin
<1>5. CASE FileWins(id)
  <2>1. phase' = "store"
    BY <1>5 DEF Conflict, Begin
  <2>2. CASE id \in Manual /\ row[id].text # Fresh[seen[id].text]
    <3>1. kept'[id] = Keep(Keep(kept[id], old), Diff)
      BY <1>5, <2>2 DEF Conflict, TypeOK
    <3>2. \E i \in DOMAIN kept'[id] : kept'[id][i] = old
      BY <1>1, <1>2, <3>1, KeepKeeps
    <3>3. Holds(NoRow, kept'[id], row[id].text)
      BY <1>3, <3>2 DEF Holds
    <3> QED
      BY <1>4, <2>1, <3>3 DEF Safe
  <2>3. CASE ~(id \in Manual /\ row[id].text # Fresh[seen[id].text])
    <3>1. kept'[id] = Keep(kept[id], old)
      BY <1>5, <2>3 DEF Conflict, TypeOK
    <3>2. \E i \in DOMAIN kept'[id] : kept'[id][i] = old
      BY <1>1, <1>2, <3>1, KeepFacts
    <3>3. Holds(NoRow, kept'[id], row[id].text)
      BY <1>3, <3>2 DEF Holds
    <3> QED
      BY <1>4, <2>1, <3>3 DEF Safe
  <2> QED
    BY <2>2, <2>3
<1>6. CASE ~FileWins(id)
  <2>1. phase' = "write" /\ kept'[id] = Keep(kept[id], other)
    BY <1>6 DEF Conflict, Begin, TypeOK
  <2>2. \E i \in DOMAIN kept'[id] : kept'[id][i] = other
    BY <1>1, <1>2, <2>1, KeepFacts
  <2>3. Holds(row[id], kept'[id], Fresh[seen[id].text])
    BY <1>3, <2>2 DEF Holds
  <2> QED
    BY <1>4, <2>1, <2>3 DEF Safe
<1> QED
  BY <1>5, <1>6

LEMMA StoreSafe == ASSUME Typed, Store PROVE Safe'
<1>1. /\ phase' = "write" /\ UNCHANGED <<kept, plan, seen, target>>
      /\ target \in Id /\ row[target] \in Row
  BY Facts DEF Store, Typed, TypeOK, Shape
<1>2. row'[target].text = Fresh[seen[target].text] /\ row'[target] \in Row \cup {NoRow}
  BY <1>1, NextTyping DEF Store, Typed, TypeOK, Next, Work
<1>3. row'[target] # NoRow
  BY <1>1, NextTyping, Facts DEF Typed, Shape, TypeOK, Next, Work
<1> QED
  BY <1>1, <1>2, <1>3 DEF Safe, Holds

LEMMA NextSafe == Typed /\ Safe /\ [Next]_vars => Safe'
<1> SUFFICES ASSUME Typed, Safe, [Next]_vars PROVE Safe'
  OBVIOUS
<1>1. CASE UNCHANGED vars \/ Tick \/ FlushEmptySlot
  BY <1>1, SafeFrame DEF vars, Tick, FlushEmptySlot, store, work
<1>2. CASE People
  BY <1>2, SafeFrame DEF People, PersonWrites, PersonDeletes, MergeStops, FileBecomes, store, work
<1>3. CASE Flush \/ \E kind \in Passes : RunPass(kind)
  <2>1. phase = "none" /\ phase' = phase
    BY <1>3 DEF Flush, RunPass, StartPass, work, Typed, TypeOK, Shape
  <2> QED
    BY <2>1, SafeFrame
<1>4. ASSUME NEW id \in Id, Project(id) \/ Import(id) \/ Revive(id) \/ Archive(id) PROVE Safe'
  <2>1. phase = "none" /\ plan[id] \notin {"adopt", "conflict"}
    BY <1>4 DEF Project, Import, Revive, Archive, Passing, Typed, TypeOK
  <2>2. \/ phase' = phase
        \/ phase' = "write" /\ target' = id /\ plan' = plan
    BY <1>4 DEF Project, Import, Revive, Archive, Begin, Done
  <2> QED
    BY <2>1, <2>2, SafeFrame DEF Safe
<1>5. ASSUME NEW id \in Id, Adopt(id) PROVE Safe'
  BY <1>5 DEF Adopt, Begin, Safe
<1>6. CASE WriteFile \/ Record \/ EndExpire \/ RetireRow \/ ProjectionFails \/ Crash
  BY <1>6, SafeFrame DEF WriteFile, Record, EndExpire, RetireRow, ProjectionFails, Crash, Idle, Rest
<1>7. CASE EndPass \/ PassFails
  BY <1>7, SafeFrame DEF EndPass, PassFails, Idle, Expire, Rest
<1>8. ASSUME NEW id \in Id, Dispose(id) PROVE Safe'
  <2>1. phase = "none" /\ phase' = phase
    BY <1>8 DEF Dispose, Done, Typed, TypeOK, Shape
  <2> QED
    BY <2>1, SafeFrame
<1>9. ASSUME NEW id \in Id, NEW text, WriteMemory(id, text) PROVE Safe'
  <2>1. plan'[id] = "none" /\ target' = id /\ phase' = "write"
    BY <1>9 DEF WriteMemory, Starts, Typed, Shape
  <2> QED
    BY <2>1 DEF Safe
<1>10. ASSUME NEW id \in Id, NEW how, Retire(id, how) PROVE Safe'
  BY <1>10, SafeFrame DEF Retire
<1>11. ASSUME NEW id \in Id, Confirm(id) PROVE Safe'
  <2>1. phase' = "none"
    BY <1>11 DEF Confirm, Starts, work, Typed, TypeOK, Shape
  <2> QED
    BY <2>1, SafeFrame
<1> QED
  BY <1>1, <1>2, <1>3, <1>4, <1>5, <1>6, <1>7, <1>8, <1>9, <1>10, <1>11,
     ConflictSafe, StoreSafe
  DEF Next, Work, Apply, Operate, Trouble

\* When both sides of an entry changed, the version that loses is in the row or among
\* the revisions before the other takes its place (apply_sync_action, Conflict).
THEOREM TheLoserIsKept == Spec => LoserIsKept
<1>1. Init => Safe
  BY DEF Init, Safe
<1>2. Typed /\ Safe => /\ Store /\ plan[target] = "conflict" =>
                            Holds(row'[target], kept'[target], row[target].text)
                       /\ WriteFile /\ plan[target] \in {"adopt", "conflict"} =>
                            Holds(row'[target], kept'[target], Fresh[seen[target].text])
  BY DEF Safe, Store, WriteFile, Holds, store
<1> QED
  BY <1>1, <1>2, InitTyping, NextTyping, NextSafe, PTL DEF Spec, LoserIsKept

-----------------------------------------------------------------------------
(* What people wrote is asked for until it is read.                         *)

\* Only what has no row is imported, and after a pass only files are moved.
Aimed ==
  \A id \in Id :
    /\ plan[id] = "import" => row[id] = NoRow \/ target = id
    /\ job = "expire" => plan[id] \in {"none", "dispose"}

LEMMA NextAimed == Typed /\ Aimed /\ [Next]_vars => Aimed'
<1> SUFFICES ASSUME Typed, Aimed, [Next]_vars PROVE Aimed'
  OBVIOUS
<1>1. CASE UNCHANGED vars \/ Tick \/ FlushEmptySlot
  BY <1>1 DEF vars, Tick, FlushEmptySlot, store, work, Aimed
<1>2. CASE People
  BY <1>2 DEF People, PersonWrites, PersonDeletes, MergeStops, FileBecomes, store, work, Aimed
<1>3. CASE Flush \/ \E kind \in Passes : RunPass(kind)
  <2>1. CASE Flush /\ OwnWrites
    BY <2>1 DEF Flush, store, work, Aimed
  <2>2. ASSUME NEW kind \in Passes, StartPass(kind) PROVE Aimed'
    <3>1. kind # "expire"
      BY DEF Passes
    <3>2. ASSUME NEW id \in Id, plan'[id] = "import" PROVE row'[id] = NoRow
      <4>1. Decision(id) = "import" /\ row'[id] = row[id]
        BY <2>2, <3>2 DEF StartPass
      <4> QED
        BY <4>1 DEF Decision
    <3> QED
      BY <2>2, <3>1, <3>2 DEF StartPass, Aimed
  <2> QED
    BY <1>3, <2>1, <2>2 DEF Flush, RunPass, Passes
<1>4. ASSUME NEW id \in Id,
             Project(id) \/ Import(id) \/ Adopt(id) \/ Conflict(id) \/ Revive(id) \/ Archive(id)
      PROVE  Aimed'
  <2>1. target = NoId /\ job' = job /\ job # "expire" /\ id # NoId
    BY <1>4, Facts DEF Project, Import, Adopt, Conflict, Revive, Archive, Passing, Passes, Begin, Done
  <2>2. \/ target' = id /\ plan' = plan
        \/ target' = target /\ plan' = [plan EXCEPT ![id] = "none"]
    BY <1>4 DEF Project, Import, Adopt, Conflict, Revive, Archive, Begin, Done
  <2>3. \A i \in Id \ {id} : row'[i] = row[i]
    BY <1>4 DEF Project, Import, Adopt, Conflict, Revive, Archive, store, Typed, TypeOK
  <2> QED
    BY <2>1, <2>2, <2>3, Facts DEF Aimed, Typed, TypeOK
<1>5. CASE Store \/ WriteFile
  <2>1. /\ UNCHANGED <<job, plan, target>> /\ target \in Id
        /\ \A i \in Id \ {target} : row'[i] = row[i]
    BY <1>5, Facts DEF Store, WriteFile, store, Typed, TypeOK
  <2> QED
    BY <2>1 DEF Aimed
<1>6. CASE Record
  <2>1. /\ target \in Id /\ job' \in {job, "idle"} /\ plan' = [plan EXCEPT ![target] = "none"]
        /\ \A i \in Id \ {target} : row'[i] = row[i]
    BY <1>6, Facts DEF Record, Typed, TypeOK
  <2> QED
    BY <2>1 DEF Aimed, Typed, TypeOK
<1>7. CASE EndPass \/ PassFails \/ EndExpire \/ RetireRow \/ ProjectionFails \/ Crash
  BY <1>7 DEF EndPass, PassFails, EndExpire, RetireRow, ProjectionFails, Crash, Idle, Expire, Aimed
<1>8. ASSUME NEW id \in Id, Dispose(id) PROVE Aimed'
  BY <1>8 DEF Dispose, Done, store, Aimed, Typed, TypeOK
<1>9. ASSUME NEW id \in Id, NEW text, NEW how,
             WriteMemory(id, text) \/ Retire(id, how) \/ Confirm(id), how \in {"remove", "prune"}
      PROVE  Aimed'
  <2>1. job' \in {"write", "remove", "prune", "idle"} /\ \A i \in Id : plan'[i] = "none"
    BY <1>9 DEF WriteMemory, Retire, Confirm, Starts, work, Typed, Shape
  <2> QED
    BY <2>1 DEF Aimed
<1> QED
  BY <1>1, <1>2, <1>3, <1>4, <1>5, <1>6, <1>7, <1>8, <1>9
  DEF Next, Work, Apply, Operate, Trouble

\* The actions that read the file of their entry.
Reading == {"import", "adopt", "conflict", "revive"}

\* What an entry's file says and the store has not read is planned or collected; for
\* a file without a row any change will do, while the store has no rows.
Noticed(id) ==
  /\ file[id] \in Bytes /\ plan[id] = "archive" => id \in changed
  /\ Unread(id) => \/ plan[id] \in Reading
                   \/ IF row[id] = NoRow THEN changed # {} ELSE id \in changed

\* A file the store wrote or moved away is collected before its row follows.
Collected == phase \in {"record", "retire"} => target \in changed

Asked == Collected /\ (~dropped => \A id \in Id : Noticed(id))

LEMMA InitAsked == Init => Aimed /\ Asked
BY Facts DEF Init, Aimed, Asked, Collected, Noticed, Unread

\* A step that leaves an entry's row and file alone, and its plan or no plan to read it.
LEMMA NoticedFrame ==
  ASSUME NEW id \in Id, Noticed(id), changed \subseteq changed',
         file'[id] = file[id], plan'[id] \in {plan[id], "none", "dispose"},
         plan[id] \in Reading => plan'[id] = plan[id],
         \A i \in Id : (row'[i] = NoRow) = (row[i] = NoRow),
         row[id] # NoRow => row'[id].hash = row[id].hash
  PROVE  Noticed(id)'
BY DEF Noticed, Unread, Reading

\* A step that collects the file of an entry with a row.
LEMMA CollectedNoticed ==
  ASSUME NEW id \in Id, id \in changed'
  PROVE  Noticed(id)'
BY DEF Noticed

\* What a step on one entry leaves of the others.
LEMMA OthersNoticed ==
  ASSUME NEW id \in Id, NEW i \in Id, i # id, Noticed(i), changed \subseteq changed',
         file'[i] = file[i], plan'[i] = plan[i],
         \A j \in Id \ {id} : row'[j] = row[j],
         row'[id] = NoRow => row[id] = NoRow
  PROVE  Noticed(i)'
BY DEF Noticed, Unread

LEMMA PeopleAsked == Typed /\ Asked /\ (Tick \/ People) => Asked'
<1> SUFFICES ASSUME Typed, Asked, Tick \/ People PROVE Asked'
  OBVIOUS
<1>1. CASE Tick
  BY <1>1 DEF Tick, Asked, Collected, Noticed, Unread, store, disk, work
<1>2. ASSUME NEW id \in Id, NEW b, FileBecomes(id, b) PROVE Asked'
  <2>1. /\ changed' = changed \cup {id} /\ dropped' = dropped
        /\ UNCHANGED <<row, job, plan, seen, target, phase>>
        /\ \A i \in Id \ {id} : file'[i] = file[i]
    BY <1>2 DEF FileBecomes, store, work, Typed, TypeOK
  <2>2. Collected'
    BY <2>1 DEF Asked, Collected
  <2>3. ASSUME NEW i \in Id, Noticed(i) PROVE Noticed(i)'
    BY <2>1, <2>3, CollectedNoticed, OthersNoticed
  <2> QED
    BY <2>1, <2>2, <2>3 DEF Asked
<1> QED
  BY <1>1, <1>2 DEF People, PersonWrites, PersonDeletes, MergeStops

\* The classification plans to read every file that says something unread.
LEMMA PassAsked ==
  ASSUME Typed, Asked, NEW kind \in Passes, StartPass(kind)
  PROVE  Asked'
<1>1. Collected' /\ dropped' = dropped
  BY DEF StartPass, Collected, Typed, TypeOK, Shape
<1>2. ASSUME NEW id \in Id PROVE Noticed(id)'
  <2>1. /\ file' = file
        /\ plan'[id] = IF Decision(id) = "note" \/ (id \in Suspects /\ Cardinality(Suspects) > Cap)
                       THEN "none" ELSE Decision(id)
        /\ row'[id] = IF Decision(id) = "note" THEN [row[id] EXCEPT !.hash = Reads(id)] ELSE row[id]
    BY DEF StartPass
  <2>2. (row'[id] = NoRow) = (row[id] = NoRow)
    <3>1. row[id] \in Row /\ Decision(id) = "note" => row'[id] \in Row
      BY <2>1, DecisionFacts DEF Typed, Row
    <3> QED
      BY <2>1, <3>1, DecisionFacts, Facts DEF Typed
  <2>3. ASSUME file[id] \in Bytes PROVE Reads(id) = file[id] /\ Reads(id) # NoFile
    BY <2>3, Facts DEF Reads
  <2>4. plan'[id] = "archive" => Reads(id) = NoFile
    BY <2>1 DEF Decision
  <2>5. CASE row[id] = NoRow
    BY <2>1, <2>2, <2>3, <2>4, <2>5 DEF Noticed, Unread, Decision, Reading, Suspects
  <2>6. CASE row[id] # NoRow
    <3>1. row[id] \in Row
      BY <2>6 DEF Typed, TypeOK
    <3>2. CASE Decision(id) = "note"
      <4>1. row'[id].hash = Reads(id)
        BY <2>1, <3>1, <3>2 DEF Row
      <4> QED
        BY <2>1, <2>2, <2>3, <2>4, <2>6, <4>1 DEF Noticed, Unread
    <3>3. CASE Decision(id) # "note"
      <4>1. row'[id] = row[id]
        BY <2>1, <3>3
      <4>2. ASSUME file[id] \in Bytes, row[id].hash \notin {NoHash, file[id]}
            PROVE  Decision(id) \in Reading
        BY <2>3, <2>6, <3>3, <4>2 DEF Decision, Reading
      <4> QED
        BY <2>1, <2>3, <2>4, <2>6, <3>3, <4>1, <4>2 DEF Noticed, Unread, Reading, Suspects
    <3> QED
      BY <3>2, <3>3
  <2> QED
    BY <2>5, <2>6
<1> QED
  BY <1>1, <1>2 DEF Asked

\* The flush lets go only of what the store wrote itself.
LEMMA FlushAsked ==
  Typed /\ Asked /\ (Flush \/ FlushEmptySlot \/ \E kind \in Passes : RunPass(kind)) => Asked'
<1> SUFFICES ASSUME Typed, Asked, Flush \/ FlushEmptySlot \/ \E kind \in Passes : RunPass(kind)
             PROVE  Asked'
  OBVIOUS
<1>1. CASE Flush /\ OwnWrites
  <2>1. job = "idle" /\ changed # {} /\ changed \subseteq Id /\ UNCHANGED <<row, file, work, dropped>>
    BY <1>1 DEF Flush, store, Typed, TypeOK
  <2>2. phase = "none" /\ \A id \in Id : plan[id] = "none"
    BY <2>1 DEF Typed, Shape, TypeOK
  <2>3. \A i \in changed : row[i] # NoRow /\ row[i].hash = file[i]
    BY <1>1 DEF OwnWrites
  <2>4. ASSUME ~dropped, NEW id \in Id PROVE ~Unread(id)
    <3>1. Noticed(id) /\ plan[id] = "none"
      BY <2>2, <2>4 DEF Asked
    <3> QED
      BY <2>1, <2>3, <3>1 DEF Noticed, Unread, Reading
  <2> QED
    BY <2>1, <2>2, <2>4 DEF Asked, Collected, Noticed, Unread, work
<1>2. CASE Flush /\ ~OwnWrites
  BY <1>2, PassAsked DEF Flush, Passes
<1>3. CASE FlushEmptySlot
  BY <1>3 DEF FlushEmptySlot, Asked, Collected, work, Typed, TypeOK, Shape
<1> QED
  BY <1>1, <1>2, <1>3, PassAsked DEF RunPass

\* A pass forgets a plan only when the row has the file, or the file was collected.
LEMMA WorkAsked ==
  ASSUME Typed, Aimed, Asked, Apply \/ Store \/ WriteFile \/ Record
  PROVE  Asked'
<1>1. ASSUME NEW id \in Id,
             Project(id) \/ Import(id) \/ Adopt(id) \/ Conflict(id) \/ Revive(id) \/ Archive(id)
      PROVE  Asked'
  <2>1. phase = "none" /\ target = NoId /\ dropped' = dropped /\ disk' = disk
    BY <1>1 DEF Project, Import, Adopt, Conflict, Revive, Archive, Passing, Typed, TypeOK
  <2>2. Collected'
    BY <1>1, <2>1 DEF Project, Import, Adopt, Conflict, Revive, Archive, Begin, Done, Collected
  <2>3. file' = file /\ changed' = changed
    BY <2>1 DEF disk
  <2>4. /\ \A i \in Id \ {id} : row'[i] = row[i] /\ plan'[i] = plan[i]
        /\ row'[id] = NoRow => row[id] = NoRow
    <3>1. Typed'
      BY <1>1, NextTyping DEF Next, Work, Apply
    <3>2. CASE Project(id) \/ Adopt(id) \/ Conflict(id)
      BY <3>2 DEF Project, Adopt, Conflict, Begin, store
    <3>3. CASE Import(id)
      <4>1. plan[id] = "import" /\ seen[id] \in Bytes
        BY <3>3 DEF Import, Typed, Planned
      <4>2. CASE Duplicate(id, Fresh[seen[id].text])
        BY <3>3, <4>2 DEF Import, Done, Typed, TypeOK
      <4>3. CASE ~Duplicate(id, Fresh[seen[id].text])
        <5>1. plan' = plan /\ target' = id /\ target' # NoId
          BY <3>3, <4>3, Facts DEF Import, Begin
        <5>2. row'[id] # NoRow
          BY <3>1, <5>1 DEF Typed, Shape
        <5> QED
          BY <3>3, <4>3, <5>1, <5>2 DEF Import, Typed, TypeOK
      <4> QED
        BY <4>2, <4>3
    <3>4. CASE Revive(id)
      <4>1. plan' = plan /\ target' = id /\ target' # NoId
        BY <3>4, Facts DEF Revive, Begin
      <4> QED
        BY <3>1, <3>4, <4>1 DEF Revive, Typed, TypeOK, Shape
    <3>5. CASE Archive(id)
      <4>1. row[id] \in Row
        BY <3>5 DEF Archive, Typed, TypeOK, Planned
      <4>2. row'[id] \in Row
        BY <3>5, <4>1 DEF Archive, Typed, TypeOK, Row, Status
      <4> QED
        BY <3>5, <4>2, Facts DEF Archive, Done, Typed, TypeOK
    <3> QED
      BY <1>1, <3>2, <3>3, <3>4, <3>5
  <2>5. ASSUME ~dropped PROVE Noticed(id)'
    <3>1. Noticed(id)
      BY <2>5 DEF Asked
    <3>2. CASE Project(id) \/ Adopt(id) \/ Conflict(id)
      BY <2>3, <3>1, <3>2 DEF Project, Adopt, Conflict, Begin, store, Noticed, Unread
    <3>3. CASE Import(id)
      <4>1. CASE Duplicate(id, Fresh[seen[id].text])
        <5>1. row' = row /\ plan'[id] = "none"
          BY <3>3, <4>1 DEF Import, Done, Typed, TypeOK
        <5>2. \E i \in Id : row[i] # NoRow
          BY <4>1 DEF Duplicate
        <5>3. row[id] = NoRow
          BY <2>1, <3>3, Facts DEF Import, Aimed
        <5> QED
          BY <2>3, <5>1, <5>2, <5>3 DEF Noticed, Unread
      <4>2. CASE ~Duplicate(id, Fresh[seen[id].text])
        <5>1. plan'[id] \in Reading
          BY <3>3, <4>2 DEF Import, Begin, Reading
        <5> QED
          BY <5>1 DEF Noticed, Reading
      <4> QED
        BY <4>1, <4>2
    <3>4. CASE Revive(id)
      BY <3>4 DEF Revive, Begin, Noticed, Reading
    <3>5. CASE Archive(id)
      <4>1. /\ plan[id] = "archive" /\ plan'[id] = "none" /\ row[id] \in Row
            /\ row'[id] = [row[id] EXCEPT !.status = "archived", !.at = time]
        BY <3>5 DEF Archive, Done, Typed, TypeOK, Planned
      <4> QED
        BY <2>3, <3>1, <4>1 DEF Noticed, Unread
    <3> QED
      BY <1>1, <3>2, <3>3, <3>4, <3>5
  <2>6. ASSUME ~dropped, NEW i \in Id, i # id PROVE Noticed(i)'
    BY <2>3, <2>4, <2>6, OthersNoticed DEF Asked
  <2> QED
    BY <2>1, <2>2, <2>5, <2>6 DEF Asked
<1>2. CASE Store \/ WriteFile \/ Record
  <2>0. PICK t \in Id : t = target /\ row[t] \in Row
    BY <1>2, Facts DEF Store, WriteFile, Record, Typed, TypeOK, Shape
  <2>1. dropped' = dropped /\ changed \subseteq changed'
    BY <1>2 DEF Store, WriteFile, Record, disk
  <2>2. \A i \in Id \ {t} : file'[i] = file[i] /\ plan'[i] = plan[i] /\ row'[i] = row[i]
    BY <1>2, <2>0 DEF Store, WriteFile, Record, disk, store, Typed, TypeOK
  <2>3. row'[t] # NoRow
    <3>1. Typed'
      BY <1>2, NextTyping DEF Next, Work
    <3>2. CASE Record
      <4>1. row'[t] = [row[t] EXCEPT !.hash = Render(row[t])]
        BY <2>0, <3>2 DEF Record, Typed, TypeOK
      <4>2. row'[t] \in Row
        BY <2>0, <4>1, RenderFacts DEF Row
      <4> QED
        BY <4>2, Facts
    <3>3. CASE Store \/ WriteFile
      BY <2>0, <3>1, <3>3, Facts DEF Store, WriteFile, Typed, TypeOK, Shape
    <3> QED
      BY <1>2, <3>2, <3>3
  <2>4. Collected'
    BY <1>2 DEF Store, WriteFile, Record, Rest, Collected
  <2>5. ASSUME ~dropped PROVE Noticed(t)'
    <3>1. Noticed(t)
      BY <2>5 DEF Asked
    <3>2. CASE Store
      <4>1. row'[t].hash = row[t].hash
        BY <2>0, <3>2 DEF Store, Typed, TypeOK
      <4> QED
        BY <2>0, <2>3, <3>1, <3>2, <4>1, Facts DEF Store, disk, Noticed, Unread
    <3>3. CASE WriteFile \/ Record
      <4>1. t \in changed'
        BY <2>0, <3>3 DEF WriteFile, Record, Asked, Collected, disk
      <4> QED
        BY <4>1, CollectedNoticed
    <3> QED
      BY <1>2, <3>2, <3>3
  <2>6. ASSUME ~dropped, NEW i \in Id, i # t PROVE Noticed(i)'
    BY <2>1, <2>2, <2>3, <2>6, OthersNoticed DEF Asked
  <2> QED
    BY <2>1, <2>4, <2>5, <2>6 DEF Asked
<1> QED
  BY <1>1, <1>2 DEF Apply

LEMMA EndAsked ==
  Typed /\ Aimed /\ Asked /\ (EndPass \/ EndExpire \/ PassFails \/ ProjectionFails \/ Crash) => Asked'
<1> SUFFICES ASSUME Typed, Aimed, Asked, EndPass \/ EndExpire \/ PassFails \/ ProjectionFails \/ Crash
             PROVE  Asked'
  OBVIOUS
<1>1. Collected'
  BY DEF EndPass, EndExpire, PassFails, ProjectionFails, Crash, Expire, Idle, Rest, Collected
<1>2. CASE PassFails \/ dropped'
  BY <1>1, <1>2 DEF PassFails, Asked
<1>3. CASE EndPass
  <2>1. /\ disk' = disk /\ dropped' = dropped /\ \A i \in Id : plan[i] = "none"
    BY <1>3 DEF EndPass
  <2>2. /\ \A i \in Id : plan'[i] \in {"none", "dispose"}
        /\ \A i \in Id : row'[i] = row[i] \/
              (row[i] # NoRow /\ row'[i] = [row[i] EXCEPT !.status = "archived", !.at = time])
    BY <1>3 DEF EndPass, Expire, Idle
  <2>3. ASSUME NEW i \in Id
        PROVE  /\ (row'[i] = NoRow) = (row[i] = NoRow)
               /\ row[i] # NoRow => row'[i].hash = row[i].hash
    <3>1. CASE row'[i] = row[i]
      BY <3>1
    <3>2. CASE row[i] # NoRow /\ row'[i] = [row[i] EXCEPT !.status = "archived", !.at = time]
      <4>1. row[i] \in Row /\ time \in 0..MaxTime
        BY <3>2 DEF Typed, TypeOK
      <4>2. row'[i] \in Row /\ row'[i].hash = row[i].hash
        BY <3>2, <4>1 DEF Row, Status
      <4> QED
        BY <3>2, <4>2, Facts
    <3> QED
      BY <2>2, <3>1, <3>2
  <2>4. file' = file /\ changed' = changed
    BY <2>1 DEF disk
  <2>5. ASSUME ~dropped, NEW i \in Id PROVE Noticed(i)'
    BY <2>1, <2>2, <2>3, <2>4, <2>5, NoticedFrame DEF Asked, Reading
  <2> QED
    BY <1>1, <2>1, <2>5 DEF Asked
<1>4. CASE (EndExpire \/ ProjectionFails \/ Crash) /\ ~dropped'
  <2>1. /\ row' = row /\ file' = file /\ changed' = changed /\ ~dropped /\ job \notin Passes
        /\ \A i \in Id : plan'[i] = "none"
    <3>1. CASE EndExpire \/ ProjectionFails
      BY <1>4, <3>1 DEF EndExpire, ProjectionFails, Idle, store, disk, Passes
    <3>2. CASE Crash
      <4>1. /\ row' = row /\ file' = file /\ \A i \in Id : plan'[i] = "none"
            /\ \/ dropped' = (dropped \/ job \in Passes) /\ changed' = changed
               \/ dropped' = TRUE /\ changed' = {}
        BY <3>2 DEF Crash, Idle, store
      <4>2. dropped' = (dropped \/ job \in Passes) /\ changed' = changed
        BY <1>4, <4>1, Zenon
      <4>3. ~(dropped \/ job \in Passes)
        BY <1>4, <4>2, Zenon
      <4> QED
        BY <4>1, <4>2, <4>3
    <3> QED
      BY <1>4, <3>1, <3>2
  <2>1a. \A i \in Id : plan[i] \notin Reading
    <3>1. job \in {"idle", "write", "remove", "prune", "expire"}
      BY <2>1 DEF Typed, TypeOK
    <3> QED
      BY <3>1 DEF Typed, Shape, Aimed, Reading
  <2>2. ASSUME NEW i \in Id PROVE Noticed(i)'
    BY <2>1, <2>1a, <2>2, NoticedFrame DEF Asked
  <2> QED
    BY <1>1, <2>2 DEF Asked
<1> QED
  BY <1>2, <1>3, <1>4

LEMMA DisposeAsked == ASSUME Typed, Asked, NEW id \in Id, Dispose(id) PROVE Asked'
<1>1. /\ row' = row /\ dropped' = dropped /\ changed \subseteq changed' /\ UNCHANGED <<target, phase>>
      /\ plan[id] = "dispose" /\ plan'[id] = "none"
      /\ \A i \in Id \ {id} : file'[i] = file[i] /\ plan'[i] = plan[i]
      /\ file'[id] = file[id] \/ id \in changed'
  BY DEF Dispose, Done, store, disk, Typed, TypeOK
<1>2. Collected'
  BY <1>1 DEF Asked, Collected
<1>3. ASSUME ~dropped, NEW i \in Id PROVE Noticed(i)'
  <2>1. Noticed(i)
    BY <1>3 DEF Asked
  <2>2. CASE i # id
    BY <1>1, <2>1, <2>2, OthersNoticed
  <2>3. CASE i = id
    BY <1>1, <2>1, <2>3, NoticedFrame, CollectedNoticed DEF Reading
  <2> QED
    BY <2>2, <2>3
<1> QED
  BY <1>1, <1>2, <1>3 DEF Asked

LEMMA OperationAsked ==
  Typed /\ Asked /\ (RetireRow \/ Operate) /\ ~(\E kind \in Passes : RunPass(kind)) => Asked'
<1> SUFFICES ASSUME Typed, Asked, RetireRow \/ Operate, ~(\E kind \in Passes : RunPass(kind))
             PROVE  Asked'
  OBVIOUS
<1>0. Typed'
  BY NextTyping DEF Next, Work
<1>1. CASE RetireRow
  <2>1. /\ target \in Id /\ target \in changed /\ row[target] \in Row /\ Idle
        /\ file' = file /\ changed' = changed /\ dropped' = dropped
        /\ \A i \in Id : plan[i] = "none"
    BY <1>1, Facts DEF RetireRow, Typed, TypeOK, Shape, disk, Asked, Collected
  <2>2. \A i \in Id \ {target} : row'[i] = row[i]
    BY <1>1, <2>1 DEF RetireRow, Typed, TypeOK
  <2>3. Collected' /\ \A i \in Id : plan'[i] = "none"
    BY <2>1 DEF Collected, Idle, Rest
  <2>4. ASSUME ~dropped, NEW i \in Id PROVE Noticed(i)'
    <3>1. Noticed(i)
      BY <2>4 DEF Asked
    <3>2. CASE i = target
      BY <2>1, <3>2, CollectedNoticed
    <3>3. CASE i # target
      BY <2>1, <2>2, <2>3, <3>1, <3>3 DEF Noticed, Unread, Reading
    <3> QED
      BY <3>2, <3>3
  <2> QED
    BY <2>1, <2>3, <2>4 DEF Asked
<1>2. ASSUME NEW id \in Id, NEW text, WriteMemory(id, text) PROVE Asked'
  <2>1. /\ disk' = disk /\ dropped' = dropped /\ plan' = plan /\ phase' = "write" /\ target' = id
        /\ \A i \in Id : plan[i] = "none"
        /\ \A i \in Id \ {id} : row'[i] = row[i]
    BY <1>2 DEF WriteMemory, Starts, Typed, TypeOK, Shape
  <2>2. file' = file /\ changed' = changed /\ row'[id] # NoRow
    BY <1>0, <2>1, Facts DEF disk, Typed, Shape
  <2>3. row'[id].hash = IF row[id] = NoRow THEN NoHash ELSE row[id].hash
    <3>1. CASE row[id] = NoRow
      BY <1>2, <3>1 DEF WriteMemory, Typed, TypeOK
    <3>2. CASE row[id] # NoRow
      <4>1. row'[id] = [row[id] EXCEPT !.text = text, !.at = time] /\ row[id] \in Row
        BY <1>2, <3>2 DEF WriteMemory, Typed, TypeOK
      <4> QED
        BY <3>2, <4>1 DEF Row
    <3> QED
      BY <3>1, <3>2
  <2>4. ASSUME ~dropped, NEW i \in Id PROVE Noticed(i)'
    <3>1. Noticed(i)
      BY <2>4 DEF Asked
    <3>2. CASE i # id
      BY <2>1, <2>2, <3>1, <3>2, OthersNoticed
    <3>3. CASE i = id
      BY <2>1, <2>2, <2>3, <3>1, <3>3 DEF Noticed, Unread, Reading
    <3> QED
      BY <3>2, <3>3
  <2> QED
    BY <2>1, <2>4 DEF Asked, Collected
<1>3. ASSUME NEW id \in Id, NEW how \in {"remove", "prune"}, Retire(id, how) PROVE Asked'
  <2>1. /\ row' = row /\ plan' = plan /\ target' = id /\ dropped' = dropped
        /\ changed' = changed \cup {id}
        /\ \A i \in Id \ {id} : file'[i] = file[i]
    BY <1>3 DEF Retire, store, Typed, TypeOK
  <2>2. ASSUME NEW i \in Id, Noticed(i) PROVE Noticed(i)'
    BY <2>1, <2>2, CollectedNoticed, OthersNoticed
  <2> QED
    BY <2>1, <2>2 DEF Asked, Collected
<1>4. ASSUME NEW id \in Id, Confirm(id) PROVE Asked'
  <2>1. /\ disk' = disk /\ dropped' = dropped /\ UNCHANGED work
        /\ row[id] \in Row /\ row'[id] = [row[id] EXCEPT !.status = "active", !.at = time]
        /\ \A i \in Id \ {id} : row'[i] = row[i]
        /\ time \in 0..MaxTime
    BY <1>4 DEF Confirm, Typed, TypeOK
  <2>2. row'[id] \in Row /\ row'[id].hash = row[id].hash
    BY <2>1 DEF Row, Status
  <2>3. \A i \in Id : /\ (row'[i] = NoRow) = (row[i] = NoRow)
                      /\ row[i] # NoRow => row'[i].hash = row[i].hash
    BY <2>1, <2>2, Facts
  <2>4. ASSUME ~dropped, NEW i \in Id PROVE Noticed(i)'
    BY <2>1, <2>3, <2>4, NoticedFrame DEF Asked, disk, work
  <2> QED
    BY <2>1, <2>4 DEF Asked, Collected, disk, work
<1> QED
  BY <1>1, <1>2, <1>3, <1>4 DEF Operate

LEMMA NextAsked == Typed /\ Aimed /\ Asked /\ [Next]_vars => Asked'
<1>1. ASSUME Asked, UNCHANGED vars PROVE Asked'
  BY <1>1 DEF vars, store, disk, work, Asked, Collected, Noticed, Unread
<1> QED
  BY <1>1, PeopleAsked, FlushAsked, WorkAsked, EndAsked, DisposeAsked, OperationAsked
  DEF Next, Work, Trouble, Operate

\* With nothing running, what is collected is then more than the store's own writes.
LEMMA UnreadIsAsked == Typed /\ Asked => EditsAreAsked
<1> SUFFICES ASSUME Typed, Asked, NEW id \in Id, Unread(id), ~dropped, job = "idle"
             PROVE  ~OwnWrites
  BY DEF EditsAreAsked
<1>1. Noticed(id) /\ plan[id] = "none" /\ changed \subseteq Id
  BY DEF Asked, Typed, TypeOK, Shape
<1>2. CASE row[id] = NoRow
  BY <1>1, <1>2 DEF Noticed, Unread, Reading, OwnWrites
<1>3. CASE row[id] # NoRow
  BY <1>1, <1>3 DEF Noticed, Unread, Reading, OwnWrites
<1> QED
  BY <1>2, <1>3

\* What people wrote and the store has not read keeps the watcher's next flush from
\* taking its changes for the store's own writes (changes_are_recorded_projections):
\* the step on which EditsAreRead rests.
THEOREM EditsStayAsked == Spec => []EditsAreAsked
BY UnreadIsAsked, InitTyping, NextTyping, InitAsked, NextAimed, NextAsked, PTL DEF Spec

-----------------------------------------------------------------------------
(* A pass brings an entry and its file together.                            *)

\* Row and file say the same and the row has recorded it; or there is no file to read
\* and the row is gone or archived, unless git cannot explain the deletion; or the file
\* is a duplicate that was not imported.
Settled(id) ==
  IF Reads(id) = NoFile
  THEN row[id] = NoRow \/ row[id].status = "archived" \/ id \notin proven
  ELSE /\ row[id] # NoRow => file[id] = row[id].hash /\ file[id] = Render(row[id])
       /\ \E i \in Id : row[i] # NoRow

\* What a pass is done with is settled, what it archives has no file, and what it
\* wrote is what the row says.
Tracked(id) ==
  /\ plan[id] = "none" /\ target # id => Settled(id)
  /\ plan[id] = "archive" => Reads(id) = NoFile /\ target # id
  /\ target = id /\ phase = "record" => file[id] = Render(row[id])

Pursued(id) == job \in Passes => Tracked(id)

\* People and git leave the entry's file alone while a pass runs.
LeftAlone(id) ==
  job \in Passes => ~(PersonWrites(id) \/ PersonDeletes(id) \/ MergeStops(id))

LEMMA StartPursued ==
  ASSUME Typed, NEW kind \in Passes, StartPass(kind), NEW id \in Id
  PROVE  Tracked(id)'
<1>1. /\ target' = NoId /\ target' # id /\ phase' = "none" /\ file' = file /\ proven' = proven
      /\ plan'[id] = IF Decision(id) = "note" \/ (id \in Suspects /\ Cardinality(Suspects) > Cap)
                     THEN "none" ELSE Decision(id)
      /\ row'[id] = IF Decision(id) = "note" THEN [row[id] EXCEPT !.hash = Reads(id)] ELSE row[id]
  BY Facts DEF StartPass, Typed, TypeOK, Shape
<1>2. Reads(id)' = Reads(id)
  BY <1>1 DEF Reads
<1>3. plan'[id] = "archive" => Reads(id) = NoFile
  BY <1>1 DEF Decision
<1>4. ASSUME plan'[id] = "none" PROVE Settled(id)'
  <2>1. CASE Reads(id) = NoFile
    <3>1. CASE id \in Suspects
      BY <1>1, <1>2, <2>1, <3>1 DEF Settled, Suspects
    <3>2. CASE id \notin Suspects
      <4>1. Decision(id) # "note"
        BY <2>1, DecisionFacts, Facts DEF Typed
      <4>2. Decision(id) = "none"
        BY <1>1, <1>4, <3>2, <4>1
      <4>3. row[id] = NoRow \/ row[id].status = "archived"
        BY <2>1, <4>2 DEF Decision
      <4> QED
        BY <1>1, <1>2, <2>1, <4>1, <4>3 DEF Settled
    <3> QED
      BY <3>1, <3>2
  <2>2. CASE Reads(id) # NoFile
    <3>1. file[id] = Reads(id) /\ id \notin Suspects
      BY <2>2 DEF Reads, Suspects, Decision
    <3>2. Decision(id) \in {"none", "note"}
      BY <1>1, <1>4, <3>1
    <3>3. row[id] # NoRow /\ row[id] \in Row
      BY <2>2, <3>2 DEF Decision, Typed, TypeOK
    <3>4. CASE Decision(id) = "note"
      <4>1. /\ row'[id] = [row[id] EXCEPT !.hash = Reads(id)]
            /\ Reads(id) = Render(row[id]) /\ Reads(id) \in Bytes
        BY <1>1, <2>2, <3>3, <3>4, DecisionFacts DEF Decision, Typed
      <4>2. row'[id] \in Row /\ row'[id].hash = Reads(id) /\ Render(row'[id]) = Render(row[id])
        BY <3>3, <4>1 DEF Row, Render
      <4> QED
        BY <1>1, <1>2, <2>2, <3>1, <4>1, <4>2, Facts DEF Settled, Render
    <3>5. CASE Decision(id) = "none"
      <4>1. row'[id] = row[id]
        BY <1>1, <3>5
      <4>2. row[id].hash = Reads(id) /\ row[id].hash = Render(row[id])
        BY <2>2, <3>3, <3>5 DEF Decision
      <4> QED
        BY <1>1, <1>2, <2>2, <3>1, <3>3, <4>1, <4>2 DEF Settled, Render
    <3> QED
      BY <3>2, <3>4, <3>5
  <2> QED
    BY <2>1, <2>2
<1> QED
  BY <1>1, <1>2, <1>3, <1>4 DEF Tracked

\* A step on another entry: rows do not disappear during a pass.
LEMMA TrackedFrame ==
  ASSUME NEW id \in Id, Tracked(id), row'[id] = row[id], file'[id] = file[id],
         plan'[id] = plan[id], (id \in proven') = (id \in proven),
         (target' = id) = (target = id), target = id => phase' = phase,
         \A i \in Id : row'[i] = NoRow => row[i] = NoRow
  PROVE  Tracked(id)'
<1>1. Reads(id)' = Reads(id) /\ Render(row'[id]) = Render(row[id])
  BY DEF Reads, Render
<1>2. Settled(id) => Settled(id)'
  BY <1>1 DEF Settled, Render
<1> QED
  BY <1>1, <1>2 DEF Tracked, Render

LEMMA ApplyTracked ==
  ASSUME Typed, Aimed, NEW id \in Id, Tracked(id), NEW i \in Id,
         Project(i) \/ Import(i) \/ Adopt(i) \/ Conflict(i) \/ Revive(i) \/ Archive(i)
  PROVE  Tracked(id)'
<1>1. Typed'
  BY NextTyping DEF Next, Work, Apply
<1>2. /\ target = NoId /\ i # NoId /\ id # NoId /\ phase = "none"
      /\ file' = file /\ proven' = proven
      /\ \A j \in Id \ {i} : row'[j] = row[j]
  BY Facts DEF Project, Import, Adopt, Conflict, Revive, Archive, Passing, disk, store, Typed, TypeOK
<1>3. \/ target' = i /\ plan' = plan /\ phase' \in {"store", "write"} /\ plan[i] # "archive"
      \/ /\ target' = target /\ phase' = phase /\ plan' = [plan EXCEPT ![i] = "none"]
         /\ Import(i) /\ Duplicate(i, Fresh[seen[i].text]) /\ row' = row
      \/ /\ target' = target /\ phase' = phase /\ plan' = [plan EXCEPT ![i] = "none"]
         /\ Archive(i)
  BY DEF Project, Import, Adopt, Conflict, Revive, Archive, Begin, Done
<1>4. \A j \in Id : row'[j] = NoRow => row[j] = NoRow
  <2>1. row'[i] = NoRow => row[i] = NoRow
    <3>1. CASE target' = i
      BY <1>1, <1>2, <3>1 DEF Typed, Shape
    <3>2. CASE Archive(i)
      <4>1. row[i] \in Row /\ time \in 0..MaxTime
        BY <3>2 DEF Archive, Typed, TypeOK, Planned
      <4>2. row'[i] \in Row
        BY <3>2, <4>1 DEF Archive, Typed, TypeOK, Row, Status
      <4> QED
        BY <4>2, Facts
    <3> QED
      BY <1>3, <3>1, <3>2
  <2> QED
    BY <1>2, <2>1
<1>5. CASE i # id
  <2>1. plan'[id] = plan[id] /\ target' # id
    BY <1>2, <1>3, <1>5 DEF Typed, TypeOK
  <2> QED
    BY <1>2, <1>4, <1>5, <2>1, TrackedFrame
<1>6. CASE i = id /\ target' = i
  <2>1. plan'[id] # "archive" /\ phase' # "record"
    BY <1>2, <1>3, <1>6
  <2> QED
    BY <1>6, <2>1 DEF Tracked
<1>7. CASE i = id /\ Import(i) /\ Duplicate(i, Fresh[seen[i].text]) /\ row' = row
           /\ target' = target /\ plan' = [plan EXCEPT ![i] = "none"]
  <2>1. plan'[id] = "none" /\ target' # id /\ \E j \in Id : row[j] # NoRow
    BY <1>2, <1>7 DEF Typed, TypeOK, Duplicate
  <2>2. row[id] = NoRow
    BY <1>2, <1>7 DEF Import, Aimed
  <2>3. Settled(id)'
    BY <1>2, <1>7, <2>1, <2>2 DEF Settled
  <2> QED
    BY <2>1, <2>3 DEF Tracked
<1>8. CASE i = id /\ Archive(i) /\ target' = target /\ plan' = [plan EXCEPT ![i] = "none"]
  <2>1. /\ plan'[id] = "none" /\ target' # id /\ Reads(id) = NoFile /\ row[id] \in Row
        /\ row'[id] = [row[id] EXCEPT !.status = "archived", !.at = time]
    BY <1>2, <1>8 DEF Tracked, Archive, Typed, TypeOK, Planned
  <2>2. row'[id].status = "archived" /\ Reads(id)' = NoFile
    BY <1>2, <2>1 DEF Row, Reads
  <2> QED
    BY <2>1, <2>2 DEF Tracked, Settled
<1> QED
  BY <1>2, <1>3, <1>5, <1>6, <1>7, <1>8

LEMMA WriteTracked ==
  ASSUME Typed, job \in Passes, NEW id \in Id, Tracked(id), Store \/ WriteFile \/ Record
  PROVE  Tracked(id)'
<1>1. Typed'
  BY NextTyping DEF Next, Work
<1>2. PICK t \in Id : t = target /\ row[t] \in Row /\ t # NoId
  BY Facts DEF Store, WriteFile, Record, Typed, TypeOK, Shape
<1>3. /\ \A j \in Id \ {t} : row'[j] = row[j] /\ file'[j] = file[j] /\ plan'[j] = plan[j]
      /\ proven' = proven
      /\ target' \in {target, NoId}
  BY <1>2 DEF Store, WriteFile, Record, Rest, disk, store, Typed, TypeOK
<1>4. CASE Record
  <2>1. row'[t] = [row[t] EXCEPT !.hash = Render(row[t])] /\ Render(row[t]) \in Bytes
    BY <1>2, <1>4, RenderFacts DEF Record, Typed, TypeOK
  <2>2. /\ row'[t] \in Row /\ row'[t] # NoRow /\ row'[t].hash = Render(row[t])
        /\ Render(row'[t]) = Render(row[t])
    BY <1>2, <2>1, Facts DEF Row, Render
  <2>3. CASE t = id
    <3>1. file' = file /\ file[id] = Render(row[id]) /\ target' = NoId /\ plan'[id] = "none"
      BY <1>2, <1>4, <2>3 DEF Record, Rest, disk, Tracked, Typed, TypeOK
    <3>2. file'[id] \in Bytes /\ Reads(id)' = file'[id]
      BY <2>1, <2>3, <3>1, Facts DEF Reads
    <3>3. Settled(id)'
      BY <2>2, <2>3, <3>1, <3>2, Facts DEF Settled, Render
    <3>4. target' # id
      BY <1>2, <2>3, <3>1
    <3> QED
      BY <3>1, <3>3, <3>4 DEF Tracked
  <2>4. CASE t # id
    BY <1>2, <1>3, <2>2, <2>4, Facts, TrackedFrame
  <2> QED
    BY <2>3, <2>4
<1>5. CASE Store \/ WriteFile
  <2>1. /\ target' = target /\ plan' = plan /\ row'[t] # NoRow
        /\ phase' = "write" \/ (WriteFile /\ phase' = "record")
    BY <1>1, <1>2, <1>5 DEF Store, WriteFile, store, Typed, Shape
  <2>2. CASE t = id
    <3>1. plan'[id] # "archive"
      BY <1>2, <2>1, <2>2 DEF Tracked
    <3>2. phase' = "record" => file'[id] = Render(row'[id])
      BY <1>2, <1>5, <2>1, <2>2 DEF Store, WriteFile, store, Typed, TypeOK
    <3> QED
      BY <1>2, <2>1, <2>2, <3>1, <3>2 DEF Tracked, Render
  <2>3. CASE t # id
    BY <1>2, <1>3, <2>1, <2>3, Facts, TrackedFrame
  <2> QED
    BY <2>2, <2>3
<1> QED
  BY <1>4, <1>5

LEMMA NextPursued ==
  ASSUME NEW id \in Id, Typed, Typed', Aimed, Pursued(id), [Next]_vars, [LeftAlone(id)]_vars
  PROVE  Pursued(id)'
<1>1. CASE UNCHANGED vars \/ Tick \/ FlushEmptySlot \/ (Flush /\ OwnWrites)
  <2>1. CASE job = "idle"
    <3>1. job' = "idle"
      BY <1>1, <2>1 DEF vars, Tick, FlushEmptySlot, Flush, work
    <3> QED
      BY <3>1 DEF Pursued, Passes
  <2>2. CASE job # "idle"
    <3>1. UNCHANGED vars
      BY <1>1, <2>2 DEF Tick, FlushEmptySlot, Flush
    <3> QED
      BY <3>1 DEF vars, store, disk, work, Pursued, Tracked, Settled, Reads, Render
  <2> QED
    BY <2>1, <2>2
<1>2. ASSUME NEW i \in Id, PersonWrites(i) \/ PersonDeletes(i) \/ MergeStops(i)
      PROVE  Pursued(id)'
  <2>1. /\ UNCHANGED <<row, job, plan, target, phase>>
        /\ \A j \in Id \ {i} : file'[j] = file[j]
        /\ \A j \in Id \ {i} : (j \in proven') = (j \in proven)
        /\ ~UNCHANGED vars
    <3>1. PICK b : FileBecomes(i, b)
      BY <1>2 DEF PersonWrites, PersonDeletes, MergeStops
    <3>2. \A j \in Id \ {i} : (j \in proven') = (j \in proven)
      BY <1>2 DEF PersonWrites, PersonDeletes, MergeStops
    <3>3. edits' # edits
      BY <3>1 DEF FileBecomes, Typed, TypeOK
    <3> QED
      BY <3>1, <3>2, <3>3 DEF FileBecomes, store, work, vars, tally, Typed, TypeOK
  <2>2. CASE job \in Passes
    <3>1. i # id
      BY <1>2, <2>1, <2>2 DEF LeftAlone
    <3>2. Tracked(id)
      BY <2>2 DEF Pursued
    <3> QED
      BY <2>1, <3>1, <3>2, TrackedFrame DEF Pursued
  <2>3. CASE job \notin Passes
    BY <2>1, <2>3 DEF Pursued
  <2> QED
    BY <2>2, <2>3
<1>3. CASE (Flush /\ ~OwnWrites) \/ \E kind \in Passes : RunPass(kind)
  BY <1>3, StartPursued DEF Flush, RunPass, Pursued, Passes
<1>4. CASE Apply
  <2>1. job \in Passes
    BY <1>4 DEF Apply, Project, Import, Adopt, Conflict, Revive, Archive, Passing
  <2> QED
    BY <1>4, <2>1, ApplyTracked DEF Apply, Pursued
<1>5. CASE Store \/ WriteFile \/ Record
  <2>1. CASE job \in Passes
    BY <1>5, <2>1, WriteTracked DEF Pursued
  <2>2. CASE job \notin Passes
    <3>1. job' \in {job, "idle"}
      BY <1>5 DEF Store, WriteFile, Record
    <3> QED
      BY <2>2, <3>1 DEF Pursued, Passes
  <2> QED
    BY <2>1, <2>2
<1>6. CASE EndPass \/ PassFails \/ EndExpire \/ RetireRow \/ ProjectionFails \/ Crash
  <2>1. job' \in {"idle", "expire"}
    BY <1>6 DEF EndPass, PassFails, EndExpire, RetireRow, ProjectionFails, Crash, Idle, Expire
  <2> QED
    BY <2>1 DEF Pursued, Passes
<1>7. ASSUME NEW i \in Id, Dispose(i) PROVE Pursued(id)'
  BY <1>7 DEF Dispose, Done, Pursued, Passes
<1>8. ASSUME NEW i \in Id, NEW text, NEW how, how \in {"remove", "prune"},
             WriteMemory(i, text) \/ Retire(i, how) \/ Confirm(i)
      PROVE  Pursued(id)'
  BY <1>8 DEF WriteMemory, Retire, Confirm, Starts, work, Pursued, Passes
<1> QED
  BY <1>1, <1>2, <1>3, <1>4, <1>5, <1>6, <1>7, <1>8
  DEF Next, People, Work, Operate, Trouble

\* A pass during which nobody changes the file of an entry ends with the two in step,
\* whatever happens to the other entries and whatever earlier crashes, failed
\* projections and lost requests had left behind (sync_memory_files).
THEOREM PassesReconcile ==
  ASSUME NEW id \in Id
  PROVE  Spec /\ [][LeftAlone(id)]_vars => [][EndPass => Settled(id)]_vars
<1> DEFINE Inv == Pursued(id)
           Prem == LeftAlone(id)
           Goal == EndPass => Settled(id)
<1>1. Init => Inv
  BY DEF Init, Pursued, Passes
<1>2. Typed /\ Typed' /\ Aimed /\ Inv /\ [Next]_vars /\ [Prem]_vars => Inv'
  BY NextPursued
<1>3. Typed /\ Inv => Goal
  <2> SUFFICES ASSUME Typed, Pursued(id), EndPass PROVE Settled(id)
    OBVIOUS
  <2>1. job \in Passes /\ target # id /\ plan[id] = "none"
    BY Facts DEF EndPass, Passing
  <2> QED
    BY <2>1 DEF Pursued, Tracked
<1> HIDE DEF Inv, Prem, Goal
<1>4. Spec /\ [][Prem]_vars => [][Goal]_vars
  BY <1>1, <1>2, <1>3, InitTyping, NextTyping, InitAsked, NextAimed, PTL DEF Spec
<1> QED
  BY <1>4 DEF Prem, Goal

-----------------------------------------------------------------------------
(* From what the watcher still knows to what is read.                       *)

\* Nobody changes a file while a pass runs; every job ends; the loop flushes what it
\* has collected. These are all that EditsAreRead needs of the fairness.
LeftInPeace == \A id \in Id : LeftAlone(id)
JobsEnd == (job # "idle") ~> (job = "idle")
ChangesAreFlushed == (changed # {}) ~> (changed = {})

\* An edit that nobody has read, and no request was given up.
Waiting(id) == Unread(id) /\ ~dropped

\* While an edit waits what was collected is only let go of by starting a pass.
LEMMA FlushStartsPass ==
  ASSUME Typed, Asked, [Next]_vars, NEW id \in Id, Waiting(id), Waiting(id)', changed # {}
  PROVE  changed' # {} \/ job' = "sync"
<1>1. CASE Flush
  <2>1. job = "idle" /\ Asked /\ ~dropped
    BY <1>1 DEF Flush, Waiting
  <2>2. ~OwnWrites
    BY <2>1, UnreadIsAsked DEF Waiting, EditsAreAsked
  <2>3. QED
    BY <1>1, <2>2 DEF Flush, StartPass
<1>2. CASE FlushEmptySlot \/ PassFails \/ Crash
  BY <1>2 DEF FlushEmptySlot, PassFails, Crash, Waiting, disk
<1>3. CASE ProjectionFails \/ EndPass \/ EndExpire \/ RetireRow \/ Tick \/ UNCHANGED vars
  BY <1>3 DEF ProjectionFails, EndPass, EndExpire, RetireRow, Tick, vars, disk
<1>4. CASE People
  BY <1>4 DEF People, PersonWrites, PersonDeletes, MergeStops, FileBecomes
<1>5. CASE Apply \/ Store \/ WriteFile \/ Record
  BY <1>5 DEF Apply, Project, Import, Adopt, Conflict, Revive, Archive, Store, WriteFile, Record, disk
<1>6. ASSUME NEW i \in Id, Dispose(i) PROVE changed' # {}
  BY <1>6 DEF Dispose, disk
<1>7. CASE Operate
  BY <1>7 DEF Operate, RunPass, WriteMemory, Retire, Confirm, disk
<1>8. QED
  BY <1>1, <1>2, <1>3, <1>4, <1>5, <1>6, <1>7 DEF Next, Work, Trouble

\* While an edit waits a pass is not over: its end settles the entry, its failure and
\* its death are the request given up.
LEMMA PassReads ==
  ASSUME Typed, [Next]_vars, NEW id \in Id, Pursued(id), Waiting(id)', job = "sync"
  PROVE  job' = "sync"
<1>1. CASE EndPass
  <2>1. Settled(id) /\ UNCHANGED <<row, file>>
    BY <1>1, Facts DEF EndPass, Passing, Pursued, Tracked, Passes, disk
  <2>2. file[id] # Unreadable => Reads(id) = file[id]
    BY DEF Reads
  <2>3. ~Unread(id)'
    BY <2>1, <2>2, Facts DEF Settled, Unread
  <2>4. QED
    BY <2>3 DEF Waiting
<1>2. CASE PassFails \/ Crash \/ FlushEmptySlot
  BY <1>2 DEF PassFails, Crash, FlushEmptySlot, Waiting, Passes
<1>3. CASE Tick \/ People \/ UNCHANGED vars
  BY <1>3 DEF Tick, People, PersonWrites, PersonDeletes, MergeStops, FileBecomes, vars, work
<1>4. CASE Apply \/ Store \/ WriteFile \/ Record
  BY <1>4 DEF Apply, Project, Import, Adopt, Conflict, Revive, Archive, Store, WriteFile, Record,
              Begin, Done
<1>5. CASE \/ Flush \/ EndExpire \/ ProjectionFails \/ RetireRow \/ Operate
           \/ \E i \in Id : Dispose(i)
  BY <1>5 DEF Flush, EndExpire, ProjectionFails, RetireRow, Operate, RunPass, StartPass, WriteMemory,
              Retire, Confirm, Starts, Dispose, Typed, Shape
<1>6. QED
  BY <1>1, <1>2, <1>3, <1>4, <1>5 DEF Next, Work, Trouble

\* With files left alone during passes, and jobs and flushes that end, every edit is
\* read or a request for it was given up: no flush takes it for the store's own
\* write, and no pass that ends well has left it out (flush_memory_sync).
THEOREM EditsAreReadInTheEnd ==
  Spec /\ [][LeftInPeace]_vars /\ JobsEnd /\ ChangesAreFlushed => EditsAreRead
<1> SUFFICES ASSUME NEW id \in Id
             PROVE  Spec /\ [][LeftInPeace]_vars /\ JobsEnd /\ ChangesAreFlushed
                    => []<>(~Unread(id) \/ dropped)
  BY DEF EditsAreRead
<1> DEFINE Track == Pursued(id)
           Prem == LeftInPeace
           Wait == Waiting(id)
           Quiet == job = "idle"
           Busy == job # "idle"
           Sync == job = "sync"
           Some == changed # {}
           None == changed = {}
           Goal == ~Unread(id) \/ dropped
<1>1. Init => Track
  BY DEF Init, Pursued, Passes
<1>2. Typed /\ Typed' /\ Aimed /\ Track /\ [Next]_vars /\ [Prem]_vars => Track'
  BY NextPursued DEF LeftInPeace
<1>3. Typed /\ Asked /\ [Next]_vars /\ Wait /\ Wait' /\ Some => Some' \/ Sync'
  BY FlushStartsPass
<1>4. Typed /\ Track /\ [Next]_vars /\ Wait' /\ Sync => Sync'
  BY PassReads
<1>5. Typed /\ Asked /\ Wait /\ Quiet => Some
  BY UnreadIsAsked DEF Waiting, EditsAreAsked, OwnWrites
<1>6. (Sync => Busy) /\ (Busy => ~Quiet) /\ (Some => ~None) /\ (~Goal => Wait)
  BY DEF Waiting
<1>6a. (Quiet \/ Busy)
  OBVIOUS
<1>7. JobsEnd => (Busy ~> Quiet)
  BY DEF JobsEnd
<1>8. ChangesAreFlushed => (Some ~> None)
  BY DEF ChangesAreFlushed
<1> HIDE DEF Track, Prem, Wait, Quiet, Busy, Sync, Some, None, Goal
<1>9. Spec /\ [][Prem]_vars /\ JobsEnd /\ ChangesAreFlushed => []<>Goal
  BY <1>1, <1>2, <1>3, <1>4, <1>5, <1>6, <1>6a, <1>7, <1>8,
     InitTyping, NextTyping, InitAsked, NextAimed, NextAsked, PTL DEF Spec
<1>10. QED
  BY <1>9 DEF Prem, Goal

=============================================================================
