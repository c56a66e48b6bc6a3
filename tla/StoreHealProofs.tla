--------------------------- MODULE StoreHealProofs ---------------------------
(***************************************************************************)
(* Theorems of StoreHeal for every set of processes, slots and actors:     *)
(* type correctness, the exclusion given by the writer and the mutation    *)
(* lock, that no quarantine renames the file under an announced context,   *)
(* that a lock-free verdict closes only a context over a damaged file,     *)
(* that locks are given back and never waited for in a circle, what a      *)
(* marker or a verdict may be trusted for after an unfinished write, and   *)
(* that operations which return do not leave a damaged file in its slot.   *)
(***************************************************************************)
EXTENDS StoreHeal, TLAPS

\* Which locks an actor at a given step holds.
LockInv ==
  \A a \in Actor :
    /\ pc[a] \in HoldsWriter => writer = a
    /\ pc[a] \in Opening => mutation = a

\* While the rename is pending nobody can have announced a context.
RenameInv ==
  \A a \in Actor : pc[a] = "rename" => \A s \in Slot : ctx[s].file = NoFile

\* From the end of the statement to the end of the operation.
VerifyPCs == {"vBegin", "vScan", "vCompare", "vRecord", "vDone"}

\* Generations are handed out once, and what a mutation learned is about the
\* file behind the generation it wrote through, as long as that is in the slot.
GenerationInv ==
  /\ \A s \in Slot : ctx[s].gen =< opens
  /\ \A a \in Actor :
       /\ loc[a].gen =< opens
       /\ pc[a] \in VerifyPCs /\ ctx[SlotOf[a]].file # NoFile
            /\ ctx[SlotOf[a]].gen = loc[a].gen
          => /\ loc[a].bad => ctx[SlotOf[a]].file \in torn
             /\ pc[a] = "vCompare" /\ loc[a].found = "corrupt"
                => ctx[SlotOf[a]].file \in torn

-----------------------------------------------------------------------------

\* The values the actions store have their types.
LEMMA Values ==
  /\ NoVerdict \in Verdicts
  /\ Blank \in Locals
  /\ Empty \in [file : Nat, gen : Nat]
  /\ \A t \in Nat \cup {NoTime}, f \in Nat : [at |-> t, file |-> f] \in Verdicts
BY DEF NoVerdict, Verdicts, Blank, Locals, Empty, NoFile, NoTime

\* Locals are updated one field at a time.
LEMMA LocalsUpdated ==
  ASSUME NEW r \in Locals
  PROVE  /\ r.gen \in Nat /\ r.conn \in Nat /\ r.since \in Nat \cup {NoTime}
         /\ r.bad \in BOOLEAN
         /\ \A n \in Nat : [r EXCEPT !.gen = n] \in Locals
         /\ \A n \in Nat : [r EXCEPT !.conn = n] \in Locals
         /\ \A n \in Nat : [r EXCEPT !.since = n] \in Locals
         /\ \A n \in Nat, t \in Nat : [r EXCEPT !.conn = n, !.since = t] \in Locals
         /\ \A n \in Nat, w \in {"sound", "corrupt", "undetermined"} :
              [r EXCEPT !.conn = n, !.found = w] \in Locals
         /\ \A b \in BOOLEAN : [r EXCEPT !.bad = b] \in Locals
         /\ \A n \in Nat, b \in BOOLEAN : [r EXCEPT !.conn = n, !.bad = b] \in Locals
BY DEF Locals

\* Returning frees what was held and forgets the local variables.
LEMMA ReturnTyped ==
  ASSUME TypeOK, NEW a \in Actor, Return(a)
  PROVE  /\ slotLock' \in [Slot -> Actor \cup {None}]
         /\ writer' \in Actor \cup {None}
         /\ mutation' \in Actor \cup {None}
         /\ pc' \in [Actor -> PCs]
         /\ job' \in [Actor -> AllJobs \cup {NoJob}]
         /\ loc' \in [Actor -> Locals]
         /\ held' \in [Actor -> Verdicts]
BY Values, ActorsAssumption DEF ActorsAssumption, TypeOK, Return, FreedBy, PCs

\* A write keeps the types of the disk and of the probes it disturbs.
LEMMA WriteTyped ==
  ASSUME TypeOK, NEW a \in Actor, NEW wrote \in BOOLEAN, NEW tears \in BOOLEAN,
         NEW grew \in BOOLEAN, NEW outcome, WriteEffect(a, wrote, tears, grew, outcome)
  PROVE  /\ torn' \subseteq Nat
         /\ mtime' \in Nat
         /\ disturbed' \subseteq Actor
         /\ broken' \subseteq Proc
<1>1. SlotOf[a] \in Slot /\ ProcOfActor(a) \in Proc
  BY ActorsAssumption DEF ActorsAssumption, ProcOfActor
<1>2. ctx[SlotOf[a]].file \in Nat
  BY <1>1 DEF TypeOK
<1>3. Stamped(grew) \subseteq Actor
  BY DEF Stamped, Verifying
<1>4. QED
  BY <1>1, <1>2, <1>3 DEF WriteEffect, TypeOK

\* Closing a slot keeps the types of the contexts, verdicts and histories.
LEMMA CloseTyped ==
  ASSUME TypeOK, NEW a \in Actor, CloseOverCorruption(a)
  PROVE  /\ ctx' \in [Slot -> [file : Nat, gen : Nat]]
         /\ verdict' \in [Proc -> Verdicts]
<1>1. SlotOf[a] \in Slot /\ ProcOfActor(a) \in Proc
  BY ActorsAssumption DEF ActorsAssumption, ProcOfActor
<1>2. ctx[SlotOf[a]].file \in Nat
  BY <1>1 DEF TypeOK
<1>3. QED
  BY <1>1, <1>2, Values DEF CloseOverCorruption, ForgetVerdict, TypeOK

\* Every variable keeps its type.
THEOREM Typing == Spec => []TypeOK
<1>1. Init => TypeOK
  BY Values DEF Init, TypeOK, PCs, NoFile, NoTime, NoJob
<1>2. TypeOK /\ [Next]_vars => TypeOK'
  <2> SUFFICES ASSUME TypeOK, [Next]_vars PROVE TypeOK'
    OBVIOUS
  <2> USE DEF clock, disk, cert, slots, locks, ctl, hist
  <2>a. ASSUME NEW a \in Actor
        PROVE  /\ SlotOf[a] \in Slot /\ ProcOfActor(a) \in Proc
               /\ ctx[SlotOf[a]].file \in Nat /\ ctx[SlotOf[a]].gen \in Nat
               /\ loc[a] \in Locals
    BY ActorsAssumption DEF ActorsAssumption, ProcOfActor, TypeOK
  <2>b. ASSUME NEW p \in Proc
        PROVE  [verdict EXCEPT ![p] = NoVerdict] \in [Proc -> Verdicts]
    BY Values DEF TypeOK
  <2>c. \A grew \in BOOLEAN : Stamped(grew) \subseteq Actor
    BY DEF Stamped, Verifying
  <2>1. ASSUME NEW a \in Actor, NEW j \in Jobs, TakeSlot(a, j) PROVE TypeOK'
    <3>1. loc' \in [Actor -> Locals]
      BY <2>1, <2>a, LocalsUpdated DEF TakeSlot, TypeOK
    <3>2. QED
      BY <2>1, <3>1, <2>a, ActorsAssumption DEF ActorsAssumption, TakeSlot, TypeOK, AllJobs, PCs
  <2>2. ASSUME NEW a \in Actor, Admit(a) PROVE TypeOK'
    BY <2>2 DEF Admit, Goto, TypeOK, PCs
  <2>3. ASSUME NEW a \in Actor, Lock(a) PROVE TypeOK'
    BY <2>3 DEF Lock, Goto, TypeOK, PCs
  <2>4. ASSUME NEW a \in Actor, OpenStep(a) PROVE TypeOK'
    <3>1. CASE SkipByVerdict(a)
      BY <3>1 DEF SkipByVerdict, Goto, TypeOK, PCs
    <3>2. CASE NothingToProbe(a)
      BY <3>2, <2>a, <2>b DEF NothingToProbe, ForgetVerdict, Goto, TypeOK, PCs
    <3>3. CASE SkipByMarker(a)
      <4>1. verdict' \in [Proc -> Verdicts]
        BY <3>3, <2>a, Values DEF SkipByMarker, SetVerdict, TypeOK
      <4>2. QED
        BY <3>3, <4>1 DEF SkipByMarker, Goto, TypeOK, PCs
    <3>4. CASE StartProbe(a)
      <4>1. loc' \in [Actor -> Locals]
        BY <3>4, <2>a, LocalsUpdated DEF StartProbe, TypeOK
      <4>2. QED
        BY <3>4, <4>1 DEF StartProbe, Goto, TypeOK, PCs
    <3>5. CASE ProbeSound(a)
      <4>1. verdict' \in [Proc -> Verdicts]
        BY <3>5, <2>a, Values, LocalsUpdated DEF ProbeSound, SetVerdict, TypeOK
      <4>2. loc' \in [Actor -> Locals]
        BY <3>5, <2>a, LocalsUpdated DEF ProbeSound, TypeOK, NoFile
      <4>3. QED
        BY <3>5, <4>1, <4>2 DEF ProbeSound, Goto, TypeOK, PCs
    <3>6. CASE ProbeCorrupt(a)
      <4>1. loc' \in [Actor -> Locals]
        BY <3>6, <2>a, LocalsUpdated DEF ProbeCorrupt, TypeOK, NoFile
      <4>2. QED
        BY <3>6, <4>1 DEF ProbeCorrupt, Goto, TypeOK, PCs
    <3>7. CASE VetoedByLive(a)
      BY <3>7, <2>a, <2>b, ReturnTyped DEF VetoedByLive, ForgetVerdict, TypeOK
    <3>8. CASE LockLive(a)
      BY <3>8 DEF LockLive, Goto, TypeOK, PCs
    <3>9. CASE Quarantine(a)
      BY <3>9, <2>a, <2>b DEF Quarantine, ForgetVerdict, Goto, TypeOK, PCs, Verifying, NoFile
    <3>10. CASE Connect(a)
      <4>1. /\ path' \in Nat /\ nextFile' \in Nat \ {0} /\ mtime' \in Nat
            /\ disturbed' \subseteq Actor /\ opens' \in Nat
        BY <3>10, <2>c DEF Connect, TypeOK, Verifying
      <4>2. ctx' \in [Slot -> [file : Nat, gen : Nat]]
        BY <3>10, <2>a, <4>1 DEF Connect, TypeOK
      <4>3. CASE job[a] = "open"
        BY <3>10, <4>1, <4>2, <4>3, ReturnTyped DEF Connect, TypeOK
      <4>4. CASE job[a] # "open"
        BY <3>10, <4>1, <4>2, <4>4 DEF Connect, Goto, TypeOK, PCs
      <4>5. QED
        BY <4>3, <4>4
    <3>11. CASE OpenFails(a)
      BY <3>11, ReturnTyped DEF OpenFails, TypeOK
    <3>12. QED
      BY <2>4, <3>1, <3>2, <3>3, <3>4, <3>5, <3>6, <3>7, <3>8, <3>9, <3>10, <3>11 DEF OpenStep
  <2>5. ASSUME NEW a \in Actor, WriteStep(a) PROVE TypeOK'
    <3>1. CASE Announce(a)
      <4>1. held' \in [Actor -> Verdicts]
        BY <3>1, <2>a, Values DEF Announce, TypeOK
      <4>2. QED
        BY <3>1, <2>a, <2>b, <4>1
           DEF Announce, ForgetVerdict, AnnouncedTo, Verifying, Goto, TypeOK, PCs
    <3>2. CASE SmallWrite(a)
      <4>1. /\ torn' \subseteq Nat /\ mtime' \in Nat
            /\ disturbed' \subseteq Actor /\ broken' \subseteq Proc
        BY <3>2, WriteTyped DEF SmallWrite
      <4>2. CASE Goto(a, "restore") /\ UNCHANGED <<verdict, ctx, locks, job, loc, held>>
        BY <3>2, <4>1, <4>2 DEF SmallWrite, Goto, TypeOK, PCs
      <4>3. CASE Return(a) /\ UNCHANGED <<verdict, ctx>>
        BY <3>2, <4>1, <4>3, ReturnTyped DEF SmallWrite, TypeOK
      <4>4. CASE CloseOverCorruption(a) /\ Return(a)
        BY <3>2, <4>1, <4>4, ReturnTyped, CloseTyped DEF SmallWrite, TypeOK
      <4>5. QED
        BY <3>2, <4>2, <4>3, <4>4 DEF SmallWrite
    <3>3. CASE RestoreVerdict(a)
      <4>1. verdict' \in [Proc -> Verdicts]
        BY <3>3, <2>a DEF RestoreVerdict, TypeOK
      <4>2. QED
        BY <3>3, <4>1, ReturnTyped DEF RestoreVerdict, TypeOK
    <3>4. CASE MutationWrite(a)
      <4>1. /\ torn' \subseteq Nat /\ mtime' \in Nat
            /\ disturbed' \subseteq Actor /\ broken' \subseteq Proc
        BY <3>4, WriteTyped DEF MutationWrite
      <4>2. loc' \in [Actor -> Locals]
        <5>1. PICK outcome \in {"ok", "error", "corrupt"} :
                loc' = [loc EXCEPT ![a].bad = (outcome = "corrupt")]
          BY <3>4 DEF MutationWrite
        <5>2. (outcome = "corrupt") \in BOOLEAN
          OBVIOUS
        <5>3. [loc[a] EXCEPT !.bad = (outcome = "corrupt")] \in Locals
          BY <2>a, <5>2, LocalsUpdated
        <5>4. QED
          BY <5>1, <5>3 DEF TypeOK
      <4>3. QED
        BY <3>4, <2>a, <4>1, <4>2 DEF MutationWrite, FreedBy, Goto, TypeOK, PCs
    <3>5. QED
      BY <2>5, <3>1, <3>2, <3>3, <3>4 DEF WriteStep
  <2>6. ASSUME NEW a \in Actor, VerifyStep(a) PROVE TypeOK'
    <3>1. CASE VerifySkips(a) \/ VerifyMatches(a)
      BY <3>1 DEF VerifySkips, VerifyMatches, Goto, TypeOK, PCs
    <3>2. CASE VerifyBegins(a)
      <4>1. loc' \in [Actor -> Locals]
        BY <3>2, <2>a, LocalsUpdated DEF VerifyBegins, TypeOK
      <4>2. QED
        BY <3>2, <4>1 DEF VerifyBegins, Goto, TypeOK, PCs
    <3>3. CASE VerifyScan(a)
      <4>1. path' \in Nat /\ nextFile' \in Nat \ {0} /\ mtime' \in Nat
        BY <3>3 DEF VerifyScan, TypeOK
      <4>2. loc' \in [Actor -> Locals]
        <5>1. PICK found \in {"sound", "corrupt", "undetermined"} :
                loc' = [loc EXCEPT ![a].conn = path', ![a].found = found]
          BY <3>3 DEF VerifyScan
        <5>2. [loc[a] EXCEPT !.conn = path', !.found = found] \in Locals
          BY <2>a, <4>1, LocalsUpdated
        <5>3. QED
          BY <5>1, <5>2 DEF TypeOK
      <4>3. QED
        BY <3>3, <4>1, <4>2 DEF VerifyScan, Verifying, Goto, TypeOK, PCs
    <3>4. CASE VerifyCannotOpen(a)
      <4>1. loc' \in [Actor -> Locals]
        BY <3>4, <2>a, LocalsUpdated DEF VerifyCannotOpen, TypeOK
      <4>2. QED
        BY <3>4, <4>1 DEF VerifyCannotOpen, Goto, TypeOK, PCs
    <3>5. CASE VerifyDisturbed(a)
      <4>1. loc' \in [Actor -> Locals]
        BY <3>5, <2>a, LocalsUpdated DEF VerifyDisturbed, TypeOK, NoFile
      <4>2. QED
        BY <3>5, <4>1 DEF VerifyDisturbed, Goto, TypeOK, PCs
    <3>6. CASE VerifyUndetermined(a)
      <4>1. loc' \in [Actor -> Locals]
        BY <3>6, <2>a, LocalsUpdated DEF VerifyUndetermined, TypeOK, NoFile
      <4>2. QED
        BY <3>6, <4>1 DEF VerifyUndetermined, Goto, TypeOK, PCs
    <3>7. CASE VerifyRecord(a)
      <4>1. verdict' \in [Proc -> Verdicts]
        BY <3>7, <2>a, Values, LocalsUpdated DEF VerifyRecord, SetVerdict, TypeOK
      <4>2. loc' \in [Actor -> Locals]
        BY <3>7, <2>a, LocalsUpdated DEF VerifyRecord, TypeOK, NoFile
      <4>3. QED
        BY <3>7, <4>1, <4>2 DEF VerifyRecord, Goto, TypeOK, PCs
    <3>8. CASE VerifyCorrupt(a)
      <4>1. loc' \in [Actor -> Locals]
        BY <3>8, <2>a, LocalsUpdated DEF VerifyCorrupt, TypeOK, NoFile
      <4>2. QED
        BY <3>8, <2>a, <2>b, <4>1
           DEF VerifyCorrupt, ForgetVerdict, AnnouncedTo, Verifying, Goto, TypeOK, PCs
    <3>9. CASE CloseGeneration(a)
      <4>1. /\ ctx' \in [Slot -> [file : Nat, gen : Nat]]
            /\ verdict' \in [Proc -> Verdicts]
           BY <3>9, CloseTyped DEF CloseGeneration, TypeOK
      <4>2. QED
        BY <3>9, <4>1, ReturnTyped DEF CloseGeneration, TypeOK
    <3>10. CASE MutationReturns(a)
      BY <3>10, ReturnTyped DEF MutationReturns, TypeOK
    <3>11. QED
      BY <2>6, <3>1, <3>2, <3>3, <3>4, <3>5, <3>6, <3>7, <3>8, <3>9, <3>10 DEF VerifyStep
  <2>7. ASSUME NEW a \in Actor, ReadCorrupt(a) PROVE TypeOK'
    BY <2>7, CloseTyped DEF ReadCorrupt, TypeOK
  <2>8. ASSUME NEW a \in Actor, DropContext(a) PROVE TypeOK'
    BY <2>8, <2>a, <2>c, Values DEF DropContext, TypeOK
  <2>9. ASSUME NEW p \in Proc, Crash(p) PROVE TypeOK'
    <3>1. /\ verdict' \in [Proc -> Verdicts]
          /\ loc' \in [Actor -> Locals]
          /\ held' \in [Actor -> Verdicts]
          /\ ctx' \in [Slot -> [file : Nat, gen : Nat]]
       BY <2>9, <2>b, Values DEF Crash, TypeOK
    <3>2. /\ torn' \subseteq Nat /\ mtime' \in Nat
          /\ disturbed' \subseteq Actor /\ broken' \subseteq Proc
      BY <2>9, <2>c DEF Crash, TypeOK
    <3>3. QED
      BY <2>9, <3>1, <3>2 DEF Crash, TypeOK, PCs
  <2>10. CASE Damage
    BY <2>10 DEF Damage, TypeOK
  <2>11. CASE Tick
    BY <2>11 DEF Tick, TypeOK
  <2>12. CASE UNCHANGED vars
    BY <2>12 DEF vars, TypeOK
  <2>13. QED
    BY <2>1, <2>2, <2>3, <2>4, <2>5, <2>6, <2>7, <2>8, <2>9, <2>10, <2>11, <2>12
       DEF Next, Continue
<1>3. QED
  BY <1>1, <1>2, PTL DEF Spec

-----------------------------------------------------------------------------
(* The locks.                                                               *)

\* An actor that returns holds nothing; what the others hold is untouched.
LEMMA ReturnKeepsLocks ==
  ASSUME TypeOK, LockInv, NEW a \in Actor, Return(a)
  PROVE  LockInv'
BY ActorsAssumption DEF ActorsAssumption, TypeOK, LockInv, Return, FreedBy,
   HoldsWriter, HoldsSlot, Opening, PCs

\* The actor that is inside a write or an open holds the writer lock, and the
\* one that is opening the mutation lock too.
THEOREM Locking == Spec => []LockInv
<1>1. Init => LockInv
  BY DEF Init, LockInv, HoldsWriter, HoldsSlot, Opening
<1>2. TypeOK /\ LockInv /\ [Next]_vars => LockInv'
  <2> SUFFICES ASSUME TypeOK, LockInv, [Next]_vars PROVE LockInv'
    OBVIOUS
  <2> USE DEF locks, ctl, HoldsWriter, HoldsSlot, Opening, PCs, Goto
  <2>1. ASSUME NEW a \in Actor, NEW j \in Jobs, TakeSlot(a, j) PROVE LockInv'
    BY <2>1 DEF TakeSlot, TypeOK, LockInv
  <2>2. ASSUME NEW a \in Actor, Admit(a) PROVE LockInv'
    BY <2>2, ActorsAssumption DEF ActorsAssumption, Admit, TypeOK, LockInv
  <2>3. ASSUME NEW a \in Actor, Lock(a) PROVE LockInv'
    BY <2>3, ActorsAssumption DEF ActorsAssumption, Lock, TypeOK, LockInv
  <2>4. ASSUME NEW a \in Actor, OpenStep(a) PROVE LockInv'
    <3>1. CASE SkipByVerdict(a) \/ NothingToProbe(a) \/ SkipByMarker(a) \/ StartProbe(a)
      BY <3>1 DEF SkipByVerdict, NothingToProbe, SkipByMarker, StartProbe, CannotTrust,
                  TypeOK, LockInv
    <3>2. CASE ProbeSound(a) \/ ProbeCorrupt(a) \/ LockLive(a) \/ Quarantine(a)
      BY <3>2 DEF ProbeSound, ProbeCorrupt, LockLive, Quarantine, TypeOK, LockInv
    <3>3. CASE VetoedByLive(a) \/ OpenFails(a)
      BY <3>3, ReturnKeepsLocks DEF VetoedByLive, OpenFails
    <3>4. CASE Connect(a)
      <4>1. CASE job[a] = "open"
        BY <3>4, <4>1, ReturnKeepsLocks DEF Connect
      <4>2. CASE job[a] # "open"
        BY <3>4, <4>2, ActorsAssumption DEF ActorsAssumption, Connect, TypeOK, LockInv
      <4>3. QED
        BY <4>1, <4>2
    <3>5. QED
      BY <2>4, <3>1, <3>2, <3>3, <3>4 DEF OpenStep
  <2>5. ASSUME NEW a \in Actor, WriteStep(a) PROVE LockInv'
    <3>1. CASE Announce(a)
      BY <3>1 DEF Announce, TypeOK, LockInv
    <3>2. CASE SmallWrite(a)
      <4>1. CASE Goto(a, "restore") /\ UNCHANGED locks
        BY <3>2, <4>1 DEF SmallWrite, TypeOK, LockInv
      <4>2. CASE Return(a)
        BY <4>2, ReturnKeepsLocks
      <4>3. QED
        BY <3>2, <4>1, <4>2 DEF SmallWrite
    <3>3. CASE RestoreVerdict(a)
      BY <3>3, ReturnKeepsLocks DEF RestoreVerdict
    <3>4. CASE MutationWrite(a)
      BY <3>4, ActorsAssumption DEF ActorsAssumption, MutationWrite, FreedBy, TypeOK, LockInv
    <3>5. QED
      BY <2>5, <3>1, <3>2, <3>3, <3>4 DEF WriteStep
  <2>6. ASSUME NEW a \in Actor, VerifyStep(a) PROVE LockInv'
    <3>1. CASE \/ VerifySkips(a) \/ VerifyBegins(a) \/ VerifyScan(a) \/ VerifyCannotOpen(a)
      BY <3>1 DEF VerifySkips, VerifyBegins, VerifyScan, VerifyCannotOpen, TypeOK, LockInv
    <3>2. CASE \/ VerifyMatches(a) \/ VerifyDisturbed(a) \/ VerifyRecord(a)
               \/ VerifyCorrupt(a) \/ VerifyUndetermined(a)
      BY <3>2 DEF VerifyMatches, VerifyDisturbed, VerifyRecord, VerifyCorrupt,
                  VerifyUndetermined, TypeOK, LockInv
    <3>3. CASE CloseGeneration(a) \/ MutationReturns(a)
      BY <3>3, ReturnKeepsLocks DEF CloseGeneration, MutationReturns
    <3>4. QED
      BY <2>6, <3>1, <3>2, <3>3 DEF VerifyStep
  <2>7. ASSUME NEW a \in Actor, ReadCorrupt(a) \/ DropContext(a) PROVE LockInv'
    BY <2>7 DEF ReadCorrupt, DropContext, LockInv
  <2>8. ASSUME NEW p \in Proc, Crash(p) PROVE LockInv'
    BY <2>8, ActorsAssumption DEF ActorsAssumption, Crash, TypeOK, LockInv
  <2>9. CASE Damage \/ Tick \/ UNCHANGED vars
    BY <2>9 DEF Damage, Tick, vars, LockInv
  <2>10. QED
    BY <2>1, <2>2, <2>3, <2>4, <2>5, <2>6, <2>7, <2>8, <2>9 DEF Next, Continue
<1>3. QED
  BY <1>1, <1>2, Typing, PTL DEF Spec

\* Exclusion: one actor of one process at a time writes, probes for an open,
\* renames or creates the file.
THEOREM WriterExclusion == Spec => []SoleWriter
<1>1. LockInv => SoleWriter
  BY DEF LockInv, SoleWriter, Busy, HoldsWriter, HoldsSlot, Opening, PCs
<1>2. QED
  BY <1>1, Locking, PTL

-----------------------------------------------------------------------------
(* The quarantine and the contexts.                                         *)

\* A slot that is emptied, and a file that stays, keep both invariants.
LEMMA EmptiedKeepsGeneration ==
  ASSUME TypeOK, OneGeneration, RenameInv, NEW s \in Slot,
         ctx' = [ctx EXCEPT ![s] = Empty] \/ UNCHANGED ctx,
         UNCHANGED path,
         \A a \in Actor : pc'[a] = "rename" => pc[a] = "rename"
  PROVE  OneGeneration' /\ RenameInv'
BY DEF TypeOK, OneGeneration, RenameInv, Empty

\* No context is ever left behind by a quarantine: the contexts of all slots
\* are on the file at the path.
THEOREM QuarantineSafety == Spec => []OneGeneration
<1> DEFINE Inv == OneGeneration /\ RenameInv
<1>1. Init => Inv
  BY DEF Init, OneGeneration, RenameInv, Empty
<1>2. TypeOK /\ LockInv /\ Inv /\ [Next]_vars => Inv'
  <2> SUFFICES ASSUME TypeOK, LockInv, OneGeneration, RenameInv, [Next]_vars
               PROVE  OneGeneration' /\ RenameInv'
    OBVIOUS
  <2> USE DEF disk, slots, locks, ctl, Goto
  <2>s. \A a \in Actor : SlotOf[a] \in Slot
    BY ActorsAssumption DEF ActorsAssumption
  <2>1. ASSUME NEW a \in Actor, NEW j \in Jobs, TakeSlot(a, j) PROVE Inv'
    BY <2>1 DEF TakeSlot, TypeOK, OneGeneration, RenameInv
  <2>2. ASSUME NEW a \in Actor, Admit(a) \/ Lock(a) PROVE Inv'
    BY <2>2 DEF Admit, Lock, TypeOK, OneGeneration, RenameInv
  <2>3. ASSUME NEW a \in Actor, OpenStep(a) PROVE Inv'
    <3>1. CASE SkipByVerdict(a) \/ NothingToProbe(a) \/ SkipByMarker(a) \/ StartProbe(a)
      BY <3>1 DEF SkipByVerdict, NothingToProbe, SkipByMarker, StartProbe, CannotTrust,
                  TypeOK, OneGeneration, RenameInv
    <3>2. CASE ProbeSound(a) \/ ProbeCorrupt(a)
      BY <3>2 DEF ProbeSound, ProbeCorrupt, TypeOK, OneGeneration, RenameInv
    <3>3. CASE VetoedByLive(a) \/ OpenFails(a)
      BY <3>3 DEF VetoedByLive, OpenFails, Return, TypeOK, OneGeneration, RenameInv
    <3>4. CASE LockLive(a)
      BY <3>4 DEF LockLive, LiveHolders, TypeOK, OneGeneration, RenameInv
    <3>5. CASE Quarantine(a)
      \* Under its exclusive live lock the renamer sees every slot empty.
      BY <3>5 DEF Quarantine, TypeOK, OneGeneration, RenameInv
    <3>6. CASE Connect(a)
      \* The mutation lock keeps a pending rename and a new context apart.
      <4>1. \A b \in Actor : pc[b] # "rename"
        BY <3>6 DEF Connect, LockInv, Opening
      <4>2. \A b \in Actor : pc'[b] # "rename"
        BY <3>6, <4>1 DEF Connect, Return, TypeOK
      <4>3. CASE path = NoFile
        <5>1. \A s \in Slot : ctx[s].file = NoFile
          BY <4>3 DEF OneGeneration
        <5>2. QED
          BY <3>6, <2>s, <4>2, <5>1 DEF Connect, OneGeneration, RenameInv, TypeOK
      <4>4. CASE path # NoFile
        BY <3>6, <2>s, <4>2, <4>4 DEF Connect, OneGeneration, RenameInv, TypeOK
      <4>5. QED
        BY <4>3, <4>4
    <3>7. QED
      BY <2>3, <3>1, <3>2, <3>3, <3>4, <3>5, <3>6 DEF OpenStep
  <2>4. ASSUME NEW a \in Actor, WriteStep(a) PROVE Inv'
    <3>1. CASE Announce(a) \/ RestoreVerdict(a) \/ MutationWrite(a)
      BY <3>1 DEF Announce, RestoreVerdict, MutationWrite, Return,
                  TypeOK, OneGeneration, RenameInv
    <3>2. CASE SmallWrite(a)
      <4>1. /\ ctx' = [ctx EXCEPT ![SlotOf[a]] = Empty] \/ UNCHANGED ctx
            /\ UNCHANGED path
            /\ \A b \in Actor : pc'[b] = "rename" => pc[b] = "rename"
        BY <3>2 DEF SmallWrite, CloseOverCorruption, Return, TypeOK
      <4>2. QED
        BY <2>s, <4>1, EmptiedKeepsGeneration
    <3>3. QED
      BY <2>4, <3>1, <3>2 DEF WriteStep
  <2>5. ASSUME NEW a \in Actor, VerifyStep(a) PROVE Inv'
    <3>1. CASE \/ VerifySkips(a) \/ VerifyBegins(a) \/ VerifyCannotOpen(a)
      BY <3>1 DEF VerifySkips, VerifyBegins, VerifyCannotOpen, TypeOK, OneGeneration, RenameInv
    <3>2. CASE VerifyScan(a)
      BY <3>2 DEF VerifyScan, TypeOK, OneGeneration, RenameInv
    <3>3. CASE \/ VerifyMatches(a) \/ VerifyDisturbed(a) \/ VerifyRecord(a)
               \/ VerifyCorrupt(a) \/ VerifyUndetermined(a)
      BY <3>3 DEF VerifyMatches, VerifyDisturbed, VerifyRecord, VerifyCorrupt,
                  VerifyUndetermined, TypeOK, OneGeneration, RenameInv
    <3>4. CASE CloseGeneration(a) \/ MutationReturns(a)
      <4>1. /\ ctx' = [ctx EXCEPT ![SlotOf[a]] = Empty] \/ UNCHANGED ctx
            /\ UNCHANGED path
            /\ \A b \in Actor : pc'[b] = "rename" => pc[b] = "rename"
        BY <3>4 DEF CloseGeneration, MutationReturns, CloseOverCorruption, Return, TypeOK
      <4>2. QED
        BY <2>s, <4>1, EmptiedKeepsGeneration
    <3>5. QED
      BY <2>5, <3>1, <3>2, <3>3, <3>4 DEF VerifyStep
  <2>6. ASSUME NEW a \in Actor, ReadCorrupt(a) \/ DropContext(a) PROVE Inv'
    <3>1. /\ ctx' = [ctx EXCEPT ![SlotOf[a]] = Empty] \/ UNCHANGED ctx
          /\ UNCHANGED path
          /\ UNCHANGED pc
      BY <2>6 DEF ReadCorrupt, DropContext, CloseOverCorruption
    <3>2. QED
      BY <2>s, <3>1, EmptiedKeepsGeneration
  <2>7. ASSUME NEW p \in Proc, Crash(p) PROVE Inv'
    BY <2>7 DEF Crash, Empty, TypeOK, OneGeneration, RenameInv
  <2>8. CASE Damage \/ Tick \/ UNCHANGED vars
    BY <2>8 DEF Damage, Tick, vars, OneGeneration, RenameInv
  <2>9. QED
    BY <2>1, <2>2, <2>3, <2>4, <2>5, <2>6, <2>7, <2>8 DEF Next, Continue
<1>3. QED
  BY <1>1, <1>2, Typing, Locking, PTL DEF Spec

-----------------------------------------------------------------------------
(* The lock-free verdict and the generation it is about.                    *)

\* What the verifying actor b learned about its generation.
Learned(b) ==
  LET c == ctx[SlotOf[b]] IN
  pc[b] \in VerifyPCs /\ c.file # NoFile /\ c.gen = loc[b].gen
  => /\ loc[b].bad => c.file \in torn
     /\ pc[b] = "vCompare" /\ loc[b].found = "corrupt" => c.file \in torn

\* An actor whose own step, locals and slot stay, or whose slot is emptied or
\* given a later generation, learned no less: no file is ever mended.
LEMMA LearnedKept ==
  ASSUME TypeOK, NEW b \in Actor, Learned(b), loc[b].gen =< opens,
         torn \subseteq torn', pc'[b] = pc[b], loc'[b] = loc[b],
         \/ ctx'[SlotOf[b]] = ctx[SlotOf[b]]
         \/ ctx'[SlotOf[b]] = Empty
         \/ ctx'[SlotOf[b]].gen = opens + 1
  PROVE  Learned(b)'
<1>1. loc[b].gen \in Nat /\ opens \in Nat
  BY LocalsUpdated DEF TypeOK
<1>2. CASE ctx'[SlotOf[b]] = ctx[SlotOf[b]]
  BY <1>2 DEF Learned
<1>3. CASE ctx'[SlotOf[b]] = Empty
  BY <1>3 DEF Learned, Empty
<1>4. CASE ctx'[SlotOf[b]].gen = opens + 1
  BY <1>1, <1>4 DEF Learned
<1>5. QED
  BY <1>2, <1>3, <1>4

\* Every reachable step keeps what the verifying actors learned.
LEMMA GenerationStep ==
  ASSUME TypeOK, TypeOK', LockInv, OneGeneration, GenerationInv, [Next]_vars
  PROVE  GenerationInv'
<1> USE DEF disk, slots, locks, ctl, Goto
<1>a. ASSUME NEW b \in Actor
      PROVE  /\ SlotOf[b] \in Slot
             /\ loc[b] \in Locals /\ loc'[b] \in Locals /\ loc[b].gen \in Nat
             /\ loc[b].gen =< opens /\ Learned(b)
  <2>1. SlotOf[b] \in Slot
    BY ActorsAssumption DEF ActorsAssumption
  <2>2. loc[b] \in Locals /\ loc'[b] \in Locals
    BY DEF TypeOK
  <2>3. loc[b].gen \in Nat
    BY <2>2 DEF Locals
  <2>4. loc[b].gen =< opens /\ Learned(b)
    BY DEF GenerationInv, Learned
  <2>5. QED
    BY <2>1, <2>2, <2>3, <2>4
<1>b. \A s \in Slot : ctx[s].gen \in Nat /\ ctx[s].gen =< opens
  BY DEF GenerationInv, TypeOK
<1>c. opens \in Nat
  BY DEF TypeOK
\* It is enough to look at the bounds and at each actor.
<1>d. ASSUME \A s \in Slot : ctx'[s].gen =< opens',
             \A b \in Actor : loc'[b].gen =< opens' /\ Learned(b)'
      PROVE  GenerationInv'
  BY <1>d DEF GenerationInv, Learned
\* A step of a alone that opens nothing, mends nothing and only empties slots.
<1>e. ASSUME NEW a \in Actor, UNCHANGED opens, torn \subseteq torn',
             \A s \in Slot : ctx'[s] \in {ctx[s], Empty},
             \A b \in Actor \ {a} : pc'[b] = pc[b] /\ loc'[b] = loc[b],
             loc'[a].gen \in {0, loc[a].gen, ctx[SlotOf[a]].gen},
             Learned(a)'
      PROVE  GenerationInv'
  <2>1. \A s \in Slot : ctx'[s].gen =< opens'
    BY <1>e, <1>b, <1>c DEF Empty
  <2>2. ASSUME NEW b \in Actor PROVE loc'[b].gen =< opens' /\ Learned(b)'
    <3>1. CASE b = a
      BY <3>1, <1>e, <1>a, <1>b, <1>c
    <3>2. CASE b # a
      BY <3>2, <1>e, <1>a, LearnedKept
    <3>3. QED
      BY <3>1, <3>2
  <2>3. QED
    BY <1>d, <2>1, <2>2
\* A step that leaves the actors, opens nothing and only empties slots.
<1>f. ASSUME UNCHANGED opens, torn \subseteq torn',
             \A s \in Slot : ctx'[s] \in {ctx[s], Empty},
             \A b \in Actor : pc'[b] = pc[b] /\ loc'[b] = loc[b]
      PROVE  GenerationInv'
  <2>1. \A s \in Slot : ctx'[s].gen =< opens'
    BY <1>f, <1>b, <1>c DEF Empty
  <2>2. ASSUME NEW b \in Actor PROVE loc'[b].gen =< opens' /\ Learned(b)'
    BY <1>f, <1>a, LearnedKept
  <2>3. QED
    BY <1>d, <2>1, <2>2
<1>r. ASSUME NEW a \in Actor, Return(a)
      PROVE  /\ \A b \in Actor \ {a} : pc'[b] = pc[b] /\ loc'[b] = loc[b]
             /\ loc'[a].gen = 0
             /\ Learned(a)'
  BY <1>r DEF Return, Blank, Learned, VerifyPCs, TypeOK
<1>1. ASSUME NEW a \in Actor, NEW j \in Jobs, TakeSlot(a, j) PROVE GenerationInv'
  <2>1. pc'[a] = "admit" /\ loc'[a].gen = ctx[SlotOf[a]].gen
    BY <1>1, <1>a DEF TakeSlot, TypeOK, Locals
  <2>2. Learned(a)'
    BY <2>1 DEF Learned, VerifyPCs
  <2>3. QED
    BY <1>1, <1>e, <2>1, <2>2 DEF TakeSlot, TypeOK
<1>2. ASSUME NEW a \in Actor, Admit(a) \/ Lock(a) PROVE GenerationInv'
  <2>1. Learned(a)'
    BY <1>2 DEF Admit, Lock, Learned, VerifyPCs, TypeOK
  <2>2. QED
    BY <1>2, <1>e, <2>1 DEF Admit, Lock, TypeOK
<1>3. ASSUME NEW a \in Actor, OpenStep(a) PROVE GenerationInv'
  <2>1. CASE SkipByVerdict(a) \/ NothingToProbe(a) \/ SkipByMarker(a) \/ LockLive(a)
             \/ Quarantine(a)
    <3>1. pc'[a] \in {"connect", "rename"} /\ UNCHANGED loc
      BY <2>1 DEF SkipByVerdict, NothingToProbe, SkipByMarker, LockLive, Quarantine,
                  CannotTrust, TypeOK
    <3>2. Learned(a)'
      BY <3>1 DEF Learned, VerifyPCs
    <3>3. QED
      BY <2>1, <1>e, <3>1, <3>2
         DEF SkipByVerdict, NothingToProbe, SkipByMarker, LockLive, Quarantine,
             CannotTrust, TypeOK
  <2>2. CASE StartProbe(a) \/ ProbeSound(a) \/ ProbeCorrupt(a)
    <3>1. pc'[a] \in {"scan", "connect", "corrupt"} /\ loc'[a].gen = loc[a].gen
      BY <2>2, <1>a DEF StartProbe, ProbeSound, ProbeCorrupt, CannotTrust, TypeOK, Locals
    <3>2. Learned(a)'
      BY <3>1 DEF Learned, VerifyPCs
    <3>3. QED
      BY <2>2, <1>e, <3>1, <3>2
         DEF StartProbe, ProbeSound, ProbeCorrupt, CannotTrust, TypeOK
  <2>3. CASE VetoedByLive(a) \/ OpenFails(a)
    BY <2>3, <1>e, <1>r DEF VetoedByLive, OpenFails
  <2>4. CASE Connect(a)
    <3>1. /\ opens' = opens + 1 /\ UNCHANGED torn
          /\ \A s \in Slot : ctx'[s] = ctx[s] \/ ctx'[s].gen = opens + 1
      BY <2>4, <1>a DEF Connect, TypeOK
    <3>2. /\ pc'[a] \in {"idle", "announce"} /\ loc'[a].gen \in {0, loc[a].gen}
          /\ \A b \in Actor \ {a} : pc'[b] = pc[b] /\ loc'[b] = loc[b]
      BY <2>4, <1>r DEF Connect, Return, TypeOK
    <3>3. \A s \in Slot : ctx'[s].gen =< opens'
      BY <3>1, <1>b, <1>c
    <3>4. ASSUME NEW b \in Actor PROVE loc'[b].gen =< opens' /\ Learned(b)'
      <4>1. CASE b = a
        BY <4>1, <3>1, <3>2, <1>a, <1>c DEF Learned, VerifyPCs
      <4>2. CASE b # a
        BY <4>2, <3>1, <3>2, <1>a, <1>c, LearnedKept
      <4>3. QED
        BY <4>1, <4>2
    <3>5. QED
      BY <1>d, <3>3, <3>4
  <2>5. QED
    BY <1>3, <2>1, <2>2, <2>3, <2>4 DEF OpenStep
<1>4. ASSUME NEW a \in Actor, WriteStep(a) PROVE GenerationInv'
  <2>1. CASE Announce(a)
    <3>1. pc'[a] = "write" /\ UNCHANGED loc
      BY <2>1 DEF Announce, TypeOK
    <3>2. Learned(a)'
      BY <3>1 DEF Learned, VerifyPCs
    <3>3. QED
      BY <2>1, <1>e, <3>1, <3>2 DEF Announce, TypeOK
  <2>2. CASE SmallWrite(a)
    <3>1. UNCHANGED opens /\ torn \subseteq torn' /\ \A s \in Slot : ctx'[s] \in {ctx[s], Empty}
      BY <2>2, <1>a DEF SmallWrite, WriteEffect, CloseOverCorruption, TypeOK
    <3>2. CASE Goto(a, "restore") /\ UNCHANGED loc
      <4>1. Learned(a)'
        BY <3>2 DEF Learned, VerifyPCs, TypeOK
      <4>2. QED
        BY <3>1, <3>2, <4>1, <1>e DEF TypeOK
    <3>3. CASE Return(a)
      BY <3>1, <3>3, <1>r, <1>e
    <3>4. QED
      BY <2>2, <3>2, <3>3 DEF SmallWrite
  <2>3. CASE RestoreVerdict(a)
    BY <2>3, <1>e, <1>r DEF RestoreVerdict
  <2>4. CASE MutationWrite(a)
    \* SQLite reports corruption only of the torn file it writes to.
    <3>1. PICK wrote, tears, grew \in BOOLEAN, outcome \in {"ok", "error", "corrupt"} :
             /\ WriteEffect(a, wrote, tears, grew, outcome)
             /\ loc' = [loc EXCEPT ![a].bad = (outcome = "corrupt")]
      BY <2>4 DEF MutationWrite
    <3>2. /\ loc'[a].gen = loc[a].gen /\ loc'[a].bad = (outcome = "corrupt")
          /\ pc'[a] = "vBegin" /\ UNCHANGED ctx
      BY <2>4, <3>1, <1>a DEF MutationWrite, TypeOK, Locals
    <3>3. Learned(a)'
      BY <3>1, <3>2 DEF WriteEffect, Learned
    <3>4. QED
      BY <2>4, <3>1, <3>2, <3>3, <1>e DEF MutationWrite, WriteEffect, TypeOK
  <2>5. QED
    BY <1>4, <2>1, <2>2, <2>3, <2>4 DEF WriteStep
<1>5. ASSUME NEW a \in Actor, VerifyStep(a) PROVE GenerationInv'
  <2>1. CASE VerifySkips(a) \/ VerifyMatches(a)
    <3>1. pc[a] \in VerifyPCs /\ pc'[a] \in {"vDone", "vRecord"} /\ UNCHANGED <<ctx, loc, torn>>
      BY <2>1 DEF VerifySkips, VerifyMatches, VerifyPCs, TypeOK
    <3>2. Learned(a)'
      BY <3>1, <1>a DEF Learned
    <3>3. QED
      BY <2>1, <1>e, <3>1, <3>2 DEF VerifySkips, VerifyMatches, TypeOK
  <2>2. CASE VerifyBegins(a) \/ VerifyDisturbed(a) \/ VerifyRecord(a)
    <3>1. /\ pc[a] \in VerifyPCs /\ pc'[a] \in {"vScan", "vDone"} /\ UNCHANGED <<ctx, torn>>
          /\ loc'[a].gen = loc[a].gen /\ loc'[a].bad = loc[a].bad
      BY <2>2, <1>a DEF VerifyBegins, VerifyDisturbed, VerifyRecord, VerifyPCs, TypeOK, Locals
    <3>2. Learned(a)'
      BY <3>1, <1>a DEF Learned
    <3>3. QED
      BY <2>2, <1>e, <3>1, <3>2 DEF VerifyBegins, VerifyDisturbed, VerifyRecord, TypeOK
  <2>3. CASE VerifyCannotOpen(a) \/ VerifyUndetermined(a)
    <3>1. /\ pc[a] \in VerifyPCs /\ pc'[a] = "vDone" /\ UNCHANGED <<ctx, torn>>
          /\ loc'[a].gen = loc[a].gen /\ (loc'[a].bad => loc[a].bad)
      BY <2>3, <1>a DEF VerifyCannotOpen, VerifyUndetermined, VerifyPCs, TypeOK, Locals
    <3>2. Learned(a)'
      BY <3>1, <1>a DEF Learned
    <3>3. QED
      BY <2>3, <1>e, <3>1, <3>2 DEF VerifyCannotOpen, VerifyUndetermined, TypeOK
  <2>4. CASE VerifyScan(a)
    \* The scanned file is the one behind every open context.
    <3>1. PICK found \in {IF path' \in torn THEN "corrupt" ELSE "sound", "undetermined"} :
             loc' = [loc EXCEPT ![a].conn = path', ![a].found = found]
      BY <2>4 DEF VerifyScan
    <3>2. /\ pc[a] \in VerifyPCs /\ pc'[a] = "vCompare" /\ UNCHANGED <<ctx, torn>>
          /\ loc'[a].gen = loc[a].gen /\ loc'[a].bad = loc[a].bad /\ loc'[a].found = found
      BY <2>4, <3>1, <1>a DEF VerifyScan, VerifyPCs, TypeOK, Locals
    <3>3. ctx[SlotOf[a]].file # NoFile => path' = ctx[SlotOf[a]].file
      BY <2>4, <1>a DEF VerifyScan, OneGeneration
    <3>4. Learned(a)'
      BY <3>1, <3>2, <3>3, <1>a DEF Learned
    <3>5. QED
      BY <2>4, <1>e, <3>2, <3>4 DEF VerifyScan, TypeOK
  <2>5. CASE VerifyCorrupt(a)
    <3>1. /\ pc[a] = "vCompare" /\ loc[a].found = "corrupt" /\ pc'[a] = "vDone"
          /\ UNCHANGED <<ctx, torn>> /\ loc'[a].gen = loc[a].gen
      BY <2>5, <1>a DEF VerifyCorrupt, TypeOK, Locals
    <3>2. Learned(a)'
      BY <3>1, <1>a DEF Learned, VerifyPCs
    <3>3. QED
      BY <2>5, <1>e, <3>1, <3>2 DEF VerifyCorrupt, TypeOK
  <2>6. CASE CloseGeneration(a)
    <3>1. \A s \in Slot : ctx'[s] \in {ctx[s], Empty}
      BY <2>6, <1>a DEF CloseGeneration, CloseOverCorruption, TypeOK
    <3>2. QED
      BY <2>6, <3>1, <1>e, <1>r DEF CloseGeneration
  <2>7. CASE MutationReturns(a)
    BY <2>7, <1>e, <1>r DEF MutationReturns
  <2>8. QED
    BY <1>5, <2>1, <2>2, <2>3, <2>4, <2>5, <2>6, <2>7 DEF VerifyStep
<1>6. ASSUME NEW a \in Actor, ReadCorrupt(a) \/ DropContext(a) PROVE GenerationInv'
  <2>1. \A s \in Slot : ctx'[s] \in {ctx[s], Empty}
    BY <1>6, <1>a DEF ReadCorrupt, DropContext, CloseOverCorruption, TypeOK
  <2>2. QED
    BY <1>6, <2>1, <1>f DEF ReadCorrupt, DropContext
<1>7. ASSUME NEW p \in Proc, Crash(p) PROVE GenerationInv'
  <2>1. /\ UNCHANGED opens /\ torn \subseteq torn'
        /\ \A s \in Slot : ctx'[s] \in {ctx[s], Empty}
    BY <1>7 DEF Crash
  <2>2. ASSUME NEW b \in Actor PROVE loc'[b].gen =< opens' /\ Learned(b)'
    <3>1. CASE pc'[b] = pc[b] /\ loc'[b] = loc[b]
      BY <3>1, <2>1, <1>a, LearnedKept
    <3>2. CASE pc'[b] = "idle" /\ loc'[b] = Blank
      BY <3>2, <2>1, <1>c DEF Learned, VerifyPCs, Blank
    <3>3. QED
      BY <1>7, <3>1, <3>2 DEF Crash
  <2>3. \A s \in Slot : ctx'[s].gen =< opens'
    BY <2>1, <1>b, <1>c DEF Empty
  <2>4. QED
    BY <1>d, <2>2, <2>3
<1>8. CASE Damage \/ Tick \/ UNCHANGED vars
  BY <1>8, <1>f DEF Damage, Tick, vars
<1>9. QED
  BY <1>1, <1>2, <1>3, <1>4, <1>5, <1>6, <1>7, <1>8 DEF Next, Continue

\* A verdict reached without any lock closes only a context whose file is
\* damaged, whatever was closed, quarantined and reopened meanwhile.
THEOREM VerdictsCloseTheDamaged == Spec => ClosesOnlyTheDamaged
<1>1. Init => GenerationInv
  BY DEF Init, GenerationInv, Empty, Blank, VerifyPCs
<1>2. TypeOK /\ TypeOK' /\ LockInv /\ OneGeneration /\ GenerationInv /\ [Next]_vars
      => GenerationInv'
  BY GenerationStep
<1>3. ASSUME GenerationInv, NEW a \in Actor, CloseGeneration(a),
             ctx'[SlotOf[a]] # ctx[SlotOf[a]]
      PROVE  ctx[SlotOf[a]].file \in torn
  <2>1. /\ pc[a] \in VerifyPCs /\ loc[a].bad
        /\ ctx[SlotOf[a]].file # NoFile /\ ctx[SlotOf[a]].gen = loc[a].gen
    BY <1>3 DEF CloseGeneration, VerifyPCs
  <2>2. QED
    BY <1>3, <2>1 DEF GenerationInv
<1>3a. GenerationInv /\ [Next]_vars
       => [\A a \in Actor :
             /\ CloseGeneration(a)
             /\ ctx'[SlotOf[a]] # ctx[SlotOf[a]]
             => ctx[SlotOf[a]].file \in torn]_vars
  BY <1>3
<1>4. QED
  BY <1>1, <1>2, <1>3a, Typing, Locking, QuarantineSafety, PTL DEF Spec, ClosesOnlyTheDamaged

-----------------------------------------------------------------------------
(* No lock is left behind, and nobody waits in a circle.                     *)

\* Who holds a lock is inside the steps that need it: no lock is left behind.
HoldInv ==
  /\ \A a \in Actor : pc[a] \in HoldsSlot => slotLock[SlotOf[a]] = a
  /\ \A s \in Slot : slotLock[s] # None =>
       SlotOf[slotLock[s]] = s /\ pc[slotLock[s]] \in HoldsSlot
  /\ writer # None => pc[writer] \in HoldsWriter
  /\ mutation # None => \/ pc[mutation] \in Opening
                        \/ job[mutation] = "memory" /\ pc[mutation] \in {"announce", "write"}

\* Freed locks are free, and nobody else's are touched.
LEMMA FreedKeepsHolders ==
  ASSUME TypeOK, LockInv, HoldInv, NEW a \in Actor, FreedBy(a),
         pc'[a] \notin HoldsSlot,
         \A b \in Actor \ {a} : pc'[b] = pc[b] /\ job'[b] = job[b]
  PROVE  HoldInv'
<1>1. SlotOf \in [Actor -> Slot] /\ None \notin Actor
  BY ActorsAssumption DEF ActorsAssumption
<1>2. \A s \in Slot : (slotLock'[s] = slotLock[s] /\ slotLock[s] # a) \/ slotLock'[s] = None
  BY <1>1 DEF FreedBy, TypeOK, HoldInv
<1>3. \A b \in Actor : pc'[b] \in HoldsSlot => slotLock'[SlotOf[b]] = b
  BY <1>1 DEF FreedBy, TypeOK, HoldInv
<1>4. \A s \in Slot : slotLock'[s] # None =>
        SlotOf[slotLock'[s]] = s /\ pc'[slotLock'[s]] \in HoldsSlot
  BY <1>1, <1>2 DEF TypeOK, HoldInv
<1>5. writer' # None => pc'[writer'] \in HoldsWriter
  BY <1>1 DEF FreedBy, TypeOK, HoldInv
<1>6. mutation' # None =>
        \/ pc'[mutation'] \in Opening
        \/ job'[mutation'] = "memory" /\ pc'[mutation'] \in {"announce", "write"}
  BY <1>1 DEF FreedBy, TypeOK, HoldInv
<1>7. QED
  BY <1>3, <1>4, <1>5, <1>6 DEF HoldInv

\* A lock is held exactly by an actor that is inside the steps it protects.
THEOREM NoLockLeftBehind == Spec => []HoldInv
<1>1. Init => HoldInv
  BY DEF Init, HoldInv, HoldsSlot
<1>2. TypeOK /\ LockInv /\ HoldInv /\ [Next]_vars => HoldInv'
  <2> SUFFICES ASSUME TypeOK, LockInv, HoldInv, [Next]_vars PROVE HoldInv'
    OBVIOUS
  <2> USE DEF locks, ctl, HoldsWriter, HoldsSlot, Opening, PCs, Goto
  <2>s. SlotOf \in [Actor -> Slot] /\ None \notin Actor
    BY ActorsAssumption DEF ActorsAssumption
  <2>r. ASSUME NEW a \in Actor, Return(a) PROVE HoldInv'
    BY <2>r, FreedKeepsHolders DEF Return, TypeOK
  \* A step of a from one point under the locks to another.
  <2>m. ASSUME NEW a \in Actor, UNCHANGED <<slotLock, writer, mutation, job>>,
               NEW l \in PCs, pc' = [pc EXCEPT ![a] = l],
               pc[a] \in HoldsSlot => l \in HoldsSlot,
               l \in HoldsSlot => pc[a] \in HoldsSlot,
               pc[a] \in HoldsWriter => l \in HoldsWriter,
               pc[a] \in Opening => l \in Opening,
               pc[a] \in {"announce", "write"} => l = "write" \/ job[a] = "write"
        PROVE  HoldInv'
    BY <2>m, <2>s DEF TypeOK, HoldInv
  <2>1. ASSUME NEW a \in Actor, NEW j \in Jobs, TakeSlot(a, j) PROVE HoldInv'
    <3>1. /\ slotLock[SlotOf[a]] = None /\ pc[a] = "idle"
          /\ slotLock' = [slotLock EXCEPT ![SlotOf[a]] = a]
          /\ pc' = [pc EXCEPT ![a] = "admit"] /\ job' = [job EXCEPT ![a] = j]
          /\ UNCHANGED <<writer, mutation>>
      BY <2>1 DEF TakeSlot
    <3>2. SlotOf[a] \in Slot /\ pc'[a] = "admit" /\ slotLock'[SlotOf[a]] = a
      BY <3>1, <2>s DEF TypeOK
    <3>3. \A b \in Actor : b # a => pc'[b] = pc[b] /\ job'[b] = job[b]
      BY <3>1 DEF TypeOK
    <3>4. \A s \in Slot : s # SlotOf[a] => slotLock'[s] = slotLock[s]
      BY <3>1 DEF TypeOK
    <3>5. \A b \in Actor : pc'[b] \in HoldsSlot => slotLock'[SlotOf[b]] = b
      BY <3>1, <3>2, <3>3, <3>4, <2>s DEF HoldInv
    <3>6. \A s \in Slot : slotLock'[s] # None =>
            SlotOf[slotLock'[s]] = s /\ pc'[slotLock'[s]] \in HoldsSlot
      BY <3>1, <3>2, <3>3, <3>4, <2>s DEF HoldInv, TypeOK
    <3>7. QED
      BY <3>1, <3>3, <3>5, <3>6 DEF HoldInv, TypeOK
  <2>2. ASSUME NEW a \in Actor, Admit(a) PROVE HoldInv'
    BY <2>2, <2>s DEF Admit, TypeOK, HoldInv
  <2>3. ASSUME NEW a \in Actor, Lock(a) PROVE HoldInv'
    BY <2>3, <2>s DEF Lock, TypeOK, HoldInv
  <2>4. ASSUME NEW a \in Actor, OpenStep(a) PROVE HoldInv'
    <3>1. CASE SkipByVerdict(a) \/ NothingToProbe(a) \/ SkipByMarker(a) \/ StartProbe(a)
      BY <3>1, <2>m DEF SkipByVerdict, NothingToProbe, SkipByMarker, StartProbe, CannotTrust
    <3>2. CASE ProbeSound(a) \/ ProbeCorrupt(a) \/ LockLive(a) \/ Quarantine(a)
      BY <3>2, <2>m DEF ProbeSound, ProbeCorrupt, LockLive, Quarantine
    <3>3. CASE VetoedByLive(a) \/ OpenFails(a)
      BY <3>3, <2>r DEF VetoedByLive, OpenFails
    <3>4. CASE Connect(a)
      <4>1. CASE job[a] = "open"
        BY <3>4, <4>1, <2>r DEF Connect
      <4>2. CASE job[a] # "open"
        <5>1. /\ pc[a] = "connect" /\ pc' = [pc EXCEPT ![a] = "announce"]
              /\ mutation' = None /\ UNCHANGED <<slotLock, writer, job>>
          BY <3>4, <4>2 DEF Connect
        <5>2. QED
          BY <5>1, <2>s DEF TypeOK, HoldInv
      <4>3. QED
        BY <4>1, <4>2
    <3>5. QED
      BY <2>4, <3>1, <3>2, <3>3, <3>4 DEF OpenStep
  <2>5. ASSUME NEW a \in Actor, WriteStep(a) PROVE HoldInv'
    <3>1. CASE Announce(a)
      BY <3>1, <2>m DEF Announce
    <3>2. CASE SmallWrite(a)
      <4>1. CASE Goto(a, "restore") /\ UNCHANGED <<locks, job>>
        BY <3>2, <4>1, <2>m DEF SmallWrite
      <4>2. CASE Return(a)
        BY <4>2, <2>r
      <4>3. QED
        BY <3>2, <4>1, <4>2 DEF SmallWrite
    <3>3. CASE RestoreVerdict(a)
      BY <3>3, <2>r DEF RestoreVerdict
    <3>4. CASE MutationWrite(a)
      BY <3>4, FreedKeepsHolders DEF MutationWrite, TypeOK
    <3>5. QED
      BY <2>5, <3>1, <3>2, <3>3, <3>4 DEF WriteStep
  <2>6. ASSUME NEW a \in Actor, VerifyStep(a) PROVE HoldInv'
    <3>1. CASE \/ VerifySkips(a) \/ VerifyBegins(a) \/ VerifyScan(a) \/ VerifyCannotOpen(a)
      BY <3>1, <2>m DEF VerifySkips, VerifyBegins, VerifyScan, VerifyCannotOpen
    <3>2. CASE \/ VerifyMatches(a) \/ VerifyDisturbed(a) \/ VerifyRecord(a)
               \/ VerifyCorrupt(a) \/ VerifyUndetermined(a)
      BY <3>2, <2>m DEF VerifyMatches, VerifyDisturbed, VerifyRecord,
                        VerifyCorrupt, VerifyUndetermined
    <3>3. CASE CloseGeneration(a) \/ MutationReturns(a)
      BY <3>3, <2>r DEF CloseGeneration, MutationReturns
    <3>4. QED
      BY <2>6, <3>1, <3>2, <3>3 DEF VerifyStep
  <2>7. ASSUME NEW a \in Actor, ReadCorrupt(a) \/ DropContext(a) PROVE HoldInv'
    BY <2>7 DEF ReadCorrupt, DropContext, HoldInv
  <2>8. ASSUME NEW p \in Proc, Crash(p) PROVE HoldInv'
    BY <2>8, <2>s DEF Crash, ProcOfActor, TypeOK, HoldInv
  <2>9. CASE Damage \/ Tick \/ UNCHANGED vars
    BY <2>9 DEF Damage, Tick, vars, HoldInv
  <2>10. QED
    BY <2>1, <2>2, <2>3, <2>4, <2>5, <2>6, <2>7, <2>8, <2>9 DEF Next, Continue
<1>3. QED
  BY <1>1, <1>2, Typing, Locking, PTL DEF Spec

\* The locks of all processes are waited for in one order: some begun operation
\* can always take its next step, whoever waits for whom.
THEOREM LockOrder == Spec => []NoCircularWait
<1>1. TypeOK /\ HoldInv => NoCircularWait
  <2> SUFFICES ASSUME TypeOK, HoldInv, NEW a \in Actor, pc[a] # "idle"
               PROVE  \E b \in Actor : pc[b] # "idle" /\ ~ WaitsForLock(b)
    BY DEF NoCircularWait
  <2> USE DEF HoldsWriter, HoldsSlot, Opening, PCs
  <2>1. CASE mutation # None
    BY <2>1 DEF HoldInv, TypeOK, WaitsForLock
  <2>2. CASE mutation = None /\ writer # None
    BY <2>2 DEF HoldInv, TypeOK, WaitsForLock
  <2>3. CASE mutation = None /\ writer = None /\ slotLock[SlotOf[a]] # None
    <3>1. SlotOf[a] \in Slot
      BY ActorsAssumption DEF ActorsAssumption
    <3>2. QED
      BY <2>3, <3>1 DEF HoldInv, TypeOK, WaitsForLock
  <2>4. CASE mutation = None /\ writer = None /\ slotLock[SlotOf[a]] = None
    BY <2>4 DEF WaitsForLock
  <2>5. QED
    BY <2>1, <2>2, <2>3, <2>4
<1>2. QED
  BY <1>1, Typing, NoLockLeftBehind, PTL

-----------------------------------------------------------------------------
(* What an unfinished write leaves behind, and who is trusted over it.       *)

\* A write goes through an open context, from its admission on if it opens none.
UseInv ==
  \A a \in Actor :
    \/ pc[a] \in {"announce", "write", "restore"}
    \/ job[a] = "memory" /\ pc[a] \in {"admit", "lock"}
    => ctx[SlotOf[a]].file # NoFile

\* An actor that keeps its slot locked keeps the context in it.
LEMMA LockedSlotKept ==
  ASSUME TypeOK, HoldInv, UseInv, NEW a \in Actor,
         \A s \in Slot : s # SlotOf[a] => ctx'[s] = ctx[s],
         \A b \in Actor \ {a} : pc'[b] = pc[b] /\ job'[b] = job[b],
         \/ pc[a] \in HoldsSlot
         \/ slotLock[SlotOf[a]] = None
         \/ UNCHANGED ctx,
         \/ pc'[a] \notin {"admit", "lock", "announce", "write", "restore"}
         \/ ctx'[SlotOf[a]].file # NoFile
  PROVE  UseInv'
<1>1. SlotOf \in [Actor -> Slot] /\ None \notin Actor
  BY ActorsAssumption DEF ActorsAssumption
<1>2. ASSUME NEW b \in Actor, b # a, pc[b] \in HoldsSlot PROVE ctx'[SlotOf[b]] = ctx[SlotOf[b]]
  BY <1>1, <1>2 DEF HoldInv
<1>3. QED
  BY <1>1, <1>2 DEF UseInv, HoldsSlot, PCs

\* A guarded write is under way only through an open context of its slot, from its
\* admission to its end (run_admitted_write, run_mutation).
THEOREM WritesThroughContexts == Spec => []UseInv
<1>1. Init => UseInv
  BY DEF Init, UseInv
<1>2. TypeOK /\ HoldInv /\ UseInv /\ [Next]_vars => UseInv'
  <2> SUFFICES ASSUME TypeOK, HoldInv, UseInv, [Next]_vars PROVE UseInv'
    OBVIOUS
  <2> USE DEF slots, locks, ctl, Goto
  <2>s. SlotOf \in [Actor -> Slot] /\ None \notin Actor
    BY ActorsAssumption DEF ActorsAssumption
  <2>e. \A a \in Actor : ctx[SlotOf[a]].file \in Nat
    BY <2>s DEF TypeOK
  <2>r. ASSUME NEW a \in Actor, Return(a), 
               \A s \in Slot : s # SlotOf[a] => ctx'[s] = ctx[s],
               pc[a] \in HoldsSlot \/ slotLock[SlotOf[a]] = None \/ UNCHANGED ctx
        PROVE  UseInv'
    BY <2>r, LockedSlotKept DEF Return, TypeOK
  \* A step of a that leaves the contexts alone.
  <2>m. ASSUME NEW a \in Actor, UNCHANGED ctx, UNCHANGED job,
               NEW l \in PCs, pc' = [pc EXCEPT ![a] = l],
               l \in {"admit", "lock", "announce", "write", "restore"}
                 => ctx[SlotOf[a]].file # NoFile
        PROVE  UseInv'
    BY <2>m DEF TypeOK, UseInv
  <2>1. ASSUME NEW a \in Actor, NEW j \in Jobs, TakeSlot(a, j) PROVE UseInv'
    BY <2>1 DEF TakeSlot, TypeOK, UseInv
  <2>2. ASSUME NEW a \in Actor, Admit(a) PROVE UseInv'
    BY <2>2 DEF Admit, TypeOK, UseInv
  <2>3. ASSUME NEW a \in Actor, Lock(a) PROVE UseInv'
    BY <2>3 DEF Lock, TypeOK, UseInv
  <2>4. ASSUME NEW a \in Actor, OpenStep(a) PROVE UseInv'
    <3>1. CASE SkipByVerdict(a) \/ NothingToProbe(a) \/ SkipByMarker(a) \/ StartProbe(a)
      BY <3>1, <2>m DEF SkipByVerdict, NothingToProbe, SkipByMarker, StartProbe, CannotTrust, PCs
    <3>2. CASE ProbeSound(a) \/ ProbeCorrupt(a) \/ LockLive(a) \/ Quarantine(a)
      BY <3>2, <2>m DEF ProbeSound, ProbeCorrupt, LockLive, Quarantine, PCs
    <3>3. CASE VetoedByLive(a) \/ OpenFails(a)
      BY <3>3, <2>r DEF VetoedByLive, OpenFails
    <3>4. CASE Connect(a)
      <4>1. /\ pc[a] \in HoldsSlot
            /\ \A s \in Slot : s # SlotOf[a] => ctx'[s] = ctx[s]
            /\ ctx'[SlotOf[a]].file = path'
            /\ path' = IF path = NoFile THEN nextFile ELSE path
        BY <3>4, <2>s DEF Connect, TypeOK, HoldsSlot, PCs
      <4>2. ctx'[SlotOf[a]].file # NoFile
        BY <4>1 DEF TypeOK, NoFile
      <4>3. \A b \in Actor \ {a} : pc'[b] = pc[b] /\ job'[b] = job[b]
        BY <3>4 DEF Connect, Return, TypeOK
      <4>4. QED
        BY <4>1, <4>2, <4>3, LockedSlotKept
    <3>5. QED
      BY <2>4, <3>1, <3>2, <3>3, <3>4 DEF OpenStep
  <2>5. ASSUME NEW a \in Actor, WriteStep(a) PROVE UseInv'
    <3>1. CASE Announce(a)
      BY <3>1, <2>m DEF Announce, UseInv, PCs
    <3>2. CASE SmallWrite(a)
      <4>1. /\ pc[a] \in HoldsSlot
            /\ \A s \in Slot : s # SlotOf[a] => ctx'[s] = ctx[s]
        BY <3>2, <2>s DEF SmallWrite, CloseOverCorruption, TypeOK, HoldsSlot, PCs
      <4>2. CASE Goto(a, "restore") /\ UNCHANGED <<ctx, job>>
        BY <3>2, <4>2, <2>m DEF SmallWrite, UseInv, PCs
      <4>3. CASE Return(a)
        BY <4>1, <4>3, <2>r
      <4>4. QED
        BY <3>2, <4>2, <4>3 DEF SmallWrite
    <3>3. CASE RestoreVerdict(a)
      BY <3>3, <2>r DEF RestoreVerdict
    <3>4. CASE MutationWrite(a)
      BY <3>4, <2>m DEF MutationWrite, PCs
    <3>5. QED
      BY <2>5, <3>1, <3>2, <3>3, <3>4 DEF WriteStep
  <2>6. ASSUME NEW a \in Actor, VerifyStep(a) PROVE UseInv'
    <3>1. CASE \/ VerifySkips(a) \/ VerifyBegins(a) \/ VerifyScan(a) \/ VerifyCannotOpen(a)
      BY <3>1, <2>m DEF VerifySkips, VerifyBegins, VerifyScan, VerifyCannotOpen, PCs
    <3>2. CASE \/ VerifyMatches(a) \/ VerifyDisturbed(a) \/ VerifyRecord(a)
               \/ VerifyCorrupt(a) \/ VerifyUndetermined(a)
      BY <3>2, <2>m DEF VerifyMatches, VerifyDisturbed, VerifyRecord,
                        VerifyCorrupt, VerifyUndetermined, PCs
    <3>3. CASE CloseGeneration(a) \/ MutationReturns(a)
      <4>1. /\ \A s \in Slot : s # SlotOf[a] => ctx'[s] = ctx[s]
            /\ slotLock[SlotOf[a]] = None \/ UNCHANGED ctx
            /\ Return(a)
        BY <3>3, <2>s DEF CloseGeneration, MutationReturns, CloseOverCorruption, TypeOK
      <4>2. QED
        BY <4>1, <2>r
    <3>4. QED
      BY <2>6, <3>1, <3>2, <3>3 DEF VerifyStep
  <2>7. ASSUME NEW a \in Actor, ReadCorrupt(a) \/ DropContext(a) PROVE UseInv'
    <3>1. /\ \A s \in Slot : s # SlotOf[a] => ctx'[s] = ctx[s]
          /\ slotLock[SlotOf[a]] = None /\ pc[a] = "idle" /\ UNCHANGED <<pc, job>>
      BY <2>7, <2>s DEF ReadCorrupt, DropContext, CloseOverCorruption, TypeOK
    <3>2. QED
      BY <3>1, LockedSlotKept
  <2>8. ASSUME NEW p \in Proc, Crash(p) PROVE UseInv'
    BY <2>8, <2>s DEF Crash, ProcOfActor, TypeOK, UseInv
  <2>9. CASE Damage \/ Tick \/ UNCHANGED vars
    BY <2>9 DEF Damage, Tick, vars, UseInv
  <2>10. QED
    BY <2>1, <2>2, <2>3, <2>4, <2>5, <2>6, <2>7, <2>8, <2>9 DEF Next, Continue
<1>3. QED
  BY <1>1, <1>2, Typing, NoLockLeftBehind, PTL DEF Spec

\* No marker and no verdict vouches for a file an unfinished write tore, nor for
\* one that is being written.
BrokenInv ==
  /\ broken # {} => path # NoFile /\ path \in torn
  /\ marker # NoTime => broken = {} /\ \A a \in Actor : pc[a] # "write"
  /\ \A p \in Proc : verdict[p].file # NoFile /\ verdict[p].file = path => p \notin broken
  /\ \A a \in Actor : pc[a] = "write" => verdict[ProcOfActor(a)].file = NoFile
  /\ \A a \in Actor :
       pc[a] \in {"write", "restore"} /\ held[a].file # NoFile /\ held[a].file = path
         => ProcOfActor(a) \notin broken
  /\ \A a \in Actor : pc[a] = "scan" => path # NoFile /\ loc[a].conn = path

\* A lock-free verdict is recorded over a sound file that nobody writes: nothing
\* happened between the comparison and the recording of verify_and_mark_unadmitted.
SoundWhenRecorded ==
  \A a \in Actor : VerifyRecord(a) => path \notin torn /\ \A b \in Actor : pc[b] # "write"

\* Every other step keeps the marker and the verdicts away from a broken file.
LEMMA BrokenStep ==
  ASSUME TypeOK, TypeOK', LockInv, UseInv, OneGeneration, BrokenInv, Next, SoundWhenRecorded
  PROVE  BrokenInv'
<1> USE DEF clock, disk, cert, slots, locks, ctl, hist, Goto
<1>s. /\ SlotOf \in [Actor -> Slot] /\ ProcOf \in [Slot -> Proc]
      /\ \A a \in Actor : ProcOfActor(a) \in Proc
  BY ActorsAssumption DEF ActorsAssumption, ProcOfActor
\* A step of a that leaves the file, the marker and the verdicts alone.
<1>m. ASSUME NEW a \in Actor, UNCHANGED <<path, torn, marker, verdict, broken>>,
             \A b \in Actor \ {a} : pc'[b] = pc[b] /\ loc'[b] = loc[b] /\ held'[b] = held[b],
             pc'[a] \notin {"write", "restore"},
             pc'[a] = "scan" => path # NoFile /\ loc'[a].conn = path
      PROVE  BrokenInv'
  BY <1>m DEF BrokenInv
\* A step of a that withdraws what vouched for the file.
<1>w. ASSUME NEW a \in Actor, UNCHANGED <<path, torn, broken>>,
             marker' \in {marker, NoTime}, ForgetVerdict(ProcOfActor(a)),
             \A b \in Actor \ {a} : pc'[b] = pc[b] /\ loc'[b] = loc[b] /\ held'[b] = held[b],
             pc'[a] \notin {"write", "restore", "scan"}
      PROVE  BrokenInv'
  BY <1>w, <1>s DEF BrokenInv, ForgetVerdict, NoVerdict, TypeOK
\* A step of a that vouches for a file known to be sound.
<1>v. ASSUME NEW a \in Actor, UNCHANGED <<path, torn, broken>>, NEW t, SetVerdict(ProcOfActor(a), t),
             broken = {}, \A b \in Actor : pc[b] # "write",
             \A b \in Actor \ {a} : pc'[b] = pc[b] /\ loc'[b] = loc[b] /\ held'[b] = held[b],
             pc'[a] \notin {"write", "restore", "scan"}
      PROVE  BrokenInv'
  BY <1>v, <1>s DEF BrokenInv
<1>r. ASSUME NEW a \in Actor, Return(a)
      PROVE  /\ \A b \in Actor \ {a} : pc'[b] = pc[b] /\ loc'[b] = loc[b] /\ held'[b] = held[b]
             /\ pc'[a] = "idle"
  BY <1>r DEF Return, TypeOK
<1>1. ASSUME NEW a \in Actor, NEW j \in Jobs, TakeSlot(a, j) PROVE BrokenInv'
  BY <1>1, <1>m DEF TakeSlot, TypeOK
<1>2. ASSUME NEW a \in Actor, Admit(a) \/ Lock(a) PROVE BrokenInv'
  BY <1>2, <1>m DEF Admit, Lock, TypeOK
<1>3. ASSUME NEW a \in Actor, OpenStep(a) PROVE BrokenInv'
  <2>w. \A b \in Actor : pc[a] \in Opening => pc[b] # "write"
    BY DEF LockInv, Opening, HoldsWriter, HoldsSlot, PCs
  <2>1. CASE SkipByVerdict(a) \/ LockLive(a)
    BY <2>1, <1>m DEF SkipByVerdict, LockLive, TypeOK
  <2>2. CASE NothingToProbe(a)
    BY <2>2, <1>w DEF NothingToProbe, CannotTrust, TypeOK
  <2>3. CASE SkipByMarker(a)
    <3>1. broken = {} /\ \A b \in Actor : pc[b] # "write"
      BY <2>3 DEF SkipByMarker, CheckedRecently, BrokenInv
    <3>2. QED
      BY <2>3, <3>1, <1>v DEF SkipByMarker, CannotTrust, TypeOK
  <2>4. CASE StartProbe(a)
    <3>1. /\ path # NoFile /\ loc'[a].conn = path /\ pc'[a] = "scan"
          /\ \A b \in Actor \ {a} : pc'[b] = pc[b] /\ loc'[b] = loc[b] /\ held'[b] = held[b]
      BY <2>4 DEF StartProbe, CannotTrust, TypeOK, Locals
    <3>2. QED
      BY <2>4, <3>1, <1>m DEF StartProbe
  <2>5. CASE ProbeSound(a)
    <3>1. broken = {}
      BY <2>5 DEF ProbeSound, BrokenInv
    <3>2. \A b \in Actor : pc[b] # "write"
      BY <2>5, <2>w DEF ProbeSound, Opening
    <3>3. QED
      BY <2>5, <3>1, <3>2, <1>v DEF ProbeSound, TypeOK
  <2>6. CASE ProbeCorrupt(a)
    BY <2>6, <1>m DEF ProbeCorrupt, TypeOK
  <2>7. CASE VetoedByLive(a)
    BY <2>7, <1>w, <1>r DEF VetoedByLive
  <2>8. CASE Quarantine(a)
    <3>1. path' = NoFile /\ broken' = {} /\ marker' = NoTime
      BY <2>8 DEF Quarantine
    <3>2. \A b \in Actor : pc'[b] \notin {"write", "scan"}
      BY <2>8, <2>w DEF Quarantine, TypeOK, LockInv, Opening
    <3>3. QED
      BY <3>1, <3>2 DEF BrokenInv
  <2>9. CASE Connect(a)
    <3>1. /\ path' # NoFile /\ (path # NoFile => path' = path)
          /\ UNCHANGED <<torn, marker, verdict, broken>>
      BY <2>9 DEF Connect, TypeOK, NoFile
    <3>2. /\ \A b \in Actor \ {a} : pc'[b] = pc[b] /\ loc'[b] = loc[b] /\ held'[b] = held[b]
          /\ pc'[a] \in {"idle", "announce"}
      BY <2>9, <1>r DEF Connect, TypeOK
    <3>3. QED
      BY <3>1, <3>2 DEF BrokenInv
  <2>10. CASE OpenFails(a)
    BY <2>10, <1>m, <1>r DEF OpenFails
  <2>11. QED
    BY <1>3, <2>1, <2>2, <2>3, <2>4, <2>5, <2>6, <2>7, <2>8, <2>9, <2>10 DEF OpenStep
<1>4. ASSUME NEW a \in Actor, WriteStep(a) PROVE BrokenInv'
  <2>w. \A b \in Actor : pc[b] \in {"write", "restore"} => b = a
    BY <1>4 DEF LockInv, HoldsWriter, HoldsSlot, PCs, WriteStep, Announce, SmallWrite,
                RestoreVerdict, MutationWrite
  <2>f. ctx[SlotOf[a]].file # NoFile /\ ctx[SlotOf[a]].file = path
    BY <1>4, <1>s DEF UseInv, OneGeneration, WriteStep, Announce, SmallWrite,
                RestoreVerdict, MutationWrite
  <2>1. CASE Announce(a)
    <3>1. /\ pc'[a] = "write" /\ UNCHANGED <<path, torn, broken, loc>> /\ marker' = NoTime
          /\ verdict' = [verdict EXCEPT ![ProcOfActor(a)] = NoVerdict]
          /\ held'[a] = NoVerdict \/ held'[a] = verdict[ProcOfActor(a)]
          /\ \A b \in Actor \ {a} : pc'[b] = pc[b] /\ held'[b] = held[b]
      BY <2>1 DEF Announce, ForgetVerdict, TypeOK
    <3>2. QED
      BY <3>1, <2>w, <1>s DEF BrokenInv, NoVerdict, TypeOK
  \* What a statement does to the file and to the histories.
  <2>t. ASSUME NEW wrote \in BOOLEAN, NEW tears \in BOOLEAN, NEW grew \in BOOLEAN,
               NEW outcome \in {"ok", "error", "corrupt"},
               WriteEffect(a, wrote, tears, grew, outcome)
        PROVE  /\ torn \subseteq torn'
               /\ \/ broken' = broken
                  \/ /\ broken' = broken \cup {ProcOfActor(a)}
                     /\ path \in torn' /\ outcome # "ok"
    <3>1. CASE tears /\ outcome # "ok"
      BY <2>t, <2>f, <3>1 DEF WriteEffect
    <3>2. CASE ~ (tears /\ outcome # "ok")
      BY <2>t, <3>2 DEF WriteEffect
    <3>3. QED
      BY <3>1, <3>2
  \* Nothing vouches for the file while the statement runs.
  <2>e. ASSUME pc[a] = "write", torn \subseteq torn', UNCHANGED path, UNCHANGED marker,
               \A p \in Proc : \/ verdict'[p] = verdict[p]
                               \/ p = ProcOfActor(a) /\ verdict'[p] = NoVerdict,
               \A b \in Actor \ {a} : pc'[b] = pc[b] /\ loc'[b] = loc[b] /\ held'[b] = held[b],
               pc'[a] \in {"idle", "vBegin"} \/ (pc'[a] = "restore" /\ UNCHANGED held),
               \/ broken' = broken
               \/ /\ broken' = broken \cup {ProcOfActor(a)}
                  /\ path \in torn' /\ pc'[a] # "restore"
        PROVE  BrokenInv'
    <3>1. marker = NoTime /\ verdict[ProcOfActor(a)].file = NoFile /\ path # NoFile
      BY <2>e, <2>f DEF BrokenInv
    <3>2. /\ verdict'[ProcOfActor(a)].file = NoFile
          /\ \A p \in Proc : p # ProcOfActor(a) => verdict'[p] = verdict[p]
      BY <2>e, <3>1, <1>s DEF NoVerdict
    <3>3. QED
      BY <2>e, <2>w, <3>1, <3>2, <1>s DEF BrokenInv
  <2>2. CASE SmallWrite(a)
    <3>1. PICK wrote, tears, grew \in BOOLEAN, outcome \in {"ok", "error", "corrupt"} :
            /\ WriteEffect(a, wrote, tears, grew, outcome)
            /\ \/ outcome = "ok" /\ Goto(a, "restore") /\ UNCHANGED <<verdict, loc, held>>
               \/ Return(a) /\ (UNCHANGED verdict \/ ForgetVerdict(ProcOfActor(a)))
      BY <2>2 DEF SmallWrite, CloseOverCorruption
    <3>2. /\ torn \subseteq torn'
          /\ \/ broken' = broken
             \/ /\ broken' = broken \cup {ProcOfActor(a)}
                /\ path \in torn' /\ outcome # "ok"
      BY <3>1, <2>t
    <3>3. pc[a] = "write" /\ UNCHANGED path /\ UNCHANGED marker
      BY <2>2 DEF SmallWrite
    <3>4. CASE outcome = "ok" /\ Goto(a, "restore") /\ UNCHANGED <<verdict, loc, held>>
      BY <3>2, <3>3, <3>4, <2>e DEF TypeOK
    <3>5. CASE Return(a) /\ (UNCHANGED verdict \/ ForgetVerdict(ProcOfActor(a)))
      <4>1. /\ pc'[a] \in {"idle", "vBegin"} /\ pc'[a] # "restore"
            /\ \A b \in Actor \ {a} : pc'[b] = pc[b] /\ loc'[b] = loc[b] /\ held'[b] = held[b]
        BY <3>5, <1>r
      <4>2. \A p \in Proc : \/ verdict'[p] = verdict[p]
                            \/ p = ProcOfActor(a) /\ verdict'[p] = NoVerdict
        BY <3>5, <1>s DEF ForgetVerdict, TypeOK
      <4>3. QED
        BY <3>2, <3>3, <4>1, <4>2, <2>e
    <3>6. QED
      BY <3>1, <3>4, <3>5
  <2>3. CASE RestoreVerdict(a)
    <3>1. \A b \in Actor : pc[b] # "write" /\ pc'[b] \notin {"write", "restore"}
      BY <2>3, <2>w, <1>r DEF RestoreVerdict
    <3>2. /\ UNCHANGED <<path, torn, marker, broken>>
          /\ \A p \in Proc : \/ verdict'[p] = verdict[p]
                             \/ p = ProcOfActor(a) /\ verdict'[p] = held[a]
      BY <2>3, <1>s DEF RestoreVerdict, TypeOK
    <3>3. QED
      BY <2>3, <3>1, <3>2, <1>r DEF BrokenInv, RestoreVerdict
  <2>4. CASE MutationWrite(a)
    <3>1. PICK wrote, tears, grew \in BOOLEAN, outcome \in {"ok", "error", "corrupt"} :
             WriteEffect(a, wrote, tears, grew, outcome)
      BY <2>4 DEF MutationWrite
    <3>2. /\ torn \subseteq torn'
          /\ \/ broken' = broken
             \/ broken' = broken \cup {ProcOfActor(a)} /\ path \in torn'
      BY <3>1, <2>t
    <3>3. /\ pc[a] = "write" /\ pc'[a] = "vBegin" /\ UNCHANGED <<path, marker, verdict, held>>
          /\ \A b \in Actor \ {a} : pc'[b] = pc[b] /\ loc'[b] = loc[b]
      BY <2>4 DEF MutationWrite, TypeOK
    <3>4. QED
      BY <3>2, <3>3, <2>e
  <2>5. QED
    BY <1>4, <2>1, <2>2, <2>3, <2>4 DEF WriteStep
<1>5. ASSUME NEW a \in Actor, VerifyStep(a) PROVE BrokenInv'
  <2>1. CASE \/ VerifySkips(a) \/ VerifyBegins(a) \/ VerifyCannotOpen(a) \/ VerifyMatches(a)
             \/ VerifyDisturbed(a) \/ VerifyUndetermined(a)
    BY <2>1, <1>m DEF VerifySkips, VerifyBegins, VerifyCannotOpen, VerifyMatches,
                      VerifyDisturbed, VerifyUndetermined, TypeOK
  <2>2. CASE VerifyScan(a)
    <3>1. /\ path' # NoFile /\ (path # NoFile => path' = path)
          /\ UNCHANGED <<torn, marker, verdict, broken>>
      BY <2>2 DEF VerifyScan, TypeOK, NoFile
    <3>2. /\ \A b \in Actor \ {a} : pc'[b] = pc[b] /\ loc'[b] = loc[b] /\ held'[b] = held[b]
          /\ pc'[a] = "vCompare"
      BY <2>2 DEF VerifyScan, TypeOK
    <3>3. QED
      BY <3>1, <3>2 DEF BrokenInv
  <2>3. CASE VerifyRecord(a)
    <3>1. broken = {} /\ \A b \in Actor : pc[b] # "write"
      BY <2>3 DEF SoundWhenRecorded, BrokenInv
    <3>2. QED
      BY <2>3, <3>1, <1>v DEF VerifyRecord, TypeOK
  <2>4. CASE VerifyCorrupt(a)
    BY <2>4, <1>w DEF VerifyCorrupt, TypeOK
  <2>5. CASE CloseGeneration(a) \/ MutationReturns(a)
    BY <2>5, <1>m, <1>w, <1>r DEF CloseGeneration, MutationReturns, CloseOverCorruption
  <2>6. QED
    BY <1>5, <2>1, <2>2, <2>3, <2>4, <2>5 DEF VerifyStep
<1>6. ASSUME NEW a \in Actor, ReadCorrupt(a) \/ DropContext(a) PROVE BrokenInv'
  BY <1>6, <1>m, <1>w DEF ReadCorrupt, DropContext, CloseOverCorruption
<1>7. ASSUME NEW p \in Proc, Crash(p) PROVE BrokenInv'
  <2>1. /\ UNCHANGED <<path, marker>> /\ torn \subseteq torn'
        /\ verdict' = [verdict EXCEPT ![p] = NoVerdict]
        /\ \A b \in Actor : \/ ProcOfActor(b) = p /\ pc'[b] = "idle"
                            \/ ProcOfActor(b) # p /\ pc'[b] = pc[b] /\ loc'[b] = loc[b] /\ held'[b] = held[b]
    BY <1>7 DEF Crash, TypeOK
  <2>2. CASE UNCHANGED broken
    BY <2>1, <2>2, <1>s DEF BrokenInv, NoVerdict, TypeOK
  <2>3. CASE ~ UNCHANGED broken
    <3>1. /\ broken' = broken \cup {p} /\ path \in torn'
          /\ \E b \in Actor : pc[b] = "write"
      BY <1>7, <2>3 DEF Crash
    <3>2. marker = NoTime /\ path # NoFile
      BY <3>1, <1>s DEF BrokenInv, UseInv, OneGeneration
    <3>3. QED
      BY <2>1, <3>1, <3>2, <1>s DEF BrokenInv, NoVerdict, TypeOK
  <2>4. QED
    BY <2>2, <2>3
<1>8. CASE Damage \/ Tick
  BY <1>8 DEF Damage, Tick, BrokenInv
<1>9. QED
  BY <1>1, <1>2, <1>3, <1>4, <1>5, <1>6, <1>7, <1>8 DEF Next, Continue

\* A file that a write left unfinished is not trusted before it is probed, unless a
\* lock-free probe recorded its verdict late (announce_write, the stamps of heal.rs).
THEOREM BrokenFilesAreProbed == Spec /\ [][SoundWhenRecorded]_vars => UnfinishedWriteIsProbed
<1>1. Init => BrokenInv
  BY ActorsAssumption DEF ActorsAssumption, Init, BrokenInv, NoVerdict, ProcOfActor, NoTime
<1>2. /\ TypeOK /\ TypeOK' /\ LockInv /\ UseInv /\ OneGeneration /\ BrokenInv
      /\ [Next]_vars /\ [SoundWhenRecorded]_vars
      => BrokenInv'
  <2>1. CASE UNCHANGED vars
    BY <2>1 DEF vars, clock, disk, cert, slots, locks, ctl, hist, BrokenInv
  <2>2. QED
    BY <2>1, BrokenStep
<1>3. ASSUME BrokenInv, NEW a \in Actor
      PROVE  /\ SkipByMarker(a) => broken = {}
             /\ SkipByVerdict(a) => ProcOfActor(a) \notin broken
  <2>1. ProcOfActor(a) \in Proc
    BY ActorsAssumption DEF ActorsAssumption, ProcOfActor
  <2>2. QED
    BY <1>3, <2>1 DEF BrokenInv, SkipByMarker, SkipByVerdict, CheckedRecently, TrustedVerdict
<1>4. BrokenInv /\ [Next]_vars
      => [\A a \in Actor : /\ SkipByMarker(a) => broken = {}
                           /\ SkipByVerdict(a) => ProcOfActor(a) \notin broken]_vars
  BY <1>3
<1>5. QED
  BY <1>1, <1>2, <1>4, Typing, Locking, WritesThroughContexts, QuarantineSafety, PTL
     DEF Spec, UnfinishedWriteIsProbed

-----------------------------------------------------------------------------
(* How long a verdict is trusted.                                            *)

\* A scan found the file sound at a time no more than lag before t.
FoundBy(t, lag) == probed # NoTime /\ t =< probed + lag

\* A verdict names no file that does not exist yet, and what it says of the file
\* at the path a scan saw.
VerdictTrust(v, lag) ==
  /\ v.file < nextFile
  /\ (v.file # NoFile /\ v.file = path) => FoundBy(v.at, lag)

\* The same of the verdict and the scan an actor carries along.
ActorTrust(a, lag) ==
  /\ VerdictTrust(held[a], lag)
  /\ loc[a].conn < nextFile /\ loc[a].since =< now
  /\ (pc[a] \in {"vCompare", "vRecord"} /\ loc[a].found = "sound" /\ loc[a].conn = path)
       => FoundBy(loc[a].since, 0)
  /\ pc[a] = "vRecord" => loc[a].found = "sound"
  /\ pc[a] \in {"vCompare", "vRecord"} => loc[a].conn # NoFile

\* Whatever the marker and the verdicts say of the file at the path, a scan saw.
TrustInv(lag) ==
  /\ path < nextFile
  /\ probed =< now
  /\ marker # NoTime => FoundBy(marker, lag)
  /\ \A p \in Proc : VerdictTrust(verdict[p], lag)
  /\ \A a \in Actor : ActorTrust(a, lag)

\* A lock-free probe that is over within lag, of the file that is at the path.
PromptlyRecorded(lag) ==
  \A a \in Actor : VerifyRecord(a) => path = loc[a].conn /\ now =< loc[a].since + lag

\* Every step hands trust on without renewing it.
LEMMA TrustStep ==
  ASSUME NEW lag \in Nat, TypeOK, TypeOK', TrustInv(lag), Next, PromptlyRecorded(lag)
  PROVE  TrustInv(lag)'
<1> USE DEF clock, disk, cert, slots, locks, ctl, hist, Goto
<1>s. /\ SlotOf \in [Actor -> Slot] /\ ProcOf \in [Slot -> Proc]
      /\ \A a \in Actor : ProcOfActor(a) \in Proc
  BY ActorsAssumption DEF ActorsAssumption, ProcOfActor
<1>t. /\ path \in Nat /\ nextFile \in Nat \ {0} /\ now \in Nat
      /\ marker \in Nat \cup {NoTime} /\ probed \in Nat \cup {NoTime}
      /\ \A p \in Proc : verdict[p] \in Verdicts
      /\ \A a \in Actor : held[a] \in Verdicts /\ loc[a] \in Locals
  BY DEF TypeOK
<1>i. /\ path < nextFile /\ probed =< now
      /\ marker # NoTime => FoundBy(marker, lag)
      /\ \A p \in Proc : VerdictTrust(verdict[p], lag)
      /\ \A a \in Actor : ActorTrust(a, lag)
  BY DEF TrustInv
<1>d. ASSUME path' < nextFile', probed' =< now',
             (marker # NoTime => FoundBy(marker, lag))',
             \A p \in Proc : VerdictTrust(verdict[p], lag)',
             \A a \in Actor : ActorTrust(a, lag)'
      PROVE  TrustInv(lag)'
  BY <1>d DEF TrustInv
<1>n. /\ VerdictTrust(NoVerdict, lag)
      /\ nextFile' = nextFile => VerdictTrust(NoVerdict, lag)'
      /\ NoVerdict \in Verdicts /\ Blank \in Locals
      /\ Blank.conn = NoFile /\ Blank.since = NoTime
  BY <1>t, Values DEF VerdictTrust, NoVerdict, NoFile, Blank
\* A step of a that changes neither the file nor when it was last scanned.
<1>m. ASSUME NEW a \in Actor, UNCHANGED <<now, path, nextFile, probed>>,
             marker' \in {marker, NoTime},
             \A p \in Proc : verdict'[p] = verdict[p] \/ VerdictTrust(verdict'[p], lag),
             \A b \in Actor \ {a} : pc'[b] = pc[b] /\ loc'[b] = loc[b] /\ held'[b] = held[b],
             ActorTrust(a, lag)'
      PROVE  TrustInv(lag)'
  BY <1>m, <1>d, <1>i DEF VerdictTrust, ActorTrust, FoundBy
<1>f. ASSUME NEW a \in Actor, ForgetVerdict(ProcOfActor(a))
      PROVE  \A p \in Proc : verdict'[p] = verdict[p] \/ VerdictTrust(verdict'[p], lag)
  BY <1>f, <1>n, <1>s DEF ForgetVerdict, TypeOK
<1>r. ASSUME NEW a \in Actor, Return(a), UNCHANGED <<now, nextFile>>
      PROVE  /\ \A b \in Actor \ {a} : pc'[b] = pc[b] /\ loc'[b] = loc[b] /\ held'[b] = held[b]
             /\ ActorTrust(a, lag)'
  BY <1>r, <1>n, <1>t DEF Return, TypeOK, ActorTrust, VerdictTrust, NoFile, NoTime
<1>1. ASSUME NEW a \in Actor, NEW j \in Jobs, TakeSlot(a, j) PROVE TrustInv(lag)'
  <2>1. loc'[a].conn = loc[a].conn /\ loc'[a].since = loc[a].since /\ pc'[a] = "admit"
    BY <1>1, <1>t DEF TakeSlot, TypeOK, Locals
  <2>2. ActorTrust(a, lag)'
    BY <1>1, <2>1, <1>i DEF TakeSlot, ActorTrust, VerdictTrust, FoundBy
  <2>3. QED
    BY <1>1, <2>2, <1>m DEF TakeSlot, TypeOK
<1>2. ASSUME NEW a \in Actor, Admit(a) \/ Lock(a) PROVE TrustInv(lag)'
  <2>1. pc'[a] \in {"lock", "announce", "check"}
    BY <1>2 DEF Admit, Lock, TypeOK
  <2>2. ActorTrust(a, lag)'
    BY <1>2, <2>1, <1>i DEF Admit, Lock, ActorTrust, VerdictTrust, FoundBy
  <2>3. QED
    BY <1>2, <2>2, <1>m DEF Admit, Lock, TypeOK
<1>3. ASSUME NEW a \in Actor, OpenStep(a) PROVE TrustInv(lag)'
  <2>1. CASE SkipByVerdict(a) \/ LockLive(a) \/ NothingToProbe(a)
    <3>1. ActorTrust(a, lag)'
      BY <2>1, <1>i DEF SkipByVerdict, LockLive, NothingToProbe, CannotTrust, TypeOK,
                        ActorTrust, VerdictTrust, FoundBy
    <3>2. QED
      BY <2>1, <3>1, <1>m, <1>f DEF SkipByVerdict, LockLive, NothingToProbe, CannotTrust, TypeOK
  <2>2. CASE SkipByMarker(a)
    \* The verdict is dated by the marker, and the marker by a scan.
    <3>1. FoundBy(marker, lag)
      BY <2>2, <1>i DEF SkipByMarker, CheckedRecently
    <3>2. VerdictTrust([at |-> marker, file |-> path], lag)
      BY <3>1, <1>t, <1>i DEF VerdictTrust
    <3>3. \A p \in Proc : verdict'[p] = verdict[p] \/ VerdictTrust(verdict'[p], lag)
      BY <2>2, <3>2, <1>n, <1>s DEF SkipByMarker, SetVerdict, TypeOK
    <3>4. ActorTrust(a, lag)'
      BY <2>2, <1>i DEF SkipByMarker, CannotTrust, TypeOK, ActorTrust, VerdictTrust, FoundBy
    <3>5. QED
      BY <2>2, <3>3, <3>4, <1>m DEF SkipByMarker, CannotTrust, TypeOK
  <2>3. CASE StartProbe(a)
    <3>1. loc'[a].conn = path /\ loc'[a].since = now /\ pc'[a] = "scan"
      BY <2>3, <1>t DEF StartProbe, CannotTrust, TypeOK, Locals
    <3>2. ActorTrust(a, lag)'
      BY <2>3, <3>1, <1>i, <1>t DEF StartProbe, ActorTrust, VerdictTrust, FoundBy
    <3>3. QED
      BY <2>3, <3>2, <1>m DEF StartProbe, CannotTrust, TypeOK
  <2>4. CASE ProbeSound(a)
    <3>1. /\ probed' = now /\ marker' = now /\ UNCHANGED <<now, path, nextFile, held>>
          /\ loc'[a].conn = NoFile /\ loc'[a].since = loc[a].since /\ pc'[a] = "connect"
          /\ \A b \in Actor \ {a} : pc'[b] = pc[b] /\ loc'[b] = loc[b]
      BY <2>4, <1>t DEF ProbeSound, TypeOK, Locals
    <3>2. \A p \in Proc : \/ verdict'[p] = verdict[p]
                          \/ verdict'[p] = NoVerdict
                          \/ verdict'[p] = [at |-> loc[a].since, file |-> path]
      BY <2>4, <1>s DEF ProbeSound, SetVerdict, TypeOK
    <3>3. now # NoTime /\ now =< now + lag
      BY <1>t DEF NoTime
    <3>4. (marker # NoTime => FoundBy(marker, lag))'
      BY <3>1, <3>3, <1>t DEF FoundBy
    <3>5. \A p \in Proc : VerdictTrust(verdict[p], lag)'
      <4> SUFFICES ASSUME NEW p \in Proc PROVE VerdictTrust(verdict[p], lag)'
        OBVIOUS
      <4>1. CASE verdict'[p] = verdict[p]
        BY <4>1, <3>1, <3>3, <1>t, <1>i DEF VerdictTrust, Verdicts, FoundBy, NoTime
      <4>2. CASE verdict'[p] = NoVerdict
        BY <4>2, <3>1, <1>n
      <4>3. CASE verdict'[p] = [at |-> loc[a].since, file |-> path]
        BY <4>3, <3>1, <3>3, <1>t, <1>i DEF VerdictTrust, Locals, ActorTrust, FoundBy, NoTime
      <4>4. QED
        BY <3>2, <4>1, <4>2, <4>3
    <3>6. \A b \in Actor : ActorTrust(b, lag)'
      <4> SUFFICES ASSUME NEW b \in Actor PROVE ActorTrust(b, lag)'
        OBVIOUS
      <4>1. /\ held[b] \in Verdicts /\ held'[b] = held[b] /\ ActorTrust(b, lag)
            /\ loc[b].since \in Nat \cup {NoTime}
        BY <3>1, <1>t, <1>i DEF Locals
      <4>2. VerdictTrust(held[b], lag)'
        BY <4>1, <3>1, <3>3, <1>t, <1>i DEF ActorTrust, VerdictTrust, Verdicts, FoundBy, NoTime
      <4>3. CASE b = a
        BY <4>1, <4>2, <4>3, <3>1, <1>t DEF ActorTrust, NoFile
      <4>4. CASE b # a
        BY <4>1, <4>2, <4>4, <3>1, <3>3, <1>t, <1>i DEF ActorTrust, FoundBy, NoTime
      <4>5. QED
        BY <4>3, <4>4
    <3>7. QED
      BY <3>1, <3>4, <3>5, <3>6, <1>t, <1>i, <1>d
  <2>5. CASE ProbeCorrupt(a)
    <3>1. loc'[a].conn = NoFile /\ loc'[a].since = loc[a].since /\ pc'[a] = "corrupt"
      BY <2>5, <1>t DEF ProbeCorrupt, TypeOK, Locals
    <3>2. ActorTrust(a, lag)'
      BY <2>5, <3>1, <1>i, <1>t DEF ProbeCorrupt, ActorTrust, VerdictTrust, FoundBy, NoFile
    <3>3. QED
      BY <2>5, <3>2, <1>m DEF ProbeCorrupt, TypeOK
  <2>6. CASE VetoedByLive(a) \/ OpenFails(a)
    BY <2>6, <1>m, <1>f, <1>r DEF VetoedByLive, OpenFails
  <2>7. CASE Quarantine(a)
    \* Nothing on record names the file that takes the path next.
    <3>1. /\ path' = NoFile /\ marker' = NoTime /\ probed' = NoTime /\ UNCHANGED <<now, nextFile, held, loc>>
          /\ \A p \in Proc : verdict'[p] \in {verdict[p], NoVerdict}
          /\ \A b \in Actor : pc'[b] \in {pc[b], "connect"}
      BY <2>7, <1>s DEF Quarantine, ForgetVerdict, TypeOK
    <3>2. \A p \in Proc : VerdictTrust(verdict[p], lag)'
      BY <3>1, <1>t, <1>i, <1>n DEF VerdictTrust
    <3>3. \A b \in Actor : ActorTrust(b, lag)'
      BY <3>1, <1>t, <1>i DEF ActorTrust, VerdictTrust
    <3>4. QED
      BY <3>1, <3>2, <3>3, <1>t, <1>d DEF NoFile, NoTime
  <2>8. CASE Connect(a)
    <3>1. /\ \/ path' = path /\ nextFile' = nextFile
             \/ path = NoFile /\ path' = nextFile /\ nextFile' = nextFile + 1
          /\ UNCHANGED <<now, marker, verdict, probed>>
      BY <2>8 DEF Connect
    <3>2. /\ \A b \in Actor \ {a} : pc'[b] = pc[b] /\ loc'[b] = loc[b] /\ held'[b] = held[b]
          /\ pc'[a] \in {"idle", "announce"}
          /\ loc'[a] \in {loc[a], Blank} /\ held'[a] \in {held[a], NoVerdict}
      BY <2>8 DEF Connect, Return, TypeOK
    <3>3. \A v \in Verdicts : VerdictTrust(v, lag) => VerdictTrust(v, lag)'
      BY <3>1, <1>t DEF VerdictTrust, FoundBy, Verdicts
    <3>4. \A b \in Actor : ActorTrust(b, lag)'
      BY <3>1, <3>2, <3>3, <1>t, <1>i, <1>n DEF ActorTrust, FoundBy, Locals, NoFile, NoTime
    <3>5. QED
      BY <3>1, <3>3, <3>4, <1>t, <1>i, <1>d DEF FoundBy
  <2>9. QED
    BY <1>3, <2>1, <2>2, <2>3, <2>4, <2>5, <2>6, <2>7, <2>8 DEF OpenStep
<1>4. ASSUME NEW a \in Actor, WriteStep(a) PROVE TrustInv(lag)'
  <2>1. CASE Announce(a)
    <3>1. pc'[a] = "write" /\ held'[a] \in {NoVerdict, verdict[ProcOfActor(a)]}
      BY <2>1 DEF Announce, TypeOK
    <3>2. VerdictTrust(held'[a], lag)
      BY <3>1, <1>n, <1>i, <1>s
    <3>3. ActorTrust(a, lag)'
      BY <2>1, <3>1, <3>2, <1>i DEF Announce, ActorTrust, VerdictTrust, FoundBy
    <3>4. QED
      BY <2>1, <3>3, <1>m, <1>f DEF Announce, TypeOK
  <2>2. CASE SmallWrite(a)
    <3>1. /\ UNCHANGED <<now, path, nextFile, marker, probed>>
          /\ verdict' = verdict \/ ForgetVerdict(ProcOfActor(a))
          /\ (Goto(a, "restore") /\ UNCHANGED <<loc, held>>) \/ Return(a)
      BY <2>2 DEF SmallWrite, CloseOverCorruption
    <3>2. \A p \in Proc : verdict'[p] = verdict[p] \/ VerdictTrust(verdict'[p], lag)
      BY <3>1, <1>f
    <3>3. CASE Goto(a, "restore") /\ UNCHANGED <<loc, held>>
      <4>1. pc'[a] = "restore"
        BY <3>3 DEF TypeOK
      <4>2. ActorTrust(a, lag)'
        BY <3>1, <3>3, <4>1, <1>i DEF ActorTrust, VerdictTrust, FoundBy
      <4>3. QED
        BY <3>1, <3>2, <3>3, <4>2, <1>m DEF TypeOK
    <3>4. CASE Return(a)
      BY <3>1, <3>2, <3>4, <1>m, <1>r
    <3>5. QED
      BY <3>1, <3>3, <3>4
  <2>3. CASE RestoreVerdict(a)
    <3>1. \A p \in Proc : verdict'[p] = verdict[p] \/ VerdictTrust(verdict'[p], lag)
      BY <2>3, <1>i, <1>s DEF RestoreVerdict, ActorTrust, TypeOK
    <3>2. QED
      BY <2>3, <3>1, <1>m, <1>r DEF RestoreVerdict
  <2>4. CASE MutationWrite(a)
    <3>1. /\ UNCHANGED <<now, path, nextFile, marker, verdict, probed, held>>
          /\ \E b \in BOOLEAN : loc' = [loc EXCEPT ![a].bad = b]
          /\ pc' = [pc EXCEPT ![a] = "vBegin"]
      BY <2>4 DEF MutationWrite
    <3>2. loc'[a].conn = loc[a].conn /\ loc'[a].since = loc[a].since /\ pc'[a] = "vBegin"
      BY <3>1, <1>t DEF TypeOK, Locals
    <3>3. ActorTrust(a, lag)'
      BY <3>1, <3>2, <1>i DEF ActorTrust, VerdictTrust, FoundBy
    <3>4. QED
      BY <3>1, <3>3, <1>m DEF TypeOK
  <2>5. QED
    BY <1>4, <2>1, <2>2, <2>3, <2>4 DEF WriteStep
<1>5. ASSUME NEW a \in Actor, VerifyStep(a) PROVE TrustInv(lag)'
  <2>1. CASE VerifySkips(a) \/ VerifyMatches(a)
    <3>1. /\ UNCHANGED <<now, path, nextFile, marker, verdict, probed, loc, held>>
          /\ \/ pc' = [pc EXCEPT ![a] = "vDone"]
             \/ /\ pc' = [pc EXCEPT ![a] = "vRecord"]
                /\ pc[a] = "vCompare" /\ loc[a].found = "sound"
      BY <2>1 DEF VerifySkips, VerifyMatches
    <3>2. ActorTrust(a, lag)'
      BY <3>1, <1>i DEF ActorTrust, VerdictTrust, FoundBy, TypeOK
    <3>3. QED
      BY <3>1, <3>2, <1>m DEF TypeOK
  <2>2. CASE \/ VerifyBegins(a) \/ VerifyCannotOpen(a) \/ VerifyDisturbed(a)
             \/ VerifyUndetermined(a) \/ VerifyCorrupt(a)
    <3>1. /\ UNCHANGED <<now, path, nextFile, probed, held>>
          /\ marker' \in {marker, NoTime}
          /\ verdict' = verdict \/ ForgetVerdict(ProcOfActor(a))
          /\ \A b \in Actor \ {a} : pc'[b] = pc[b] /\ loc'[b] = loc[b]
          /\ pc'[a] \in {"vScan", "vDone"}
      BY <2>2 DEF VerifyBegins, VerifyCannotOpen, VerifyDisturbed, VerifyUndetermined,
                  VerifyCorrupt, TypeOK
    <3>2. loc'[a].conn \in {loc[a].conn, NoFile} /\ loc'[a].since \in {loc[a].since, now}
      BY <2>2, <1>t DEF VerifyBegins, VerifyCannotOpen, VerifyDisturbed, VerifyUndetermined,
                  VerifyCorrupt, TypeOK, Locals
    <3>3. \A p \in Proc : verdict'[p] = verdict[p] \/ VerdictTrust(verdict'[p], lag)
      BY <3>1, <1>f
    <3>4. ActorTrust(a, lag)'
      BY <3>1, <3>2, <1>i, <1>t DEF ActorTrust, VerdictTrust, FoundBy, NoFile
    <3>5. QED
      BY <3>1, <3>3, <3>4, <1>m
  <2>3. CASE VerifyScan(a)
    <3>1. PICK found \in {"sound", "corrupt", "undetermined"} :
            /\ loc' = [loc EXCEPT ![a].conn = path', ![a].found = found]
            /\ probed' = IF found = "sound" THEN now ELSE probed
      BY <2>3 DEF VerifyScan
    <3>2. /\ \/ path # NoFile /\ path' = path /\ nextFile' = nextFile
             \/ path = NoFile /\ path' = nextFile /\ nextFile' = nextFile + 1
          /\ UNCHANGED <<now, marker, verdict, held>>
          /\ \A b \in Actor \ {a} : pc'[b] = pc[b] /\ loc'[b] = loc[b]
          /\ pc'[a] = "vCompare"
      BY <2>3, <3>1 DEF VerifyScan, TypeOK
    <3>3. loc'[a].conn = path' /\ loc'[a].since = loc[a].since /\ loc'[a].found = found
      BY <3>1, <1>t DEF TypeOK, Locals
    <3>4. probed' =< now' /\ path' < nextFile' /\ path' # NoFile
      BY <3>1, <3>2, <1>t, <1>i DEF NoFile
    <3>5. (marker # NoTime => FoundBy(marker, lag))'
      BY <3>1, <3>2, <1>t, <1>i DEF FoundBy, NoTime
    <3>6. \A v \in Verdicts : VerdictTrust(v, lag) => VerdictTrust(v, lag)'
      BY <3>1, <3>2, <1>t, <1>i DEF VerdictTrust, FoundBy, Verdicts, NoTime
    <3>7. found = "sound" => FoundBy(loc[a].since, 0)'
      BY <3>1, <3>2, <3>3, <1>t, <1>i DEF FoundBy, NoTime, Locals, ActorTrust
    <3>8. \A b \in Actor : ActorTrust(b, lag)'
      <4>1. ActorTrust(a, lag)'
        BY <3>2, <3>3, <3>4, <3>6, <3>7, <1>t, <1>i DEF ActorTrust
      <4>2. ASSUME NEW b \in Actor, b # a PROVE ActorTrust(b, lag)'
        <5>1. held[b] \in Verdicts /\ loc[b].since \in Nat \cup {NoTime} /\ loc[b].conn \in Nat
          BY <1>t DEF Locals
        <5>2. ActorTrust(b, lag) /\ loc'[b] = loc[b] /\ pc'[b] = pc[b] /\ held'[b] = held[b]
          BY <4>2, <3>2, <1>i
        <5>3. VerdictTrust(held[b], lag)'
          BY <5>1, <5>2, <3>6 DEF ActorTrust, VerdictTrust
        <5>4. QED
          BY <5>1, <5>2, <5>3, <3>1, <3>2, <1>t, <1>i DEF ActorTrust, FoundBy, NoTime
      <4>3. QED
        BY <4>1, <4>2
    <3>9. QED
      BY <3>2, <3>4, <3>5, <3>6, <3>8, <1>t, <1>i, <1>d
  <2>4. CASE VerifyRecord(a)
    \* The scanned file is the one at the path, and the scan no older than lag.
    <3>1. /\ path = loc[a].conn /\ now =< loc[a].since + lag
          /\ loc[a].found = "sound" /\ pc[a] = "vRecord"
      BY <2>4, <1>i DEF PromptlyRecorded, VerifyRecord, ActorTrust
    <3>2. probed # NoTime /\ loc[a].since =< probed
      BY <3>1, <1>i, <1>t DEF ActorTrust, FoundBy, Locals, NoTime
    <3>3. FoundBy(now, lag) /\ FoundBy(loc[a].since, lag)
      BY <3>1, <3>2, <1>t DEF FoundBy, Locals, NoTime
    <3>4. VerdictTrust([at |-> loc[a].since, file |-> path], lag)
      BY <3>3, <1>t, <1>i DEF VerdictTrust
    <3>5. /\ marker' = now /\ UNCHANGED <<now, path, nextFile, held, probed>>
          /\ loc'[a].conn = NoFile /\ loc'[a].since = loc[a].since /\ pc'[a] = "vDone"
          /\ \A b \in Actor \ {a} : pc'[b] = pc[b] /\ loc'[b] = loc[b]
      BY <2>4, <1>t DEF VerifyRecord, TypeOK, Locals
    <3>6. \A p \in Proc : VerdictTrust(verdict[p], lag)'
      BY <2>4, <3>4, <3>5, <1>s, <1>n, <1>i DEF VerifyRecord, SetVerdict, VerdictTrust, FoundBy, TypeOK
    <3>7. \A b \in Actor : ActorTrust(b, lag)'
      BY <3>5, <1>t, <1>i DEF ActorTrust, VerdictTrust, FoundBy, NoFile
    <3>8. QED
      BY <3>3, <3>5, <3>6, <3>7, <1>t, <1>i, <1>d DEF FoundBy
  <2>5. CASE CloseGeneration(a) \/ MutationReturns(a)
    BY <2>5, <1>m, <1>f, <1>r DEF CloseGeneration, MutationReturns, CloseOverCorruption
  <2>6. QED
    BY <1>5, <2>1, <2>2, <2>3, <2>4, <2>5 DEF VerifyStep
<1>6. ASSUME NEW a \in Actor, ReadCorrupt(a) \/ DropContext(a) PROVE TrustInv(lag)'
  <2>1. /\ UNCHANGED <<now, path, nextFile, marker, probed, pc, loc, held>>
        /\ verdict' = verdict \/ ForgetVerdict(ProcOfActor(a))
    BY <1>6 DEF ReadCorrupt, DropContext, CloseOverCorruption
  <2>2. ActorTrust(a, lag)'
    BY <2>1, <1>i DEF ActorTrust, VerdictTrust, FoundBy
  <2>3. QED
    BY <2>1, <2>2, <1>m, <1>f
<1>7. ASSUME NEW p \in Proc, Crash(p) PROVE TrustInv(lag)'
  <2>1. /\ UNCHANGED <<now, path, nextFile, marker, probed>>
        /\ \A q \in Proc : verdict'[q] \in {verdict[q], NoVerdict}
        /\ \A b \in Actor : \/ pc'[b] = pc[b] /\ loc'[b] = loc[b] /\ held'[b] = held[b]
                            \/ pc'[b] = "idle" /\ loc'[b] = Blank /\ held'[b] = NoVerdict
    BY <1>7 DEF Crash, TypeOK
  <2>2. \A q \in Proc : VerdictTrust(verdict[q], lag)'
    BY <2>1, <1>i, <1>n DEF VerdictTrust, FoundBy
  <2>3. \A b \in Actor : ActorTrust(b, lag)'
    BY <2>1, <1>i, <1>n, <1>t DEF ActorTrust, VerdictTrust, FoundBy, NoFile, NoTime
  <2>4. QED
    BY <2>1, <2>2, <2>3, <1>i, <1>d DEF FoundBy
<1>8. CASE Damage \/ Tick
  <2>1. now =< now' /\ UNCHANGED <<path, nextFile, marker, verdict, pc, loc, held, probed>>
    BY <1>8, <1>t DEF Damage, Tick
  <2>2. \A b \in Actor : ActorTrust(b, lag)'
    BY <2>1, <1>i, <1>t DEF ActorTrust, VerdictTrust, FoundBy, Locals, NoTime, TypeOK
  <2>3. QED
    BY <2>1, <2>2, <1>i, <1>t, <1>d DEF VerdictTrust, FoundBy, NoTime, TypeOK
<1>9. QED
  BY <1>1, <1>2, <1>3, <1>4, <1>5, <1>6, <1>7, <1>8 DEF Next, Continue

\* An open that skips the scan within CheckInterval of the last one, give or
\* take lag.
TrustsWithin(lag) ==
  \A a \in Actor :
    SkipByMarker(a) \/ SkipByVerdict(a)
    => probed # NoTime /\ now - probed < CheckInterval + lag

\* The invariant is inductive and bounds every open that skips the scan.
LEMMA TrustInductive ==
  ASSUME NEW lag \in Nat
  PROVE  /\ Init => TrustInv(lag)
         /\ /\ TypeOK /\ TypeOK' /\ TrustInv(lag)
            /\ [Next]_vars /\ [PromptlyRecorded(lag)]_vars
            => TrustInv(lag)'
         /\ TypeOK /\ TrustInv(lag) /\ [Next]_vars => [TrustsWithin(lag)]_vars
<1>1. Init => TrustInv(lag)
  BY Values DEF Init, TrustInv, ActorTrust, VerdictTrust, NoVerdict, Blank, NoFile, NoTime
<1>2. ASSUME TypeOK, TypeOK', TrustInv(lag), [Next]_vars, [PromptlyRecorded(lag)]_vars
      PROVE  TrustInv(lag)'
  <2>1. CASE UNCHANGED vars
    BY <1>2, <2>1 DEF vars, clock, disk, cert, slots, locks, ctl, hist,
                TrustInv, ActorTrust, VerdictTrust, FoundBy
  <2>2. QED
    BY <1>2, <2>1, TrustStep
<1>3. ASSUME TypeOK, TrustInv(lag), NEW a \in Actor, SkipByMarker(a) \/ SkipByVerdict(a)
      PROVE  probed # NoTime /\ now - probed < CheckInterval + lag
  <2>1. /\ ProcOfActor(a) \in Proc /\ CheckInterval \in Nat
        /\ now \in Nat /\ marker \in Nat \cup {NoTime} /\ probed \in Nat \cup {NoTime}
    BY <1>3, ActorsAssumption, BoundsAssumption
       DEF ActorsAssumption, BoundsAssumption, ProcOfActor, TypeOK
  <2>2. CASE SkipByMarker(a)
    BY <1>3, <2>1, <2>2 DEF SkipByMarker, CheckedRecently, TrustInv, FoundBy, NoTime
  <2>3. CASE SkipByVerdict(a)
    <3>1. verdict[ProcOfActor(a)].at \in Nat \cup {NoTime}
      BY <1>3, <2>1 DEF TypeOK, Verdicts
    <3>2. QED
      BY <1>3, <2>1, <2>3, <3>1
         DEF SkipByVerdict, TrustedVerdict, TrustInv, VerdictTrust, FoundBy, NoTime
  <2>4. QED
    BY <1>3, <2>2, <2>3
<1>4. QED
  BY <1>1, <1>2, <1>3 DEF TrustsWithin

\* An open skips the scan only of a file a scan found sound less than
\* CheckInterval ago, give or take the time a lock-free probe may take
\* (verify_and_mark_unadmitted dates the marker at its end).
THEOREM TrustExpires ==
  ASSUME NEW lag \in Nat
  PROVE  Spec /\ [][PromptlyRecorded(lag)]_vars => [][TrustsWithin(lag)]_vars
<1> DEFINE Inv == TrustInv(lag)
           Prompt == PromptlyRecorded(lag)
           Trusts == TrustsWithin(lag)
<1>1. Init => Inv
  BY TrustInductive
<1>2. TypeOK /\ TypeOK' /\ Inv /\ [Next]_vars /\ [Prompt]_vars => Inv'
  BY TrustInductive
<1>3. TypeOK /\ Inv /\ [Next]_vars => [Trusts]_vars
  BY TrustInductive
<1>4. QED
  BY <1>1, <1>2, <1>3, Typing, PTL DEF Spec

\* With probes shorter than the resolution of the clock the bound is exact.
THEOREM TrustIsDated == Spec /\ [][PromptlyRecorded(0)]_vars => TrustIsBounded
<1> DEFINE Inv == TrustInv(0)
           Prompt == PromptlyRecorded(0)
           Trusts == \A a \in Actor :
                       SkipByMarker(a) \/ SkipByVerdict(a)
                       => probed # NoTime /\ now - probed < CheckInterval
<1>1. Init => Inv
  BY TrustInductive
<1>2. TypeOK /\ TypeOK' /\ Inv /\ [Next]_vars /\ [Prompt]_vars => Inv'
  BY TrustInductive
<1>3. TypeOK /\ Inv /\ [Next]_vars => [Trusts]_vars
  <2>1. TypeOK /\ Inv /\ [Next]_vars => [TrustsWithin(0)]_vars
    BY TrustInductive
  <2>2. CheckInterval + 0 = CheckInterval
    BY BoundsAssumption DEF BoundsAssumption
  <2>3. QED
    BY <2>1, <2>2 DEF TrustsWithin
<1>4. QED
  BY <1>1, <1>2, <1>3, Typing, PTL DEF Spec, TrustIsBounded

\* Who probes without a lock is inside a mutation.
JobInv ==
  \A a \in Actor :
    /\ job[a] \in Jobs \cup {NoJob}
    /\ pc[a] = "idle" <=> job[a] = NoJob
    /\ pc[a] \in VerifyPCs => job[a] \in {"mutate", "memory"}

\* Where every write is a small one nothing is recorded without the writer lock:
\* both properties hold as they stand.
THEOREM SmallWritesKeepTrust ==
  ASSUME Jobs \subseteq {"open", "write"}
  PROVE  Spec => UnfinishedWriteIsProbed /\ TrustIsBounded
<1>1. Init => JobInv
  BY DEF Init, JobInv, VerifyPCs
<1>2. TypeOK /\ JobInv /\ [Next]_vars => JobInv'
  <2> SUFFICES ASSUME TypeOK, JobInv, [Next]_vars PROVE JobInv'
    OBVIOUS
  <2> USE DEF ctl, Goto, VerifyPCs
  <2>1. ASSUME NEW a \in Actor, NEW j \in Jobs, TakeSlot(a, j) PROVE JobInv'
    BY <2>1, ActorsAssumption DEF ActorsAssumption, AllJobs, NoJob, TakeSlot, TypeOK, JobInv
  <2>r. ASSUME NEW a \in Actor, Return(a) PROVE JobInv'
    BY <2>r DEF Return, TypeOK, JobInv
  <2>m. ASSUME NEW a \in Actor, UNCHANGED job, NEW l \in PCs, pc' = [pc EXCEPT ![a] = l],
               pc[a] # "idle", l # "idle",
               l \in VerifyPCs => pc[a] \in VerifyPCs \/ job[a] \in {"mutate", "memory"}
        PROVE  JobInv'
    BY <2>m DEF TypeOK, JobInv
  <2>2. ASSUME NEW a \in Actor, Continue(a) PROVE JobInv'
    <3>1. CASE Admit(a) \/ Lock(a)
      BY <3>1, <2>m DEF Admit, Lock, PCs
    <3>2. CASE OpenStep(a)
      BY <3>2, <2>m, <2>r
         DEF OpenStep, SkipByVerdict, NothingToProbe, SkipByMarker, StartProbe, CannotTrust,
             ProbeSound, ProbeCorrupt, VetoedByLive, LockLive, Quarantine, Connect, OpenFails, PCs
    <3>3. CASE WriteStep(a)
      BY <3>3, <2>m, <2>r
         DEF WriteStep, Announce, SmallWrite, RestoreVerdict, MutationWrite, PCs
    <3>4. CASE VerifyStep(a)
      BY <3>4, <2>m, <2>r
         DEF VerifyStep, VerifySkips, VerifyBegins, VerifyScan, VerifyCannotOpen, VerifyMatches,
             VerifyDisturbed, VerifyRecord, VerifyCorrupt, VerifyUndetermined, CloseGeneration,
             MutationReturns, PCs
    <3>5. QED
      BY <2>2, <3>1, <3>2, <3>3, <3>4 DEF Continue
  <2>3. ASSUME NEW a \in Actor, ReadCorrupt(a) \/ DropContext(a) PROVE JobInv'
    BY <2>3 DEF ReadCorrupt, DropContext, JobInv
  <2>4. ASSUME NEW p \in Proc, Crash(p) PROVE JobInv'
    BY <2>4 DEF Crash, TypeOK, JobInv
  <2>5. CASE Damage \/ Tick \/ UNCHANGED vars
    BY <2>5 DEF Damage, Tick, vars, JobInv
  <2>6. QED
    BY <2>1, <2>2, <2>3, <2>4, <2>5 DEF Next
<1>3. JobInv => \A a \in Actor : ~ VerifyRecord(a)
  BY DEF JobInv, VerifyRecord, VerifyPCs, NoJob
<1>4. JobInv /\ [Next]_vars => [SoundWhenRecorded]_vars /\ [PromptlyRecorded(0)]_vars
  BY <1>3 DEF SoundWhenRecorded, PromptlyRecorded
<1>5. QED
  BY <1>1, <1>2, <1>4, Typing, BrokenFilesAreProbed, TrustIsDated, PTL DEF Spec

-----------------------------------------------------------------------------
(* A generation that is closed stays closed, and corruption is let go of.    *)

\* An empty slot remembers no generation.
EmptyInv == \A s \in Slot : ctx[s].file = NoFile => ctx[s].gen = 0

\* What a step does to a slot: nothing, empty it, or fill it with the next generation.
LEMMA SlotStep ==
  ASSUME TypeOK, [Next]_vars, NEW s \in Slot
  PROVE  \/ ctx'[s] \in {ctx[s], Empty}
         \/ ctx'[s].file # NoFile /\ ctx'[s].gen = opens + 1
<1> USE DEF slots
<1>1. ASSUME NEW a \in Actor, NEW j \in Jobs, TakeSlot(a, j) PROVE ctx'[s] = ctx[s]
  BY <1>1 DEF TakeSlot
<1>2. ASSUME NEW a \in Actor, OpenStep(a)
      PROVE  ctx'[s] = ctx[s] \/ (ctx'[s].file # NoFile /\ ctx'[s].gen = opens + 1)
  <2>1. CASE Connect(a)
    <3>1. path' # NoFile
      BY <2>1 DEF Connect, TypeOK, NoFile
    <3>2. ctx' = [ctx EXCEPT ![SlotOf[a]] = [file |-> path', gen |-> opens + 1]]
      BY <2>1 DEF Connect
    <3>3. ctx \in [Slot -> [file : Nat, gen : Nat]]
      BY DEF TypeOK
    <3>4. CASE s = SlotOf[a]
      BY <3>1, <3>2, <3>3, <3>4
    <3>5. CASE s # SlotOf[a]
      BY <3>2, <3>3, <3>5
    <3>6. QED
      BY <3>4, <3>5
  <2>2. CASE ~Connect(a)
    <3>1. UNCHANGED slots
      BY <1>2, <2>2 DEF OpenStep, SkipByVerdict, NothingToProbe, SkipByMarker, StartProbe,
                        ProbeSound, ProbeCorrupt, VetoedByLive, LockLive, Quarantine, OpenFails
    <3>2. QED
      BY <3>1
  <2>3. QED
    BY <2>1, <2>2
<1>3. ASSUME NEW a \in Actor, WriteStep(a) PROVE ctx'[s] \in {ctx[s], Empty}
  BY <1>3 DEF WriteStep, Announce, SmallWrite, RestoreVerdict, MutationWrite,
              CloseOverCorruption, TypeOK
<1>4. ASSUME NEW a \in Actor, VerifyStep(a) PROVE ctx'[s] \in {ctx[s], Empty}
  BY <1>4 DEF VerifyStep, VerifySkips, VerifyBegins, VerifyScan, VerifyCannotOpen, VerifyMatches,
              VerifyDisturbed, VerifyRecord, VerifyCorrupt, VerifyUndetermined, CloseGeneration,
              MutationReturns, CloseOverCorruption, TypeOK
<1>5. ASSUME NEW a \in Actor, ReadCorrupt(a) \/ DropContext(a) PROVE ctx'[s] \in {ctx[s], Empty}
  BY <1>5 DEF ReadCorrupt, DropContext, CloseOverCorruption, TypeOK
<1>6. ASSUME NEW a \in Actor, Admit(a) \/ Lock(a) PROVE ctx'[s] = ctx[s]
  BY <1>6 DEF Admit, Lock
<1>7. ASSUME NEW p \in Proc, Crash(p) PROVE ctx'[s] \in {ctx[s], Empty}
  BY <1>7 DEF Crash
<1>8. CASE Damage \/ Tick \/ UNCHANGED vars
  BY <1>8 DEF Damage, Tick, vars
<1>9. QED
  BY <1>1, <1>2, <1>3, <1>4, <1>5, <1>6, <1>7, <1>8 DEF Next, Continue

\* Once closed, a generation is never in its slot again, whoever reopens the slot: an
\* answer about it that comes late finds another one (core::Context::generation).
THEOREM ClosedForGood ==
  Spec => [][\A s \in Slot : \A g \in 1..opens : ctx[s].gen # g => ctx'[s].gen # g]_vars
<1>1. TypeOK /\ [Next]_vars
      => \A s \in Slot : \A g \in 1..opens : ctx[s].gen # g => ctx'[s].gen # g
  <2> SUFFICES ASSUME TypeOK, [Next]_vars, NEW s \in Slot, NEW g \in 1..opens, ctx[s].gen # g
               PROVE  ctx'[s].gen # g
    OBVIOUS
  <2>1. opens \in Nat
    BY DEF TypeOK
  <2>2. CASE ctx'[s] \in {ctx[s], Empty}
    BY <2>1, <2>2 DEF Empty
  <2>3. CASE ctx'[s].gen = opens + 1
    BY <2>1, <2>3
  <2>4. QED
    BY <2>2, <2>3, SlotStep
<1>2. QED
  BY <1>1, Typing, PTL DEF Spec

\* The actor has seen generation g corrupt and has only to close it.
SawCorrupt(a, g) == pc[a] = "vDone" /\ loc[a].bad /\ loc[a].gen = g

\* Until then the actor stands still, and a crash takes the context along.
LEMMA StandsUntilClosed ==
  ASSUME TypeOK, EmptyInv, GenerationInv, [Next]_vars,
         NEW a \in Actor, NEW g \in 1..MaxOpens, SawCorrupt(a, g), ctx[SlotOf[a]].gen = g
  PROVE  SawCorrupt(a, g)' \/ ctx'[SlotOf[a]].gen # g
<1> USE DEF ctl, Goto
<1>1. SlotOf[a] \in Slot /\ loc[a] \in Locals
  BY ActorsAssumption DEF ActorsAssumption, TypeOK
<1>2. g # 0
  BY BoundsAssumption DEF BoundsAssumption
<1>3. CASE pc'[a] = pc[a] /\ loc'[a] = loc[a]
  BY <1>3 DEF SawCorrupt
<1>4. CASE CloseGeneration(a)
  <2>1. ctx[SlotOf[a]].file # NoFile
    BY <1>1, <1>2 DEF EmptyInv
  <2>2. ctx'[SlotOf[a]] = Empty
    BY <1>1, <1>4, <2>1 DEF CloseGeneration, CloseOverCorruption, SawCorrupt, TypeOK
  <2>3. QED
    BY <1>2, <2>2 DEF Empty
<1>5. ASSUME NEW p \in Proc, Crash(p), ~(pc'[a] = pc[a] /\ loc'[a] = loc[a])
      PROVE  ctx'[SlotOf[a]] = Empty
  BY <1>1, <1>5 DEF Crash, ProcOfActor, TypeOK
<1>6. ASSUME NEW b \in Actor, b # a, Continue(b) \/ \E j \in Jobs : TakeSlot(b, j)
      PROVE  pc'[a] = pc[a] /\ loc'[a] = loc[a]
  <2>1. CASE \E j \in Jobs : TakeSlot(b, j)
    BY <1>6, <2>1 DEF TakeSlot, TypeOK
  <2>2. CASE Admit(b) \/ Lock(b)
    BY <1>6, <2>2 DEF Admit, Lock, TypeOK
  <2>3. CASE OpenStep(b)
    BY <1>6, <2>3
       DEF OpenStep, SkipByVerdict, NothingToProbe, SkipByMarker, StartProbe, ProbeSound,
           ProbeCorrupt, VetoedByLive, LockLive, Quarantine, Connect, OpenFails, CannotTrust,
           Return, TypeOK
  <2>4. CASE WriteStep(b)
    BY <1>6, <2>4 DEF WriteStep, Announce, SmallWrite, RestoreVerdict, MutationWrite, Return, TypeOK
  <2>5. CASE VerifyStep(b)
    BY <1>6, <2>5
       DEF VerifyStep, VerifySkips, VerifyBegins, VerifyScan, VerifyCannotOpen, VerifyMatches,
           VerifyDisturbed, VerifyRecord, VerifyCorrupt, VerifyUndetermined, CloseGeneration,
           MutationReturns, Return, TypeOK
  <2>6. QED
    BY <1>6, <2>1, <2>2, <2>3, <2>4, <2>5 DEF Continue
<1>7. ASSUME Continue(a) \/ \E j \in Jobs : TakeSlot(a, j) PROVE CloseGeneration(a)
  BY <1>7
     DEF SawCorrupt, Continue, TakeSlot, Admit, Lock,
         OpenStep, SkipByVerdict, NothingToProbe, SkipByMarker, StartProbe, ProbeSound,
         ProbeCorrupt, VetoedByLive, LockLive, Quarantine, Connect, OpenFails, CannotTrust,
         WriteStep, Announce, SmallWrite, RestoreVerdict, MutationWrite,
         VerifyStep, VerifySkips, VerifyBegins, VerifyScan, VerifyCannotOpen, VerifyMatches,
         VerifyDisturbed, VerifyRecord, VerifyCorrupt, VerifyUndetermined, MutationReturns
<1>8. ASSUME NEW b \in Actor, ReadCorrupt(b) \/ DropContext(b)
      PROVE  pc'[a] = pc[a] /\ loc'[a] = loc[a]
  BY <1>8 DEF ReadCorrupt, DropContext
<1>9. CASE Damage \/ Tick \/ UNCHANGED vars
  BY <1>3, <1>9 DEF Damage, Tick, vars
<1>10. QED
  BY <1>2, <1>3, <1>4, <1>5, <1>6, <1>7, <1>8, <1>9 DEF Next, Empty

\* That operations return is all it takes for a context over a damaged file to leave
\* its slot: an actor whose probe or statement saw corruption cannot return, die or be
\* overtaken without it (core::run_mutation, close_over_corruption_of).
THEOREM ReturningReleasesSlot == Spec /\ OperationsReturn => CorruptionReleasesSlot
<1> SUFFICES ASSUME NEW a \in Actor, NEW g \in 1..MaxOpens
             PROVE  Spec /\ OperationsReturn
                    => ((pc[a] = "vDone" /\ loc[a].bad /\ loc[a].gen = g)
                          ~> (ctx[SlotOf[a]].gen # g))
  BY DEF CorruptionReleasesSlot
<1>1. OperationsReturn => ((pc[a] # "idle") ~> (pc[a] = "idle"))
  BY DEF OperationsReturn
<1>2. Init => EmptyInv
  BY DEF Init, EmptyInv, Empty
<1>3. TypeOK /\ EmptyInv /\ [Next]_vars => EmptyInv'
  BY SlotStep DEF EmptyInv, Empty
<1>4. Spec => []GenerationInv
  <2>1. Init => GenerationInv
    BY DEF Init, GenerationInv, Empty, Blank, VerifyPCs
  <2>2. TypeOK /\ TypeOK' /\ LockInv /\ OneGeneration /\ GenerationInv /\ [Next]_vars
        => GenerationInv'
    BY GenerationStep
  <2>3. QED
    BY <2>1, <2>2, Typing, Locking, QuarantineSafety, PTL DEF Spec
<1> DEFINE Here == SawCorrupt(a, g) /\ ctx[SlotOf[a]].gen = g
           Saw == pc[a] = "vDone" /\ loc[a].bad /\ loc[a].gen = g
           Gone == ctx[SlotOf[a]].gen # g
           Away == pc[a] # "idle"
           Idle == pc[a] = "idle"
<1>5. TypeOK /\ EmptyInv /\ GenerationInv /\ [Next]_vars /\ Here => Here' \/ Gone'
  BY StandsUntilClosed
<1>6. (Here => Away) /\ (Idle => ~Away)
  BY DEF SawCorrupt
<1>7. Saw => Here \/ Gone
  BY DEF SawCorrupt
<1>8. OperationsReturn => (Away ~> Idle)
  BY <1>1
<1> HIDE DEF Here, Saw, Gone, Away, Idle
<1>9. Spec /\ OperationsReturn => (Saw ~> Gone)
  BY <1>2, <1>3, <1>4, <1>5, <1>6, <1>7, <1>8, Typing, PTL DEF Spec
<1>10. QED
  BY <1>9 DEF Saw, Gone

=============================================================================
