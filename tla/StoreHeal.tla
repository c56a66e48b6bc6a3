------------------------------ MODULE StoreHeal ------------------------------
(***************************************************************************)
(* Opening, writing, verifying and quarantining one project store          *)
(* (.mdkb/index.sqlite) from several threads of several processes.         *)
(*                                                                         *)
(* Sources: store/heal.rs (the probe, its marker and the process verdict), *)
(* store/mutation_lock.rs (the three sidecar locks), core/mod.rs (the      *)
(* guarded writes and Context::open) and mcp/dispatch.rs (the slot opener  *)
(* and the memory mutation).                                               *)
(*                                                                         *)
(* An actor is one thread of control (a daemon task, a one-shot CLI        *)
(* command).  Actors share the slots of their process: a slot is the       *)
(* Mutex<Option<Context>> of one repo handle.  Files are numbered by       *)
(* inode: a quarantine renames the file at the path away and the next open *)
(* creates a new one.  Only "torn or not" is kept of the bytes of a file.  *)
(***************************************************************************)
EXTENDS Integers, FiniteSets

CONSTANTS
  Proc,           \* processes that use the store
  Slot,           \* context slots
  Actor,          \* threads of control
  ProcOf,         \* ProcOf[s]: the process slot s lives in
  SlotOf,         \* SlotOf[a]: the slot actor a works on
  Trusting,       \* processes that reopen trusting their own last verdict
  Crashing,       \* processes that may die
  Jobs,           \* what actors do: a subset of AllJobs
  None,           \* holder of a free lock
  CheckInterval,  \* CHECK_INTERVAL, in clock ticks
  MaxTime,        \* bound on the clock
  MaxFile,        \* bound on the files ever created at the path
  MaxOpens        \* bound on the contexts ever opened

\* open: SlotOpener::open; write: a guarded write or a drained batch;
\* mutate: run_mutation; memory: run_handle_memory_mutation.
AllJobs == {"open", "write", "mutate", "memory"}

ASSUME ActorsAssumption ==
  /\ ProcOf \in [Slot -> Proc]
  /\ SlotOf \in [Actor -> Slot]
  /\ Trusting \subseteq Proc
  /\ Crashing \subseteq Proc
  /\ Jobs \subseteq AllJobs
  /\ None \notin Actor

ASSUME BoundsAssumption ==
  /\ CheckInterval \in Nat
  /\ MaxTime \in Nat
  /\ MaxFile \in Nat
  /\ MaxOpens \in Nat

NoFile == 0       \* no file at the path, no file behind a slot
NoTime == -1      \* no marker, never probed
NoJob  == "none"

ProcOfActor(a) == ProcOf[SlotOf[a]]

VARIABLES
  now,        \* the file system's clock; equal readings are one tick
  path,       \* the file at db_path
  nextFile,   \* the next file to be created there
  torn,       \* files quick_check would describe as damaged
  mtime,      \* latest mtime of the file at the path and its WAL
  marker,     \* mtime of the .integrity-ok sidecar
  verdict,    \* PROCESS_VERIFIED of each process: when, and which file
  ctx,        \* the context in each slot: its file and its generation
  opens,      \* generations handed out
  slotLock,   \* holder of each slot's mutex
  writer,     \* holder of the .writer.lock
  mutation,   \* holder of the .mutation.lock
  pc, job,    \* where each actor stands, in which operation
  loc,        \* its local variables
  held,       \* the verdict it puts back after a small write
  disturbed,  \* verifying actors whose stamp or counter no longer matches
  probed,     \* history: when the file at the path was last found sound
  broken      \* history: processes whose unfinished write tore that file

clock == <<now>>
disk  == <<path, nextFile, torn, mtime>>
cert  == <<marker, verdict>>
slots == <<ctx, opens>>
locks == <<slotLock, writer, mutation>>
ctl   == <<pc, job, loc, held>>
hist  == <<probed, broken>>
vars  == <<clock, disk, cert, slots, locks, ctl, disturbed, hist>>

NoVerdict == [at |-> NoTime, file |-> NoFile]
Empty     == [file |-> NoFile, gen |-> 0]
Blank     == [gen |-> 0, conn |-> NoFile, since |-> NoTime,
              found |-> "nothing", bad |-> FALSE]

PCs == {"idle", "admit", "lock", "check", "scan", "corrupt", "rename", "connect",
        "announce", "write", "restore", "vBegin", "vScan", "vCompare", "vRecord", "vDone"}

\* pcs at which an actor holds the slot, the writer and the mutation lock.
HoldsSlot     == PCs \ {"idle", "vBegin", "vScan", "vCompare", "vRecord", "vDone"}
HoldsWriter   == HoldsSlot \ {"admit"}
Opening       == {"check", "scan", "corrupt", "rename", "connect"}

Verdicts == [at : Nat \cup {NoTime}, file : Nat]
Locals   == [gen : Nat, conn : Nat, since : Nat \cup {NoTime},
             found : {"nothing", "sound", "corrupt", "undetermined"}, bad : BOOLEAN]

TypeOK ==
  /\ now \in Nat
  /\ path \in Nat
  /\ nextFile \in Nat \ {0}
  /\ torn \subseteq Nat
  /\ mtime \in Nat
  /\ marker \in Nat \cup {NoTime}
  /\ verdict \in [Proc -> Verdicts]
  /\ ctx \in [Slot -> [file : Nat, gen : Nat]]
  /\ opens \in Nat
  /\ slotLock \in [Slot -> Actor \cup {None}]
  /\ writer \in Actor \cup {None}
  /\ mutation \in Actor \cup {None}
  /\ pc \in [Actor -> PCs]
  /\ job \in [Actor -> AllJobs \cup {NoJob}]
  /\ loc \in [Actor -> Locals]
  /\ held \in [Actor -> Verdicts]
  /\ disturbed \subseteq Actor
  /\ probed \in Nat \cup {NoTime}
  /\ broken \subseteq Proc

Init ==
  /\ now = 0
  /\ path = 1 /\ nextFile = 2
  /\ torn = {}
  /\ mtime = 0
  /\ marker = NoTime
  /\ verdict = [p \in Proc |-> NoVerdict]
  /\ ctx = [s \in Slot |-> Empty]
  /\ opens = 0
  /\ slotLock = [s \in Slot |-> None]
  /\ writer = None
  /\ mutation = None
  /\ pc = [a \in Actor |-> "idle"]
  /\ job = [a \in Actor |-> NoJob]
  /\ loc = [a \in Actor |-> Blank]
  /\ held = [a \in Actor |-> NoVerdict]
  /\ disturbed = {}
  /\ probed = NoTime
  /\ broken = {}

-----------------------------------------------------------------------------
(* The marker, the process verdict and the comparison of a lock-free probe. *)

\* checked_recently: young enough, and no younger file beside it.
CheckedRecently ==
  /\ marker # NoTime
  /\ now - marker < CheckInterval
  /\ mtime =< marker

\* process_verified_at, and its age test in ensure_sound_locked.
TrustedVerdict(p) ==
  /\ path # NoFile
  /\ verdict[p].file = path
  /\ now - verdict[p].at < CheckInterval

\* set_process_verified for the file now at the path.
SetVerdict(p, t) ==
  verdict' = [verdict EXCEPT ![p] = IF path = NoFile THEN NoVerdict
                                    ELSE [at |-> t, file |-> path]]

ForgetVerdict(p) == verdict' = [verdict EXCEPT ![p] = NoVerdict]

\* Between the two readings of (write_stamp, invalidations).
Verifying == {b \in Actor : pc[b] \in {"vScan", "vCompare"}}

\* bump_invalidations counts per process.
AnnouncedTo(p) == {b \in Verifying : ProcOfActor(b) = p}

\* A write shows in the stamp when it moves the mtime or, within one tick,
\* when it changes a size.
Stamped(grew) == IF mtime # now \/ grew THEN Verifying ELSE {}

\* Mutant: the live lock is not consulted.
NoLiveHolders == {}

LiveHolders == {s \in Slot : ctx[s].file # NoFile}

\* Mutant: the mutation lock outlives its operation.
FreedButMutation(a) ==
  /\ slotLock' = [slotLock EXCEPT ![SlotOf[a]] = IF @ = a THEN None ELSE @]
  /\ writer' = IF writer = a THEN None ELSE writer
  /\ UNCHANGED mutation

\* Every guard an actor holds is dropped when its operation returns.
FreedBy(a) ==
  /\ slotLock' = [slotLock EXCEPT ![SlotOf[a]] = IF @ = a THEN None ELSE @]
  /\ writer' = IF writer = a THEN None ELSE writer
  /\ mutation' = IF mutation = a THEN None ELSE mutation

Return(a) ==
  /\ FreedBy(a)
  /\ pc' = [pc EXCEPT ![a] = "idle"]
  /\ job' = [job EXCEPT ![a] = NoJob]
  /\ loc' = [loc EXCEPT ![a] = Blank]
  /\ held' = [held EXCEPT ![a] = NoVerdict]

Goto(a, l) == pc' = [pc EXCEPT ![a] = l]

\* close_over_corruption: the context goes, and the verdict with it.
CloseOverCorruption(a) ==
  /\ ctx' = [ctx EXCEPT ![SlotOf[a]] = Empty]
  /\ ForgetVerdict(ProcOfActor(a))

-----------------------------------------------------------------------------
(* Admission: the slot, then the writer lock, then the mutation lock.       *)

\* An operation locks its slot. An open does nothing to a full slot, the
\* mutations nothing to an empty one; a drained batch opens the slot itself.
TakeSlot(a, j) ==
  LET s == SlotOf[a] IN
  /\ pc[a] = "idle"
  /\ slotLock[s] = None
  /\ j = "open" => ctx[s].file = NoFile
  /\ j \in {"mutate", "memory"} => ctx[s].file # NoFile
  /\ slotLock' = [slotLock EXCEPT ![s] = a]
  /\ pc' = [pc EXCEPT ![a] = "admit"]
  /\ job' = [job EXCEPT ![a] = j]
  /\ loc' = [loc EXCEPT ![a].gen = ctx[s].gen]
  /\ UNCHANGED <<clock, disk, cert, slots, writer, mutation, held, disturbed, hist>>

\* Mutant: admission does not wait for the writer lock.
AdmitAtOnce(a) ==
  LET s == SlotOf[a] IN
  /\ pc[a] = "admit"
  /\ writer' = a
  /\ Goto(a, IF job[a] \in {"open", "memory"} \/ ctx[s].file = NoFile
             THEN "lock" ELSE "announce")
  /\ UNCHANGED <<clock, disk, cert, slots, slotLock, mutation, job, loc, held, disturbed, hist>>

\* acquire_writer, or the polling admit_slot_writer.
Admit(a) ==
  LET s == SlotOf[a] IN
  /\ pc[a] = "admit"
  /\ writer = None
  /\ writer' = a
  /\ Goto(a, IF job[a] \in {"open", "memory"} \/ ctx[s].file = NoFile
             THEN "lock" ELSE "announce")
  /\ UNCHANGED <<clock, disk, cert, slots, slotLock, mutation, job, loc, held, disturbed, hist>>

\* Mutant: a memory mutation takes the mutation lock before the writer lock.
LockBeforeWriter(a) ==
  /\ \/ /\ pc[a] = "admit" /\ job[a] = "memory"
        /\ mutation = None
        /\ UNCHANGED pc
     \/ /\ pc[a] = "lock"
        /\ mutation \in {None, a}
        /\ Goto(a, IF job[a] = "memory" THEN "announce" ELSE "check")
  /\ mutation' = a
  /\ UNCHANGED <<clock, disk, cert, slots, slotLock, writer, job, loc, held, disturbed, hist>>

\* mutation_lock::acquire, always after the writer lock.
Lock(a) ==
  /\ pc[a] = "lock"
  /\ mutation = None
  /\ mutation' = a
  /\ Goto(a, IF job[a] = "memory" THEN "announce" ELSE "check")
  /\ UNCHANGED <<clock, disk, cert, slots, slotLock, writer, job, loc, held, disturbed, hist>>

-----------------------------------------------------------------------------
(* Context::open under both locks: ensure_sound_locked, then the connection. *)

\* A long-lived holder skips the scan of a file it probed itself.
SkipByVerdict(a) ==
  /\ pc[a] = "check"
  /\ ProcOfActor(a) \in Trusting
  /\ TrustedVerdict(ProcOfActor(a))
  /\ Goto(a, "connect")
  /\ UNCHANGED <<clock, disk, cert, slots, locks, job, loc, held, disturbed, hist>>

CannotTrust(a) ==
  /\ pc[a] = "check"
  /\ ~ (ProcOfActor(a) \in Trusting /\ TrustedVerdict(ProcOfActor(a)))

\* Nothing to probe: a fresh database follows, and no verdict is kept.
NothingToProbe(a) ==
  /\ CannotTrust(a)
  /\ path = NoFile
  /\ ForgetVerdict(ProcOfActor(a))
  /\ Goto(a, "connect")
  /\ UNCHANGED <<clock, disk, marker, slots, locks, job, loc, held, disturbed, hist>>

\* Mutant: the verdict is dated at the open, not at the marker.
SkipByMarkerRenewing(a) ==
  /\ CannotTrust(a)
  /\ path # NoFile
  /\ CheckedRecently
  /\ SetVerdict(ProcOfActor(a), now)
  /\ Goto(a, "connect")
  /\ UNCHANGED <<clock, disk, marker, slots, locks, job, loc, held, disturbed, hist>>

\* A fresh marker certifies the file; the verdict takes the marker's time.
SkipByMarker(a) ==
  /\ CannotTrust(a)
  /\ path # NoFile
  /\ CheckedRecently
  /\ SetVerdict(ProcOfActor(a), marker)
  /\ Goto(a, "connect")
  /\ UNCHANGED <<clock, disk, marker, slots, locks, job, loc, held, disturbed, hist>>

StartProbe(a) ==
  /\ CannotTrust(a)
  /\ path # NoFile
  /\ ~ CheckedRecently
  /\ loc' = [loc EXCEPT ![a].conn = path, ![a].since = now]
  /\ Goto(a, "scan")
  /\ UNCHANGED <<clock, disk, cert, slots, locks, job, held, disturbed, hist>>

\* quick_check answered ok: marker now, verdict as of the call's start.
ProbeSound(a) ==
  /\ pc[a] = "scan"
  /\ loc[a].conn \notin torn
  /\ marker' = now
  /\ SetVerdict(ProcOfActor(a), loc[a].since)
  /\ loc' = [loc EXCEPT ![a].conn = NoFile]
  /\ Goto(a, "connect")
  /\ probed' = now
  /\ UNCHANGED <<clock, disk, slots, locks, job, held, disturbed, broken>>

\* quick_check described damage; the throwaway connection is closed first.
ProbeCorrupt(a) ==
  /\ pc[a] = "scan"
  /\ loc[a].conn \in torn
  /\ loc' = [loc EXCEPT ![a].conn = NoFile]
  /\ Goto(a, "corrupt")
  /\ UNCHANGED <<clock, disk, cert, slots, locks, job, held, disturbed, hist>>

\* A live connection anywhere vetoes the rename: Heal::CorruptInUse, an Err.
VetoedByLive(a) ==
  /\ pc[a] = "corrupt"
  /\ LiveHolders # {}
  /\ marker' = NoTime
  /\ ForgetVerdict(ProcOfActor(a))
  /\ Return(a)
  /\ UNCHANGED <<clock, disk, slots, disturbed, hist>>

\* try_acquire_live_exclusive succeeded; the guard lives until the rename.
LockLive(a) ==
  /\ pc[a] = "corrupt"
  /\ LiveHolders = {}
  /\ Goto(a, "rename")
  /\ UNCHANGED <<clock, disk, cert, slots, locks, job, loc, held, disturbed, hist>>

\* quarantine: the file leaves the path.
Quarantine(a) ==
  /\ pc[a] = "rename"
  /\ path' = NoFile
  /\ marker' = NoTime
  /\ ForgetVerdict(ProcOfActor(a))
  /\ Goto(a, "connect")
  /\ disturbed' = disturbed \cup Verifying
  /\ probed' = NoTime /\ broken' = {}
  /\ UNCHANGED <<clock, nextFile, torn, mtime, slots, locks, job, loc, held>>

\* Announce the connection, open it (creating a missing file) and run the
\* idempotent schema initialization, which may write.
Connect(a) ==
  LET s == SlotOf[a] IN
  /\ pc[a] = "connect"
  /\ opens < MaxOpens
  /\ path = NoFile => nextFile =< MaxFile
  /\ opens' = opens + 1
  /\ path' = IF path = NoFile THEN nextFile ELSE path
  /\ nextFile' = IF path = NoFile THEN nextFile + 1 ELSE nextFile
  /\ \E wrote, grew \in BOOLEAN :
       /\ path = NoFile => wrote
       /\ mtime' = IF wrote THEN now ELSE mtime
       /\ disturbed' = disturbed \cup (IF path = NoFile THEN Verifying
                                       ELSE IF wrote THEN Stamped(grew) ELSE {})
  /\ ctx' = [ctx EXCEPT ![s] = [file |-> path', gen |-> opens + 1]]
  /\ IF job[a] = "open"
       THEN Return(a)
       ELSE /\ mutation' = None
            /\ Goto(a, "announce")
            /\ UNCHANGED <<slotLock, writer, job, loc, held>>
  /\ UNCHANGED <<clock, torn, cert, hist>>

\* An error on the way: an undetermined probe, a rename that failed and was
\* rolled back, a connection that does not open. The guards are dropped.
OpenFails(a) ==
  /\ pc[a] \in {"check", "scan", "rename", "connect"}
  /\ Return(a)
  /\ UNCHANGED <<clock, disk, cert, slots, disturbed, hist>>

-----------------------------------------------------------------------------
(* Writes through an open context.                                          *)

\* Mutant: a write leaves the marker where it is.
AnnounceKeepingMarker(a) ==
  LET p == ProcOfActor(a) IN
  /\ pc[a] = "announce"
  /\ held' = [held EXCEPT ![a] = IF job[a] = "write" THEN verdict[p] ELSE NoVerdict]
  /\ ForgetVerdict(p)
  /\ disturbed' = disturbed \cup AnnouncedTo(p)
  /\ Goto(a, "write")
  /\ UNCHANGED <<clock, disk, marker, slots, locks, job, loc, hist>>

\* invalidate_marker; a small write first remembers the verdict it had.
Announce(a) ==
  LET p == ProcOfActor(a) IN
  /\ pc[a] = "announce"
  /\ held' = [held EXCEPT ![a] = IF job[a] = "write" THEN verdict[p] ELSE NoVerdict]
  /\ ForgetVerdict(p)
  /\ marker' = NoTime
  /\ disturbed' = disturbed \cup AnnouncedTo(p)
  /\ Goto(a, "write")
  /\ UNCHANGED <<clock, disk, slots, locks, job, loc, hist>>

\* The statement itself. It may leave the file torn, with or without an error;
\* SQLite reports corruption only of a torn file.
WriteEffect(a, wrote, tears, grew, outcome) ==
  LET f == ctx[SlotOf[a]].file IN
  /\ tears => wrote
  /\ torn' = IF tears THEN torn \cup {f} ELSE torn
  /\ outcome = "corrupt" => f \in torn'
  /\ mtime' = IF wrote THEN now ELSE mtime
  /\ disturbed' = disturbed \cup (IF wrote THEN Stamped(grew) ELSE {})
  /\ broken' = IF tears /\ outcome # "ok" THEN broken \cup {ProcOfActor(a)} ELSE broken

\* run_admitted_write and keep_process_probe_across.
SmallWrite(a) ==
  /\ pc[a] = "write"
  /\ job[a] = "write"
  /\ \E wrote, tears, grew \in BOOLEAN, outcome \in {"ok", "error", "corrupt"} :
       /\ WriteEffect(a, wrote, tears, grew, outcome)
       /\ \/ /\ outcome = "ok"
             /\ Goto(a, "restore")
             /\ UNCHANGED <<verdict, ctx, locks, job, loc, held>>
          \/ /\ outcome = "error"
             /\ Return(a)
             /\ UNCHANGED <<verdict, ctx>>
          \/ /\ outcome = "corrupt"
             /\ CloseOverCorruption(a)
             /\ Return(a)
  /\ UNCHANGED <<clock, path, nextFile, marker, opens, probed>>

\* A small write that succeeded puts back the verdict of the same file.
RestoreVerdict(a) ==
  /\ pc[a] = "restore"
  /\ verdict' = IF path # NoFile /\ held[a].file = path
                THEN [verdict EXCEPT ![ProcOfActor(a)] = held[a]] ELSE verdict
  /\ Return(a)
  /\ UNCHANGED <<clock, disk, marker, slots, disturbed, hist>>

\* The closure of run_mutation or run_handle_memory_mutation; the slot and the
\* locks are released before the probe.
MutationWrite(a) ==
  /\ pc[a] = "write"
  /\ job[a] \in {"mutate", "memory"}
  /\ \E wrote, tears, grew \in BOOLEAN, outcome \in {"ok", "error", "corrupt"} :
       /\ WriteEffect(a, wrote, tears, grew, outcome)
       /\ loc' = [loc EXCEPT ![a].bad = (outcome = "corrupt")]
  /\ FreedBy(a)
  /\ Goto(a, "vBegin")
  /\ UNCHANGED <<clock, path, nextFile, cert, slots, job, held, probed>>

-----------------------------------------------------------------------------
(* verify_and_mark_unadmitted: no slot, no lock.                            *)

VerifySkips(a) ==
  /\ pc[a] = "vBegin"
  /\ CheckedRecently \/ path = NoFile
  /\ Goto(a, "vDone")
  /\ UNCHANGED <<clock, disk, cert, slots, locks, job, loc, held, disturbed, hist>>

\* The first reading of (write_stamp, invalidations).
VerifyBegins(a) ==
  /\ pc[a] = "vBegin"
  /\ path # NoFile
  /\ ~ CheckedRecently
  /\ loc' = [loc EXCEPT ![a].since = now]
  /\ disturbed' = disturbed \ {a}
  /\ Goto(a, "vScan")
  /\ UNCHANGED <<clock, disk, cert, slots, locks, job, held, hist>>

\* open_probe and the snapshot quick_check walks. The connection creates a
\* file that was renamed away since; it stays open until the verdict is in.
VerifyScan(a) ==
  /\ pc[a] = "vScan"
  /\ path = NoFile => nextFile =< MaxFile
  /\ path' = IF path = NoFile THEN nextFile ELSE path
  /\ nextFile' = IF path = NoFile THEN nextFile + 1 ELSE nextFile
  /\ mtime' = IF path = NoFile THEN now ELSE mtime
  /\ disturbed' = IF path = NoFile THEN disturbed \cup Verifying ELSE disturbed
  /\ \E found \in {IF path' \in torn THEN "corrupt" ELSE "sound", "undetermined"} :
       /\ loc' = [loc EXCEPT ![a].conn = path', ![a].found = found]
       /\ probed' = IF found = "sound" THEN now ELSE probed
  /\ Goto(a, "vCompare")
  /\ UNCHANGED <<clock, torn, cert, slots, locks, job, held, broken>>

\* open_probe itself failed: no connection, no verdict.
VerifyCannotOpen(a) ==
  /\ pc[a] = "vScan"
  /\ loc' = [loc EXCEPT ![a].bad = @ /\ job[a] = "memory"]
  /\ Goto(a, "vDone")
  /\ UNCHANGED <<clock, disk, cert, slots, locks, job, held, disturbed, hist>>

\* Sound, and the second reading equals the first: the verdict may be recorded.
VerifyMatches(a) ==
  /\ pc[a] = "vCompare"
  /\ loc[a].found = "sound"
  /\ a \notin disturbed
  /\ Goto(a, "vRecord")
  /\ UNCHANGED <<clock, disk, cert, slots, locks, job, loc, held, disturbed, hist>>

\* Sound, but written, replaced or announced in between: record nothing.
VerifyDisturbed(a) ==
  /\ pc[a] = "vCompare"
  /\ loc[a].found = "sound"
  /\ a \in disturbed
  /\ loc' = [loc EXCEPT ![a].conn = NoFile]
  /\ Goto(a, "vDone")
  /\ UNCHANGED <<clock, disk, cert, slots, locks, job, held, disturbed, hist>>

\* touch_marker and set_process_verified, as of the probe's start.
VerifyRecord(a) ==
  /\ pc[a] = "vRecord"
  /\ marker' = now
  /\ SetVerdict(ProcOfActor(a), loc[a].since)
  /\ loc' = [loc EXCEPT ![a].conn = NoFile]
  /\ Goto(a, "vDone")
  /\ UNCHANGED <<clock, disk, slots, locks, job, held, disturbed, hist>>

\* invalidate_marker and Err(IndexCorrupt).
VerifyCorrupt(a) ==
  LET p == ProcOfActor(a) IN
  /\ pc[a] = "vCompare"
  /\ loc[a].found = "corrupt"
  /\ marker' = NoTime
  /\ ForgetVerdict(p)
  /\ disturbed' = disturbed \cup AnnouncedTo(p)
  /\ loc' = [loc EXCEPT ![a].conn = NoFile, ![a].bad = TRUE]
  /\ Goto(a, "vDone")
  /\ UNCHANGED <<clock, disk, slots, locks, job, held, probed, broken>>

\* No verdict. run_mutation replaces the closure's own error by the probe's,
\* run_handle_memory_mutation still looks at both.
VerifyUndetermined(a) ==
  /\ pc[a] = "vCompare"
  /\ loc[a].found = "undetermined"
  /\ loc' = [loc EXCEPT ![a].conn = NoFile, ![a].bad = @ /\ job[a] = "memory"]
  /\ Goto(a, "vDone")
  /\ UNCHANGED <<clock, disk, cert, slots, locks, job, held, disturbed, hist>>

\* Mutant: whatever context is in the slot is closed.
CloseAnyGeneration(a) ==
  LET s == SlotOf[a] IN
  /\ pc[a] = "vDone"
  /\ loc[a].bad
  /\ slotLock[s] = None
  /\ IF ctx[s].file # NoFile
       THEN CloseOverCorruption(a)
       ELSE UNCHANGED <<ctx, verdict>>
  /\ Return(a)
  /\ UNCHANGED <<clock, disk, marker, opens, disturbed, probed, broken>>

\* Mutant: only a context opened since is closed.
CloseLaterGeneration(a) ==
  LET s == SlotOf[a] IN
  /\ pc[a] = "vDone"
  /\ loc[a].bad
  /\ slotLock[s] = None
  /\ IF ctx[s].file # NoFile /\ ctx[s].gen > loc[a].gen
       THEN CloseOverCorruption(a)
       ELSE UNCHANGED <<ctx, verdict>>
  /\ Return(a)
  /\ UNCHANGED <<clock, disk, marker, opens, disturbed, probed, broken>>

\* close_over_corruption_of: only the generation the mutation wrote through.
CloseGeneration(a) ==
  LET s == SlotOf[a] IN
  /\ pc[a] = "vDone"
  /\ loc[a].bad
  /\ slotLock[s] = None
  /\ IF ctx[s].file # NoFile /\ ctx[s].gen = loc[a].gen
       THEN CloseOverCorruption(a)
       ELSE UNCHANGED <<ctx, verdict>>
  /\ Return(a)
  /\ UNCHANGED <<clock, disk, marker, opens, disturbed, probed, broken>>

MutationReturns(a) ==
  /\ pc[a] = "vDone"
  /\ ~ loc[a].bad
  /\ Return(a)
  /\ UNCHANGED <<clock, disk, cert, slots, disturbed, hist>>

-----------------------------------------------------------------------------
(* What else happens to a slot, a process and the clock.                    *)

\* run_guarded_read over a torn file: SQLite reports it, the slot is closed.
ReadCorrupt(a) ==
  LET s == SlotOf[a] IN
  /\ pc[a] = "idle"
  /\ slotLock[s] = None
  /\ ctx[s].file \in torn
  /\ CloseOverCorruption(a)
  /\ UNCHANGED <<clock, disk, marker, opens, locks, ctl, disturbed, probed, broken>>

\* The context is dropped for a reason of its own (an evicted handle, the end
\* of a command). The last close checkpoints the WAL, with no announcement.
DropContext(a) ==
  LET s == SlotOf[a] IN
  /\ pc[a] = "idle"
  /\ slotLock[s] = None
  /\ ctx[s].file # NoFile
  /\ ctx' = [ctx EXCEPT ![s] = Empty]
  /\ \E wrote, grew \in BOOLEAN :
       /\ mtime' = IF wrote THEN now ELSE mtime
       /\ disturbed' = disturbed \cup (IF wrote THEN Stamped(grew) ELSE {})
  /\ UNCHANGED <<clock, path, nextFile, torn, cert, opens, locks, ctl, hist>>

\* The process dies: the kernel drops its locks, its memory is gone, a write
\* in flight may have torn the file.
Crash(p) ==
  LET Dead == {a \in Actor : ProcOfActor(a) = p}
      InFlight == \E a \in Dead : pc[a] = "write"
  IN
  /\ p \in Crashing
  /\ verdict' = [verdict EXCEPT ![p] = NoVerdict]
  /\ ctx' = [s \in Slot |-> IF ProcOf[s] = p THEN Empty ELSE ctx[s]]
  /\ slotLock' = [s \in Slot |-> IF ProcOf[s] = p THEN None ELSE slotLock[s]]
  /\ writer' = IF writer \in Dead THEN None ELSE writer
  /\ mutation' = IF mutation \in Dead THEN None ELSE mutation
  /\ pc' = [a \in Actor |-> IF a \in Dead THEN "idle" ELSE pc[a]]
  /\ job' = [a \in Actor |-> IF a \in Dead THEN NoJob ELSE job[a]]
  /\ loc' = [a \in Actor |-> IF a \in Dead THEN Blank ELSE loc[a]]
  /\ held' = [a \in Actor |-> IF a \in Dead THEN NoVerdict ELSE held[a]]
  /\ \E wrote, tears, grew \in BOOLEAN :
       /\ wrote => InFlight
       /\ tears => wrote
       /\ torn' = IF tears THEN torn \cup {path} ELSE torn
       /\ broken' = IF tears THEN broken \cup {p} ELSE broken
       /\ mtime' = IF wrote THEN now ELSE mtime
       /\ disturbed' = (disturbed \cup (IF wrote THEN Stamped(grew) ELSE {})) \ Dead
  /\ UNCHANGED <<clock, path, nextFile, marker, opens, probed>>

\* Damage that does not come through this code, under an unchanged mtime: a
\* page torn by the disk or by a memory map, which a long-lived connection
\* does not see in its page cache.
Damage ==
  /\ path # NoFile
  /\ path \notin torn
  /\ torn' = torn \cup {path}
  /\ UNCHANGED <<clock, path, nextFile, mtime, cert, slots, locks, ctl, disturbed, hist>>

Tick ==
  /\ now < MaxTime
  /\ now' = now + 1
  /\ UNCHANGED <<disk, cert, slots, locks, ctl, disturbed, hist>>

OpenStep(a) ==
  \/ SkipByVerdict(a) \/ NothingToProbe(a) \/ SkipByMarker(a) \/ StartProbe(a)
  \/ ProbeSound(a) \/ ProbeCorrupt(a) \/ VetoedByLive(a) \/ LockLive(a)
  \/ Quarantine(a) \/ Connect(a) \/ OpenFails(a)

WriteStep(a) ==
  \/ Announce(a) \/ SmallWrite(a) \/ RestoreVerdict(a) \/ MutationWrite(a)

VerifyStep(a) ==
  \/ VerifySkips(a) \/ VerifyBegins(a) \/ VerifyScan(a) \/ VerifyCannotOpen(a)
  \/ VerifyMatches(a) \/ VerifyDisturbed(a) \/ VerifyRecord(a)
  \/ VerifyCorrupt(a) \/ VerifyUndetermined(a)
  \/ CloseGeneration(a) \/ MutationReturns(a)

Continue(a) == Admit(a) \/ Lock(a) \/ OpenStep(a) \/ WriteStep(a) \/ VerifyStep(a)

Next ==
  \/ \E a \in Actor :
       \/ \E j \in Jobs : TakeSlot(a, j)
       \/ Continue(a)
       \/ ReadCorrupt(a)
       \/ DropContext(a)
  \/ \E p \in Proc : Crash(p)
  \/ Damage
  \/ Tick

Spec == Init /\ [][Next]_vars

\* An operation that has begun goes on; a waiter on the slot's fair mutex or on
\* a kernel file lock is served if the lock keeps coming free. Nothing obliges
\* anybody to start an operation, to tick or to crash.
FairSpec ==
  /\ Spec
  /\ \A a \in Actor :
       /\ WF_vars(OpenStep(a) \/ WriteStep(a) \/ VerifyStep(a))
       /\ SF_vars(Admit(a)) /\ SF_vars(Lock(a)) /\ SF_vars(CloseGeneration(a))

-----------------------------------------------------------------------------
(* Properties.                                                              *)

\* Every open context of every process is on the file at the path: no quarantine
\* renames the database under a context that announced itself on the live lock
\* (mutation_lock::acquire_live_shared, heal::ensure_sound_at_locked).
OneGeneration == \A s \in Slot : ctx[s].file # NoFile => ctx[s].file = path

\* The writer lock admits one write-capable adapter at a time: while one actor
\* is inside a write, or probing, renaming or creating the file on behalf of an
\* open, no other actor of any process is inside either.
Busy == Opening \cup {"announce", "write", "restore"}
SoleWriter == \A a, b \in Actor : pc[a] \in Busy /\ pc[b] \in Busy => a = b

\* A begun operation that takes no step before somebody lets go of a lock.
WaitsForLock(a) ==
  \/ pc[a] = "admit" /\ writer # None
  \/ pc[a] = "lock" /\ mutation # None
  \/ pc[a] = "vDone" /\ loc[a].bad /\ slotLock[SlotOf[a]] # None

\* Slots, writer lock and mutation lock, within a process and across processes,
\* never leave everyone waiting for everyone: of the operations that have begun
\* one waits for nobody (mutation_lock::acquire_writer, core::Context::open_impl).
NoCircularWait ==
  (\E a \in Actor : pc[a] # "idle")
    => \E a \in Actor : pc[a] # "idle" /\ ~ WaitsForLock(a)

\* The verdict of a probe that ran without any lock closes only a context over a
\* damaged file: never one reopened, in the meantime, over the replacement
\* (core::close_over_corruption_of and the generation it compares).
ClosesOnlyTheDamaged ==
  [][\A a \in Actor :
       /\ CloseGeneration(a)
       /\ ctx'[SlotOf[a]] # ctx[SlotOf[a]]
       => ctx[SlotOf[a]].file \in torn]_vars

\* A file torn by a write that failed or died is scanned by the next open: no
\* marker certifies it, nor does the verdict of the process that wrote it
\* (heal::invalidate_marker, heal::keep_process_probe_across).
UnfinishedWriteIsProbed ==
  [][\A a \in Actor :
       /\ SkipByMarker(a) => broken = {}
       /\ SkipByVerdict(a) => ProcOfActor(a) \notin broken]_vars

\* However markers and verdicts are handed on from one to the other, an open
\* skips the scan only of a file some scan found sound less than CheckInterval
\* ago (heal::ensure_sound_locked records the marker's time, not its own).
TrustIsBounded ==
  [][\A a \in Actor :
       SkipByMarker(a) \/ SkipByVerdict(a)
       => probed # NoTime /\ now - probed < CheckInterval]_vars

\* A mutation whose probe or statement saw corruption ends with its context
\* closed: the holder never keeps vetoing its own quarantine (core::run_mutation).
CorruptionReleasesSlot ==
  \A a \in Actor : \A g \in 1..MaxOpens :
    (pc[a] = "vDone" /\ loc[a].bad /\ loc[a].gen = g) ~> (ctx[SlotOf[a]].gen # g)

\* Every operation that was begun returns: the slot, writer and mutation locks
\* are always taken in one order and always dropped (mutation_lock::acquire_writer).
OperationsReturn == \A a \in Actor : (pc[a] # "idle") ~> (pc[a] = "idle")

=============================================================================
