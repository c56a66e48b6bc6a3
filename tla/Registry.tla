------------------------------- MODULE Registry -------------------------------
(***************************************************************************)
(* The daemon's registry of open repositories: requests resolve a root to  *)
(* a handle, open it when it is not there, evict another root when the     *)
(* registry is full, and replace a handle whose config.toml changed on     *)
(* disk, all at once.                                                      *)
(*                                                                         *)
(* Sources: daemon/registry.rs, and config.rs for what a file loads as.    *)
(*                                                                         *)
(* The table is only changed under open_gate, and read without it. People  *)
(* write and delete the config files at any moment; each edit gives the    *)
(* file a new stamp, and an absent file has none to show. Loading one is   *)
(* several looks at the file: its identity, whether it exists, its         *)
(* settings, and once more its [priors]. Roots are canonical and on the    *)
(* whitelist: others end before the gate. Which root is least recently     *)
(* used is left open, since the times are whole seconds that requests      *)
(* overwrite while the eviction reads them. The repo map, which records    *)
(* what was opened, is left out.                                           *)
(***************************************************************************)
EXTENDS Integers, FiniteSets

CONSTANTS
  Request,     \* requests served at the same time
  Root,        \* repositories
  MaxActive,   \* max_active_repos
  MaxHandles,  \* bound on the handles created
  MaxEdits,    \* bound on the edits of the config files
  FirstKinds,  \* what the config files may be like before the first edit
  NoHandle, NoRoot, Nobody

Handle == 1..MaxHandles
Kind == {"good", "malformed", "removed", "absent"}
Version == [stamp : 0..MaxEdits, kind : Kind]
NoStamp == -1    \* the identity of an absent file
Stamp == {NoStamp} \cup 0..MaxEdits
Seats == IF MaxActive = 0 THEN 1 ELSE MaxActive

ASSUME RegistryAssumption ==
  /\ IsFiniteSet(Root) /\ MaxActive \in Nat /\ MaxHandles \in Nat /\ MaxEdits \in Nat
  /\ NoHandle \notin Handle /\ NoRoot \notin Root /\ Nobody \notin Request
  /\ FirstKinds \subseteq Kind

VARIABLES
  disk,     \* disk[r]: config.toml of a root
  table,    \* handles: the open handle of a root
  gate,     \* who holds open_gate
  born,     \* handles created so far
  of,       \* of[h]: the root of a handle
  store,    \* store[h]: its slots (ctx, code_index), named by the handle they were made for
  stamp,    \* stamp[h]: config_identity
  config,   \* config[h]: the versions of the file its settings and priors stand for
  watcher,  \* watcher[h]: watcher_handle
  evicted,  \* history: handles of a root when it was evicted
  pc,       \* the next statement of a request
  wants,    \* the root it resolves
  held,     \* its live clones of handles
  chosen,   \* the handle it will return, or reloads
  noted,    \* the identity it read before it reads the file
  read      \* the version it took the settings from

about == <<of, store, stamp, config, watcher>>
locals == <<pc, wants, held, chosen, noted, read>>
vars == <<disk, table, gate, born, about, evicted, locals>>

UnderGate == {"stamp", "exists", "strict", "lenient", "priors"}
PCs == {"idle", "look", "check", "reload", "open", "spawn", "use"} \cup UnderGate

\* A config whose settings and priors come from one version of the file.
Of(version) == [file |-> version, priors |-> version]
Unread == [stamp |-> 0, kind |-> "good"]

TypeOK ==
  /\ disk \in [Root -> Version]
  /\ table \in [Root -> Handle \cup {NoHandle}]
  /\ gate \in Request \cup {Nobody}
  /\ born \in 0..MaxHandles
  /\ of \in [Handle -> Root \cup {NoRoot}]
  /\ store \in [Handle -> Handle]
  /\ stamp \in [Handle -> Stamp]
  /\ config \in [Handle -> [file : Version, priors : Version]]
  /\ watcher \in [Handle -> {"none", "running", "aborted"}]
  /\ evicted \subseteq Handle
  /\ pc \in [Request -> PCs]
  /\ wants \in [Request -> Root \cup {NoRoot}]
  /\ held \in [Request -> SUBSET Handle]
  /\ chosen \in [Request -> Handle \cup {NoHandle}]
  /\ noted \in [Request -> Stamp]
  /\ read \in [Request -> Version]
  /\ \A c \in Request : (gate = c) = (pc[c] \in UnderGate)

Init ==
  /\ disk \in [Root -> {[stamp |-> 0, kind |-> k] : k \in FirstKinds}]
  /\ table = [r \in Root |-> NoHandle]
  /\ gate = Nobody /\ born = 0
  /\ of = [h \in Handle |-> NoRoot]
  /\ store = [h \in Handle |-> h]
  /\ stamp = [h \in Handle |-> 0]
  /\ config = [h \in Handle |-> Of(Unread)]
  /\ watcher = [h \in Handle |-> "none"]
  /\ evicted = {}
  /\ pc = [c \in Request |-> "idle"]
  /\ wants = [c \in Request |-> NoRoot]
  /\ held = [c \in Request |-> {}]
  /\ chosen = [c \in Request |-> NoHandle]
  /\ noted = [c \in Request |-> NoStamp]
  /\ read = [c \in Request |-> Unread]

Open == {r \in Root : table[r] # NoHandle}

\* The handles someone has an Arc of.
Live(t, hs) == {h \in Handle : (\E r \in Root : t[r] = h) \/ \E c \in Request : h \in hs[c]}

\* Drop of RepoHandle: the last clone aborts the watcher task.
DropHandles ==
  watcher' = [h \in Handle |->
    IF watcher[h] = "running" /\ h \notin Live(table', held') THEN "aborted" ELSE watcher[h]]

\* An edit, a creation or a deletion: stamps count the edits of all the files.
Edit(r) ==
  /\ \E s \in 1..MaxEdits, k \in Kind :
       /\ "absent" \notin {k} \cap {disk[r].kind}
       /\ \A q \in Root : disk[q].stamp < s
       /\ \E q \in Root : disk[q].stamp = s - 1
       /\ disk' = [disk EXCEPT ![r] = [stamp |-> s, kind |-> k]]
  /\ UNCHANGED <<table, gate, born, about, evicted, locals>>

\* ConfigIdentity::of: what a stat tells of a version. Absent files look alike.
Identity(version) == IF version.kind = "absent" THEN NoStamp ELSE version.stamp

Changed(h) == stamp[h] # Identity(disk[of[h]])

\* The request goes on with these clones only: its answer, or nothing.
Return(c, where, hs) ==
  /\ pc' = [pc EXCEPT ![c] = where]
  /\ held' = [held EXCEPT ![c] = hs]
  /\ chosen' = [chosen EXCEPT ![c] = NoHandle]
  /\ noted' = [noted EXCEPT ![c] = NoStamp]
  /\ read' = [read EXCEPT ![c] = Unread]
  /\ wants' = IF where = "idle" THEN [wants EXCEPT ![c] = NoRoot] ELSE wants

Goes(c, where) == pc' = [pc EXCEPT ![c] = where] /\ UNCHANGED <<wants, noted, read>>

Ask(c, r) ==
  /\ pc[c] = "idle"
  /\ pc' = [pc EXCEPT ![c] = "look"]
  /\ wants' = [wants EXCEPT ![c] = r]
  /\ UNCHANGED <<disk, table, gate, born, about, evicted, held, chosen, noted, read>>

\* open_handle: the handle is cloned out of the table. `get' gives up without one.
Look(c) ==
  /\ pc[c] = "look"
  /\ IF table[wants[c]] = NoHandle
     THEN \E where \in {"open", "idle"} : Return(c, where, {})
     ELSE /\ held' = [held EXCEPT ![c] = {table[wants[c]]}]
          /\ chosen' = [chosen EXCEPT ![c] = table[wants[c]]]
          /\ Goes(c, "check")
  /\ UNCHANGED <<disk, table, gate, born, about, evicted>>

Check(c) ==
  /\ pc[c] = "check"
  /\ UNCHANGED <<disk, table, gate, born, of, store, stamp, config, evicted>>
  /\ IF Changed(chosen[c])
     THEN Goes(c, "reload") /\ UNCHANGED <<held, chosen, watcher>>
     ELSE Return(c, "use", {chosen[c]}) /\ DropHandles

\* Mutant: what the request cloned before the gate is taken for current.
EnterReloadStale(c) ==
  /\ pc[c] = "reload" /\ gate = Nobody
  /\ Goes(c, "stamp") /\ gate' = c
  /\ UNCHANGED <<disk, table, born, about, evicted, held, chosen>>

\* The gate, and then the table again: it may be gone or already reloaded.
EnterReload(c) ==
  /\ pc[c] = "reload" /\ gate = Nobody
  /\ UNCHANGED <<disk, table, born, of, store, stamp, config, evicted>>
  /\ LET current == table[wants[c]]
     IN  IF current = NoHandle
         THEN /\ \E where \in {"open", "idle"} : Return(c, where, {})
              /\ DropHandles /\ UNCHANGED gate
         ELSE IF Changed(current)
         THEN /\ Goes(c, "stamp") /\ gate' = c
              /\ held' = [held EXCEPT ![c] = @ \cup {current}]
              /\ chosen' = [chosen EXCEPT ![c] = current]
              /\ UNCHANGED watcher
         ELSE Return(c, "use", {current}) /\ DropHandles /\ UNCHANGED gate

\* evict_lru, when the registry is full.
Evict ==
  IF Cardinality(Open) >= MaxActive /\ Open # {}
  THEN \E r \in Open :
         /\ table' = [table EXCEPT ![r] = NoHandle]
         /\ evicted' = evicted \cup {h \in Handle : of[h] = r}
  ELSE UNCHANGED <<table, evicted>>

\* Mutant: the gate covers the check but not the open.
EnterOpenUngated(c) ==
  /\ pc[c] = "open" /\ gate = Nobody
  /\ UNCHANGED <<disk, born, of, store, stamp, config, gate>>
  /\ IF table[wants[c]] # NoHandle
     THEN Return(c, "use", {table[wants[c]]}) /\ UNCHANGED <<table, evicted>>
     ELSE Evict /\ Goes(c, "stamp") /\ UNCHANGED <<held, chosen>>
  /\ DropHandles

\* get_or_open under the gate: re-check, then make room. The re-check does not
\* compare the config's identity.
EnterOpen(c) ==
  /\ pc[c] = "open" /\ gate = Nobody
  /\ IF table[wants[c]] # NoHandle
     THEN Return(c, "use", {table[wants[c]]}) /\ UNCHANGED <<table, evicted, gate>>
     ELSE Evict /\ Goes(c, "stamp") /\ gate' = c /\ UNCHANGED <<held, chosen>>
  /\ DropHandles
  /\ UNCHANGED <<disk, born, of, store, stamp, config>>

\* RepoHandle::open and reopen: the identity first, the file after it.
ReadStamp(c) ==
  /\ pc[c] = "stamp"
  /\ noted' = [noted EXCEPT ![c] = Identity(disk[wants[c]])]
  /\ pc' = [pc EXCEPT ![c] = IF chosen[c] = NoHandle THEN "lenient" ELSE "exists"]
  /\ UNCHANGED <<disk, table, gate, born, about, evicted, wants, held, chosen, read>>

\* load_config on a reload: an absent file is loaded like that of an open.
TestExists(c) ==
  /\ pc[c] = "exists"
  /\ Goes(c, IF disk[wants[c]].kind = "absent" THEN "lenient" ELSE "strict")
  /\ UNCHANGED <<disk, table, gate, born, about, evicted, held, chosen>>

\* Mutant: a reload falls back to the defaults like an open.
LoadsEither(version, strict) == version.kind # "removed"

\* Config::load, and load_for_repo, which takes the defaults for a malformed file and
\* an absent one.
Loads(version, strict) ==
  version.kind = "good" \/ (version.kind \in {"malformed", "absent"} /\ ~strict)

\* The settings are read. A reload that fails serves the last good config, unless
\* the file has removed keys.
Load(c) ==
  /\ pc[c] \in {"strict", "lenient"}
  /\ UNCHANGED <<disk, table, born, of, store, stamp, config, evicted>>
  /\ LET version == disk[wants[c]]
     IN  IF Loads(version, pc[c] = "strict")
         THEN /\ read' = [read EXCEPT ![c] = version]
              /\ pc' = [pc EXCEPT ![c] = "priors"]
              /\ UNCHANGED <<gate, wants, held, chosen, noted, watcher>>
         ELSE /\ IF chosen[c] # NoHandle /\ version.kind # "removed"
                 THEN Return(c, "use", {chosen[c]})
                 ELSE Return(c, "idle", {})
              /\ gate' = Nobody
              /\ DropHandles

\* Mutant: the identity is taken after the file was read.
KeptSwapped(c, version) ==
  [identity |-> Identity(version), config |-> [file |-> read[c], priors |-> version]]

\* What a new handle keeps of the file: the identity is the oldest reading.
Kept(c, version) ==
  [identity |-> noted[c], config |-> [file |-> read[c], priors |-> version]]

\* raw_priors_layer reads the file again; then the new handle is in the table, over
\* the slots of the one it replaces if there is one, and the gate is released.
Install(c) ==
  LET h == born + 1
      kept == Kept(c, disk[wants[c]])
  IN  /\ pc[c] = "priors"
      /\ born < MaxHandles /\ born' = h
      /\ of' = [of EXCEPT ![h] = wants[c]]
      /\ store' = [store EXCEPT ![h] = IF chosen[c] = NoHandle THEN h ELSE store[chosen[c]]]
      /\ stamp' = [stamp EXCEPT ![h] = kept.identity]
      /\ config' = [config EXCEPT ![h] = kept.config]
      /\ table' = [table EXCEPT ![wants[c]] = h]
      /\ held' = [held EXCEPT ![c] = @ \cup {h}]
      /\ chosen' = [chosen EXCEPT ![c] = h]
      /\ Goes(c, "spawn")
      /\ gate' = Nobody
      /\ UNCHANGED <<disk, watcher, evicted>>

\* Mutant: only the handle of a first open gets a watcher.
SpawnFirst(c) ==
  /\ pc[c] = "spawn"
  /\ Return(c, "use", {chosen[c]})
  /\ UNCHANGED <<disk, table, gate, born, of, store, stamp, config, evicted>>
  /\ watcher' = [h \in Handle |->
       IF h = chosen[c] /\ store[h] = h THEN "running"
       ELSE IF watcher[h] = "running" /\ h \notin Live(table', held') THEN "aborted"
       ELSE watcher[h]]

\* spawn_watcher_for_handle, after the gate is dropped.
Spawn(c) ==
  /\ pc[c] = "spawn"
  /\ Return(c, "use", {chosen[c]})
  /\ UNCHANGED <<disk, table, gate, born, of, store, stamp, config, evicted>>
  /\ watcher' = [h \in Handle |->
       IF h = chosen[c] THEN "running"
       ELSE IF watcher[h] = "running" /\ h \notin Live(table', held') THEN "aborted"
       ELSE watcher[h]]

\* The request is answered and its handle dropped.
Answer(c) ==
  /\ pc[c] = "use"
  /\ Return(c, "idle", {})
  /\ UNCHANGED <<disk, table, gate, born, of, store, stamp, config, evicted>>
  /\ DropHandles

Resolve(c) ==
  \/ Look(c) \/ Check(c) \/ EnterReload(c) \/ EnterOpen(c)
  \/ ReadStamp(c) \/ TestExists(c) \/ Load(c) \/ Install(c) \/ Spawn(c) \/ Answer(c)

Next ==
  \/ \E r \in Root : Edit(r)
  \/ \E c \in Request : Resolve(c) \/ \E r \in Root : Ask(c, r)

Spec == Init /\ [][Next]_vars

\* A thread that entered the registry keeps running; the gate is not fair.
FairSpec == Spec /\ \A c \in Request : WF_vars(Resolve(c))

-----------------------------------------------------------------------------
(* Properties.                                                              *)

\* Concurrent opens, reloads and evictions never leave more roots open than the
\* configured number (open_gate: "which would exceed max_active").
Capacity == Cardinality(Open) <= Seats

\* An edit of a config.toml that is there is never missed: a handle whose settings or
\* priors do not stand for the file still looks changed, so the next access reloads it
\* (reopen: "Identity first").
NoEditMissed ==
  \A r \in Open :
    disk[r].kind # "absent" /\ config[table[r]] # Of(disk[r]) => Changed(table[r])

\* Two handles of one root share one store, unless the root was evicted in between
\* (reopen: "a reload must not open a second SQLite connection").
OneStore ==
  \A g, h \in Live(table, held) \ evicted :
    of[g] = of[h] => store[g] = store[h]

\* A reload serves defaults only where no config file is: what it read before, between
\* or after a deletion and a new save still looks changed, so the next access reloads
\* it (load_config, open_handle: "still serving the previous config").
LastGoodServed ==
  [][\A r \in Root : {table[r], table'[r]} \subseteq Handle /\ table'[r] # table[r] =>
       \/ /\ config'[table'[r]].file.kind = "good"
          /\ config'[table'[r]].priors.kind = "good"
       \/ disk'[r].kind = "absent"
       \/ Changed(table[r])']_vars

\* A watcher runs for a handle only while someone has it, and the handle a root is
\* served by has one, or the request that installed it is about to start it
\* (Drop of RepoHandle, spawn_watcher_for_handle).
WatchersMatch ==
  /\ \A h \in Handle : watcher[h] = "running" => h \in Live(table, held)
  /\ \A r \in Open : \/ watcher[table[r]] = "running"
                     \/ \E c \in Request : pc[c] = "spawn" /\ chosen[c] = table[r]

\* Every handle that stays in the table gets its watcher, although the spawn comes
\* after the gate is gone (get_or_open, open_handle).
EveryRootIsWatched ==
  \A r \in Root : []<>(table[r] # NoHandle => watcher[table[r]] = "running")

=============================================================================
