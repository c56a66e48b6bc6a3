----------------------------- MODULE ReindexPromise -----------------------------
(***************************************************************************)
(* What the file watcher of a repository promises about its indexes: a     *)
(* path that changed stays due until a pass has indexed it. A failed pass  *)
(* may give up code and memory paths. A document it leaves only when the   *)
(* file does not look newer than its row, or after a corrupt store was     *)
(* replaced by an empty one.                                               *)
(*                                                                         *)
(* Sources: the flushes of mcp/server.rs (run_file_watcher_inner), the     *)
(* times compared in core/indexing.rs (index_single_file).                 *)
(***************************************************************************)
CONSTANTS Path, Sink

VARIABLES
  stale,   \* stale[s]: paths whose content index s does not hold
  due,     \* due[s]: stale paths some event, flag or request still stands for
  hidden,  \* documents whose file does not look newer than their row
  healed   \* a store was replaced by an empty one

Init ==
  /\ stale = [s \in Sink |-> {}]
  /\ due = [s \in Sink |-> {}]
  /\ hidden = {}
  /\ healed = FALSE

\* A file changes: it becomes stale where it is indexed, and due there.
Change ==
  \E p \in Path, S \in SUBSET Sink :
    /\ stale' = [s \in Sink |-> IF s \in S THEN stale[s] \cup {p} ELSE stale[s]]
    /\ due' = [s \in Sink |-> IF s \in S THEN due[s] \cup {p} ELSE due[s]]
    /\ hidden' \in {hidden \ {p}, hidden, hidden \cup {p}}
    /\ UNCHANGED healed

\* A pass: what it indexes is fresh; what it fails on stays due or is given up; a
\* document that looks newer than its row is never left.
Pass ==
  /\ stale' \in [Sink -> SUBSET Path]
  /\ due' \in [Sink -> SUBSET Path]
  /\ \A s \in Sink :
       /\ stale'[s] \subseteq stale[s]
       /\ due'[s] \subseteq stale'[s]
       /\ s = "doc" /\ ~healed => (due[s] \cap stale'[s]) \ hidden \subseteq due'[s]
  /\ hidden' \subseteq hidden
  /\ UNCHANGED healed

\* The documents and the memory of the store are gone; everything is stale.
Heal ==
  /\ healed' = TRUE
  /\ hidden' = {}
  /\ stale' \in [Sink -> SUBSET Path]
  /\ due' \in [Sink -> SUBSET Path]
  /\ \A s \in Sink :
       /\ stale[s] \subseteq stale'[s]
       /\ due[s] \subseteq due'[s]
       /\ due'[s] \subseteq stale'[s]

Next == Change \/ Pass \/ Heal

Spec == Init /\ [][Next]_<<stale, due, hidden, healed>>

=============================================================================
