---------------------------- MODULE MutationOutcome ----------------------------
(***************************************************************************)
(* What a mutation sent from the command line promises its caller: it runs *)
(* at most once, in the daemon or in the caller's own process, and the     *)
(* caller is told which of three things it may conclude.                   *)
(*                                                                         *)
(* Sources: cli/hook_client.rs (MutationFailure) and main.rs, which acts   *)
(* on it.                                                                  *)
(***************************************************************************)
CONSTANT Client

VARIABLES
  ran,   \* who ran each client's mutation: "nobody", "daemon" or "caller"
  told   \* what its caller has learned

Init ==
  /\ ran = [c \in Client |-> "nobody"]
  /\ told = [c \in Client |-> "waiting"]

\* The daemon may start a mutation whose caller has stopped waiting.
DaemonRuns(c) ==
  /\ ran[c] = "nobody"
  /\ told[c] \in {"waiting", "undetermined"}
  /\ ran' = [ran EXCEPT ![c] = "daemon"]
  /\ UNCHANGED told

Answered(c) ==
  /\ told[c] = "waiting"
  /\ ran[c] = "daemon"
  /\ told' = [told EXCEPT ![c] = "done"]
  /\ UNCHANGED ran

\* The daemon may have run it, may be running it, or may run it yet.
Undetermined(c) ==
  /\ told[c] = "waiting"
  /\ told' = [told EXCEPT ![c] = "undetermined"]
  /\ UNCHANGED ran

\* The daemon has not run it and never will.
Unstarted(c) ==
  /\ told[c] = "waiting"
  /\ ran[c] = "nobody"
  /\ told' = [told EXCEPT ![c] = "unstarted"]
  /\ UNCHANGED ran

CallerRuns(c) ==
  /\ told[c] = "unstarted"
  /\ ran[c] = "nobody"
  /\ ran' = [ran EXCEPT ![c] = "caller"]
  /\ UNCHANGED told

Next ==
  \E c \in Client :
    DaemonRuns(c) \/ Answered(c) \/ Undetermined(c) \/ Unstarted(c) \/ CallerRuns(c)

Spec == Init /\ [][Next]_<<ran, told>>

=============================================================================
