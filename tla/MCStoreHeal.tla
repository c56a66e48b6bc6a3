----------------------------- MODULE MCStoreHeal -----------------------------
(* Instances of StoreHeal for TLC: a daemon whose tasks share one slot, or a *)
(* task of the daemon next to a one-shot command of another process.         *)
EXTENDS StoreHeal, TLC

CONSTANTS daemon, cli, d1, d2, c1, sd, sc

\* A task of the daemon and a command, each with the slot of its own process.
TwoProcs == {daemon, cli}
TwoActors == {d1, c1}
TwoSlots == {sd, sc}
TwoProcOf == (sd :> daemon) @@ (sc :> cli)
TwoSlotOf == (d1 :> sd) @@ (c1 :> sc)

\* Two tasks of the daemon on one slot.
Daemon == {daemon}
TwoTasks == {d1, d2}
OneSlot == {sd}
OneProcOf == sd :> daemon
SharedSlotOf == (d1 :> sd) @@ (d2 :> sd)

=============================================================================
