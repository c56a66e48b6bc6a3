----------------------------- MODULE MCMemorySync -----------------------------
(* Instances of MemorySync for TLC: two entries, two texts, and the second    *)
(* text loses its triggers when it is read from a file.                       *)
EXTENDS MemorySync, TLC

CONSTANTS rule, plain, e1, e2

Texts == {rule, plain}
Ids == {e1, e2}
DropTriggers == (rule :> plain) @@ (plain :> plain)

=============================================================================
