----------------------------- MODULE MCQuarantine -----------------------------
(* Instances of Quarantine for TLC: two rows of two tables.                   *)
EXTENDS Quarantine

CONSTANTS entry, edge, p1, p2

Rows == {entry, edge}
Table == [r \in Rows |-> IF r = entry THEN 1 ELSE 2]

=============================================================================
