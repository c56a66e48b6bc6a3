------------------------------ MODULE MCRegistry ------------------------------
(* Instance of Registry for TLC: two requests, two roots, one seat.         *)
EXTENDS Registry, TLC

CONSTANTS c1, c2, a, b

Requests == {c1, c2}
Roots == {a, b}

=============================================================================
