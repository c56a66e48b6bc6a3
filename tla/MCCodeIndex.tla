----------------------------- MODULE MCCodeIndex -----------------------------
(* An instance of CodeIndex for TLC: a text that shares a symbol with        *)
(* another one, and a text that is too large to be indexed.                  *)
EXTENDS CodeIndex, TLC

CONSTANTS one, both, large, x, y

Alike == Permutations(File)

SymbolsIn == (one :> {x}) @@ (both :> {x, y}) @@ (large :> {y})

=============================================================================
