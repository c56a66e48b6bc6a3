--------------------------- MODULE MCDeferredWrites ---------------------------
(* Instances of DeferredWrites for TLC: two threads that queue rows, a Stop  *)
(* hook that waits for them and a prompt hook that may run out of time.      *)
EXTENDS DeferredWrites, TLC

CONSTANTS w1, w2, stop, prompt

Writers == {w1, w2}
Settlers == {stop, prompt}

=============================================================================
