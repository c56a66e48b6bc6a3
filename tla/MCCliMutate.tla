------------------------------ MODULE MCCliMutate ------------------------------
(* Instances of CliMutate for TLC: a command and a hook whose repository    *)
(* requires the daemon.                                                     *)
EXTENDS CliMutate, TLC

CONSTANTS command, hook

Clients == {command, hook}

=============================================================================
