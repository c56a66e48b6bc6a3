------------------------------- MODULE MCWatcher -------------------------------
(* Instances of Watcher for TLC: one document that is also source code, one   *)
(* plain document, one memory file, an ignore file, a build's output.         *)
EXTENDS Watcher

CONSTANTS page, both, entry, ignore, build

Docs == {page, both}
Sources == {both}
Entries == {entry}
Ignores == {ignore}
Builds == {build}

=============================================================================
