------------------------ MODULE MCCallExecutorTimed -------------------------
(* Small instances of CallExecutorTimed for TLC.                           *)
EXTENDS CallExecutorTimed

AudioOk == {[type |-> "wav", usable |-> TRUE]}

\* A path that names no file.
AudioMissing == {[type |-> "wav", usable |-> FALSE]}
=============================================================================
