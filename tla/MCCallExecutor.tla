--------------------------- MODULE MCCallExecutor ---------------------------
(* Small instances of CallExecutor for TLC.                                *)
EXTENDS CallExecutor

\* A playable file, and a source that createPlayer() cannot open.
AudioOk  == {[type |-> "wav", usable |-> TRUE]}
AudioAny == AudioOk \cup {[type |-> "", usable |-> FALSE]}
=============================================================================
