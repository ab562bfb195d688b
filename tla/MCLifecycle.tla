---------------------------- MODULE MCLifecycle ----------------------------
(* Small instances of ProcessLifecycle for TLC. *)
EXTENDS ProcessLifecycle
CONSTANT r1
=============================================================================
