-------------------------- MODULE MCInitHandshake --------------------------
(* Small instances of InitHandshake for TLC. *)
EXTENDS InitHandshake
=============================================================================
