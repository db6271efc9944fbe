---------------------------- MODULE MCUkeyAgent ----------------------------
(* Small instances of UkeyAgent for TLC. *)
EXTENDS UkeyAgent
=============================================================================
