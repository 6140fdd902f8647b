----------------------------- MODULE MCSignaling -----------------------------
(* Small instances of Signaling for TLC: the constants are numbers. *)
EXTENDS Signaling
=============================================================================
