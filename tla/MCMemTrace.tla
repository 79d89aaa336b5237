----------------------------- MODULE MCMemTrace -----------------------------
(***************************************************************************)
(* A small instance of MemTrace for TLC: one target and one other process. *)
(***************************************************************************)
EXTENDS MemTrace

CONSTANTS tgt, other

=============================================================================
