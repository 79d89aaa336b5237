------------------------------ MODULE MCTarget ------------------------------
(***************************************************************************)
(* Small instances of Target for TLC.                                      *)
(***************************************************************************)
EXTENDS Target, TLC

CONSTANTS i1, i2, i3

(* Ids are alike.                                                          *)
AnyId == Permutations(Ids)

=============================================================================
