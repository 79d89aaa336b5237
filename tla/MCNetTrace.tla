----------------------------- MODULE MCNetTrace -----------------------------
(***************************************************************************)
(* Small instances of NetTrace for TLC.                                    *)
(***************************************************************************)
EXTENDS NetTrace, TLC

CONSTANTS a1, a2, a3, tgt, other

(* The addresses of sockets are alike.                                     *)
AnyAddr == Permutations(Addrs)

=============================================================================
