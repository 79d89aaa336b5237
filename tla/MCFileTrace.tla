---------------------------- MODULE MCFileTrace -----------------------------
(***************************************************************************)
(* Small instances of FileTrace for TLC.                                   *)
(***************************************************************************)
EXTENDS FileTrace, TLC

CONSTANTS t1, t2, p1, p2, a, b

(* Threads, processes and paths are alike.                                 *)
Alike == Permutations({t1, t2}) \cup Permutations({p1, p2}) \cup Permutations({a, b})

=============================================================================
