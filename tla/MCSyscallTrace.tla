--------------------------- MODULE MCSyscallTrace ---------------------------
(***************************************************************************)
(* Small instances of SyscallTrace for TLC.                                *)
(***************************************************************************)
EXTENDS SyscallTrace, TLC

CONSTANTS t1, t2, p1, p2, futex, exit

(* Two threads of one process.                                             *)
SharedTgid == [t \in Threads |-> p1]

(* One thread in each of two processes.                                    *)
SingleTgid == t1 :> p1 @@ t2 :> p2

(* Threads of one process are alike.                                       *)
AnyThread == Permutations({t1, t2})

=============================================================================
