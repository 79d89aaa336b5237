--------------------------- MODULE SyscallLedger ----------------------------
(***************************************************************************)
(* What the Syscalls panel promises (FR2.3): the ledger of a system call   *)
(* number holds how many of the target's calls completed and how long they *)
(* took, call by call, in the order they completed.  Reporting lags behind *)
(* completion: finished calls wait in a backlog.  The promise is exact for *)
(* as long as no event has been lost; afterwards nothing is promised.      *)
(*                                                                         *)
(* SyscallTrace implements this when every traced process has one thread.  *)
(***************************************************************************)
EXTENDS Naturals, Sequences

CONSTANTS
  Threads,   \* who makes calls
  Sysnos,    \* system call numbers
  NoReturn,  \* those that never return
  None       \* no call, no time

VARIABLES
  now,      \* the clock
  call,     \* call[t]: the traced call t is in, None if there is none
  backlog,  \* completed calls that are not in the ledger yet, oldest first
  ledger,   \* for each number, completed calls and nanoseconds
  exact     \* no event has been lost

vars == <<now, call, backlog, ledger, exact>>

Init ==
  /\ now = 0
  /\ call = [t \in Threads |-> None]
  /\ backlog = <<>>
  /\ ledger = [n \in Sysnos |-> [count |-> 0, total_ns |-> 0]]
  /\ exact = TRUE

(* Thread t enters a call now.                                             *)
Begin(t) ==
  /\ call[t] = None
  /\ now' > now
  /\ \E n \in Sysnos :
       call' = [call EXCEPT ![t] = [nr |-> n, from |-> now', to |-> None]]
  /\ UNCHANGED <<backlog, ledger, exact>>

(* Its call returns now.  A call from before the trace passes unnoticed.   *)
End(t) ==
  /\ now' > now
  /\ \/ call[t] = None /\ UNCHANGED call
     \/ /\ call[t] # None
        /\ call[t].to = None
        /\ call[t].nr \notin NoReturn
        /\ call' = [call EXCEPT ![t].to = now']
  /\ UNCHANGED <<backlog, ledger, exact>>

(* The finished call joins the backlog, with its own duration.             *)
Retire(t) ==
  /\ call[t] # None
  /\ call[t].to # None
  /\ call' = [call EXCEPT ![t] = None]
  /\ backlog' = Append(backlog, [nr |-> call[t].nr,
                                 ns |-> call[t].to - call[t].from])
  /\ UNCHANGED <<now, ledger, exact>>

(* The thread ends inside exit or exit_group.                              *)
Leave(t) ==
  /\ call[t] # None
  /\ call[t].nr \in NoReturn
  /\ call' = [call EXCEPT ![t] = None]
  /\ UNCHANGED <<now, backlog, ledger, exact>>

(* The oldest finished call is entered in the ledger.                      *)
Report ==
  /\ backlog # <<>>
  /\ backlog' = Tail(backlog)
  /\ LET c == Head(backlog)
     IN  ledger' = [ledger EXCEPT ![c.nr].count = @ + 1,
                                  ![c.nr].total_ns = @ + c.ns]
  /\ UNCHANGED <<now, call, exact>>

Next ==
  \/ /\ exact
     /\ \/ \E t \in Threads : Begin(t) \/ End(t) \/ Retire(t) \/ Leave(t)
        \/ Report
  \/ ~exact'

Spec == Init /\ [][Next]_vars

=============================================================================
