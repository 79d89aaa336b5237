---------------------------- MODULE SyscallTrace ----------------------------
(***************************************************************************)
(* FR2, the system-call path: the two raw_syscalls tracepoint programs of  *)
(* peekbeam-ebpf (sys_enter, sys_exit, both try_emit), the EVENTS ring     *)
(* buffer between kernel and user space, and the drain_syscalls closure of *)
(* peekbeam's main.rs that pairs the records and accumulates SyscallStats. *)
(*                                                                         *)
(* Threads of the traced processes run in parallel, so a handler is two    *)
(* steps: it stamps its record (bpf_ktime_get_ns) and later reserves a     *)
(* slot in the ring (EVENTS.output).  Another CPU may run in between, so   *)
(* records can enter the ring in an order that is not the order of their   *)
(* stamps.  The system calls of this module are those for which            *)
(* handle_file_syscall does nothing (its last arm); FileTrace has the      *)
(* others.                                                                 *)
(*                                                                         *)
(* matches_target looks at the caller's cgroup at every event, so that a   *)
(* process that is moved into or out of the target's cgroup in the middle  *)
(* of a call is seen at one end of it only: Movable are the processes to   *)
(* which that may happen, at any time and any number of times.             *)
(*                                                                         *)
(* External: sys_exit reports the number that its sys_enter did.  (The one *)
(* exception, rt_sigreturn, leaves an entry behind under its own number,   *)
(* and its exit, which reports -1, finds none.)                            *)
(***************************************************************************)
EXTENDS Integers, Sequences, FiniteSets, Functions

CONSTANTS
  Threads,   \* kernel threads that make system calls
  Tgids,     \* process ids: what ctx.tgid() returns
  Tgid,      \* the process of each thread
  Target,    \* the processes that matches_target accepts, always or at times
  Movable,   \* those of them that it accepts at times: --container only
  Sysnos,    \* system call numbers
  NoReturn,  \* those that never return (exit, exit_group): no sys_exit
  RingCap,   \* how many records EVENTS holds before output fails
  MaxClock,  \* bound: how many times the clock is read
  AttachBy,  \* bound: ... and how many of these before sys_exit is attached
  None       \* an absent map entry or stamp

ASSUME SyscallTraceAssumption ==
  /\ Tgid \in [Threads -> Tgids]
  /\ Target \subseteq Tgids /\ Movable \subseteq Target
  /\ NoReturn \subseteq Sysnos
  /\ RingCap \in Nat \ {0}
  /\ MaxClock \in Nat /\ AttachBy \in Nat
  /\ None \notin Nat
  /\ None \notin [nr : Sysnos, from : Nat, to : Nat \cup {None}]
  /\ IsFiniteSet(Threads)

VARIABLES
  pc,       \* where each thread is: see Phases
  nr,       \* the number of the call the thread is in, or was last in
  since,    \* history: when the thread's call was entered, 0: before attach,
            \* or sys_enter turned it away
  stamp,    \* timestamp_ns of the record the thread's handler has built
  clock,    \* bpf_ktime_get_ns
  events,   \* the EVENTS ring: records output and not yet drained
  pending,  \* drain_syscalls' map (pid, syscall_nr) -> enter timestamp
  stats,    \* StatsMap; an absent entry is the default one
  attached, \* sys_exit is attached (sys_enter is, it comes first)
  done,     \* history: the calls that sys_exit saw return, and their time
  dropped,  \* history: some EVENTS.output has failed
  lost      \* history: ... or a call that sys_enter handled returned unseen

kernelVars == <<pc, nr, since, stamp, clock>>
userVars   == <<pending, stats>>
losses     == <<dropped, lost>>
vars       == <<kernelVars, events, userVars, attached, done, losses>>

-----------------------------------------------------------------------------
(* A thread is in user mode, in the sys_enter program with its record      *)
(* stamped, inside the call, in the sys_exit program with its record       *)
(* stamped, or gone (its call was exit or exit_group).                     *)
Phases == {"user", "entering", "inside", "exiting", "gone"}

Keys == Target \X Sysnos

(* A SyscallEvent.  own is history, not a field of the event: when the     *)
(* call it belongs to was entered, 0 if sys_enter did not handle that.     *)
Record == [kind : {"Enter", "Exit"}, pid : Target, nr : Sysnos,
           ts : Nat, own : Nat]

SyscallStats == [count : Nat, total_ns : Nat]

TypeOK ==
  /\ pc \in [Threads -> Phases]
  /\ nr \in [Threads -> Sysnos]
  /\ since \in [Threads -> Nat]
  /\ stamp \in [Threads -> Nat]
  /\ clock \in Nat
  /\ events \in Seq(Record)
  /\ Len(events) <= RingCap
  /\ pending \in [Keys -> Nat \cup {None}]
  /\ stats \in [Sysnos -> SyscallStats]
  /\ attached \in BOOLEAN
  /\ done \in [Sysnos -> SyscallStats]
  /\ dropped \in BOOLEAN /\ lost \in BOOLEAN

(* main has attached sys_enter and goes on to attach sys_exit while the    *)
(* target runs: a thread may already be inside a call whose sys_enter      *)
(* nobody saw.                                                             *)
Init ==
  /\ pc \in [Threads -> {"user", "inside"}]
  /\ nr \in [Threads -> Sysnos \ NoReturn]
  /\ since = [t \in Threads |-> 0]
  /\ stamp = [t \in Threads |-> 0]
  /\ clock = 0
  /\ events = <<>>
  /\ pending = [k \in Keys |-> None]
  /\ stats = [n \in Sysnos |-> [count |-> 0, total_ns |-> 0]]
  /\ attached = FALSE
  /\ done = [n \in Sysnos |-> [count |-> 0, total_ns |-> 0]]
  /\ dropped = FALSE /\ lost = FALSE

-----------------------------------------------------------------------------
(* The kernel side.                                                        *)

(* The filter may let this thread's process pass, or turn it away.         *)
matches_target(t) == Tgid[t] \in Target

turned_away(t) == Tgid[t] \notin Target \ Movable

(* Every read of the clock returns a later time than the one before.       *)
ReadClock(t) ==
  /\ clock < IF attached THEN MaxClock ELSE AttachBy
  /\ clock' = clock + 1
  /\ stamp' = [stamp EXCEPT ![t] = clock + 1]

(* EVENTS.output: reserve, copy and commit, or fail on a full ring.        *)
Output(kind, t) ==
  \/ /\ Len(events) < RingCap
     /\ events' = Append(events, [kind |-> kind, pid |-> Tgid[t], nr |-> nr[t],
                                  ts |-> stamp[t], own |-> since[t]])
     /\ UNCHANGED losses
  \/ /\ Len(events) = RingCap
     /\ dropped' = TRUE /\ lost' = TRUE
     /\ UNCHANGED events

(* One more call of number n, which took ns.                               *)
Tally(sums, n, ns) ==
  [sums EXCEPT ![n] = [count |-> @.count + 1, total_ns |-> @.total_ns + ns]]

Moves(t, from, to) ==
  /\ pc[t] = from
  /\ pc' = [pc EXCEPT ![t] = to]

(* sys_enter fires for a target thread: try_emit builds its record.        *)
SysEnter(t, n) ==
  /\ matches_target(t)
  /\ Moves(t, "user", "entering")
  /\ ReadClock(t)
  /\ nr' = [nr EXCEPT ![t] = n]
  /\ since' = [since EXCEPT ![t] = clock + 1]
  /\ UNCHANGED <<events, userVars, attached, done, losses>>

(* ... and outputs it; the call then runs, whether or not this succeeded.  *)
EmitEnter(t) ==
  /\ Moves(t, "entering", "inside")
  /\ Output("Enter", t)
  /\ UNCHANGED <<nr, since, stamp, clock, userVars, attached, done>>

(* The call returns and sys_exit fires: try_emit builds its record.        *)
SysExit(t) ==
  /\ attached
  /\ matches_target(t)
  /\ nr[t] \notin NoReturn
  /\ Moves(t, "inside", "exiting")
  /\ ReadClock(t)
  /\ UNCHANGED <<nr, since, events, userVars, attached, done, losses>>

(* ... and outputs it.                                                     *)
EmitExit(t) ==
  /\ Moves(t, "exiting", "user")
  /\ Output("Exit", t)
  /\ done' = Tally(done, nr[t], stamp[t] - since[t])
  /\ UNCHANGED <<nr, since, stamp, clock, userVars, attached>>

(* A call of a process that is not in the target, or not at that moment:   *)
(* sys_enter returns at once.                                              *)
EnterUnseen(t, n) ==
  /\ turned_away(t)
  /\ Moves(t, "user", "inside")
  /\ nr' = [nr EXCEPT ![t] = n]
  /\ since' = [since EXCEPT ![t] = 0]
  /\ UNCHANGED <<stamp, clock, events, userVars, attached, done, losses>>

(* The call returns, and sys_exit is not attached yet or returns at once.  *)
ExitUnseen(t) ==
  /\ ~attached \/ turned_away(t)
  /\ nr[t] \notin NoReturn
  /\ Moves(t, "inside", "user")
  /\ lost' = (lost \/ since[t] # 0)
  /\ UNCHANGED <<nr, since, stamp, clock, events, userVars, attached, done, dropped>>

(* exit and exit_group end the thread inside the call.                     *)
ThreadGone(t) ==
  /\ nr[t] \in NoReturn
  /\ Moves(t, "inside", "gone")
  /\ UNCHANGED <<nr, since, stamp, clock, events, userVars, attached, done, losses>>

(* main's attach loop gets to sys_exit.                                    *)
AttachExit ==
  /\ ~attached
  /\ attached' = TRUE
  /\ UNCHANGED <<kernelVars, events, userVars, done, losses>>

-----------------------------------------------------------------------------
(* The user-space side: one turn of drain_syscalls' loop each.             *)

WrappingSub(a, b) == a - b  \* mutant: not saturating

SatSub(a, b) == IF a >= b THEN a - b ELSE 0

KeyByNumber(rec) == <<CHOOSE p \in Target : TRUE, rec.nr>>  \* mutant

Key(rec) == <<rec.pid, rec.nr>>

KeepOldest(k, ts) == [pending EXCEPT ![k] = IF @ = None THEN ts ELSE @]  \* mutant: or_insert

Remember(k, ts) == [pending EXCEPT ![k] = ts]

ForgetNothing(k) == pending  \* mutant: get instead of remove

Forget(k) == [pending EXCEPT ![k] = None]

Account(n, dur) == Tally(stats, n, dur)

DrainEnter ==
  /\ attached
  /\ events # <<>>
  /\ LET e == Head(events)
     IN  /\ e.kind = "Enter"
         /\ pending' = Remember(Key(e), e.ts)
  /\ events' = Tail(events)
  /\ UNCHANGED <<kernelVars, stats, attached, done, losses>>

DrainExit ==
  /\ attached
  /\ events # <<>>
  /\ LET e == Head(events)
         start == pending[Key(e)]
     IN  /\ e.kind = "Exit"
         /\ pending' = Forget(Key(e))
         /\ stats' = IF start = None THEN stats
                     ELSE Account(e.nr, SatSub(e.ts, start))
  /\ events' = Tail(events)
  /\ UNCHANGED <<kernelVars, attached, done, losses>>

-----------------------------------------------------------------------------
ThreadStep(t) ==
  \/ \E n \in Sysnos : SysEnter(t, n) \/ EnterUnseen(t, n)
  \/ EmitEnter(t)
  \/ SysExit(t)
  \/ EmitExit(t)
  \/ ExitUnseen(t)
  \/ ThreadGone(t)

Next ==
  \/ \E t \in Threads : ThreadStep(t)
  \/ AttachExit
  \/ DrainEnter
  \/ DrainExit

Spec == Init /\ [][Next]_vars

-----------------------------------------------------------------------------
(* Properties.                                                             *)

OneThreadEach == IsInjective(Tgid)

InCall(t) == matches_target(t) /\ pc[t] \in {"entering", "inside", "exiting"}

TimeInFlight(n) ==
  SumFunction([t \in Threads |-> IF InCall(t) /\ nr[t] = n THEN clock - since[t] ELSE 0])

(* However the threads of a process interleave, and although pending has   *)
(* one entry for all threads of a process in the same call, the time that  *)
(* drain_syscalls reports for a call never exceeds the time threads have   *)
(* really spent in it, as long as no record was dropped, no process is     *)
(* moved and no call returned while only sys_enter was attached.           *)
TimeNeverOverstated ==
  ~lost /\ Movable = {} =>
    \A n \in Sysnos : stats[n].total_ns <= done[n].total_ns + TimeInFlight(n)

(* pending holds no leftovers: once the ring is drained, each entry is the *)
(* enter timestamp of a call some thread of that process is still inside   *)
(* (or never leaves: exit), as long as no record was dropped and no call   *)
(* that was seen to begin returned unseen.                                 *)
PendingIsInFlight ==
  ~lost /\ events = <<>> =>
    \A k \in Keys : pending[k] # None =>
      \E t \in Threads : /\ <<Tgid[t], nr[t]>> = k
                         /\ since[t] = pending[k]
                         /\ pc[t] \in {"inside", "exiting", "gone"}

(* Every end of a call of process p is matched with its own beginning: no  *)
(* record was dropped, and either nothing else was missed or p cannot have *)
(* been moved.                                                             *)
Matched(p) == ~lost \/ (~dropped /\ p \notin Movable)

(* With one thread per process, the start that the next Exit record takes  *)
(* out of pending is that of its own call, and an Exit whose entry was not *)
(* seen finds nothing: the Enter record of a call that returned while only *)
(* sys_enter was attached stays in pending, but no later Exit meets it.    *)
MeasuresOwnCall ==
  OneThreadEach /\ events # <<>> =>
    LET e == Head(events)
    IN  e.kind = "Exit" /\ Matched(e.pid) =>
          pending[Key(e)] = IF e.own = 0 THEN None ELSE e.own

(* Whatever records the full ring drops, and however stamps and outputs of *)
(* several threads interleave, at no moment do more measured spans of a    *)
(* call overlap than the target has threads: their sum cannot exceed the   *)
(* time since attach, per thread.                                          *)
WallClockBound ==
  LET traced == {t \in Threads : matches_target(t)}
  IN  \A n \in Sysnos : stats[n].total_ns <= clock * Cardinality(traced)

(* With one thread per process this is the ledger: a thread's call is one  *)
(* whose entry was seen, and the backlog are the Exit records in the ring  *)
(* that belong to such calls.                                              *)
LedgerCall ==
  [t \in Threads |->
     IF InCall(t) /\ since[t] # 0
     THEN [nr |-> nr[t], from |-> since[t],
           to |-> IF pc[t] = "exiting" THEN stamp[t] ELSE None]
     ELSE None]

Backlog(ring) ==
  LET upTo[i \in 0..Len(ring)] ==
        IF i = 0 THEN << >>
        ELSE IF ring[i].kind = "Exit" /\ ring[i].own # 0
             THEN Append(upTo[i - 1], [nr |-> ring[i].nr, ns |-> ring[i].ts - ring[i].own])
             ELSE upTo[i - 1]
  IN  upTo[Len(ring)]

Ledger == INSTANCE SyscallLedger WITH
  now <- clock,
  call <- LedgerCall,
  backlog <- Backlog(events),
  ledger <- stats,
  exact <- ~lost

LedgerSpec == Ledger!Spec

=============================================================================
