----------------------------- MODULE FileTrace ------------------------------
(***************************************************************************)
(* FR4, the file path: handle_file_syscall of peekbeam-ebpf, which the two *)
(* raw_syscalls programs call after a successful EVENTS.output, the maps   *)
(* PENDING_OPEN_PATH and PENDING_FD that carry an argument from sys_enter  *)
(* to sys_exit, the FILE_EVENTS ring, and the drain_file_events closure of *)
(* peekbeam's main.rs that keeps the table behind the Files panel.         *)
(*                                                                         *)
(* Threads run on several CPUs, so a step is one access to shared state: a *)
(* map operation, a ring output, or the kernel's own work for the call.    *)
(* Only processes of the target appear: for others the programs return at  *)
(* once, and so they do for a process of Movable while it is moved out of  *)
(* the target's cgroup, which matches_target looks at on every event.      *)
(* EVENTS and the clock are SyscallTrace's; here EVENTS.output is a call   *)
(* that may fail.                                                          *)
(***************************************************************************)
EXTENDS Integers, Sequences, FiniteSets, Functions

CONSTANTS
  Threads,     \* threads of the target's processes
  Tgids,       \* its processes
  Movable,     \* those that may be moved out of its cgroup and back
  Paths,       \* path arguments of openat and openat2
  Fds,         \* file descriptors a process can have
  Inherited,   \* those that are open when peekbeam attaches
  Lossy,       \* whether EVENTS.output and reads of user memory can fail
  PendingCap,  \* entries of PENDING_OPEN_PATH and of PENDING_FD
  RingCap,     \* records FILE_EVENTS holds before output fails
  MaxCalls,    \* bound: how many calls, those in flight at attach included
  Unknown,     \* unknown_file's path
  None         \* an absent map entry or row, a free descriptor

ASSUME FileTraceAssumption ==
  /\ IsFiniteSet(Threads) /\ Cardinality(Threads) <= MaxCalls
  /\ Movable \subseteq Tgids
  /\ Fds \subseteq Nat /\ IsFiniteSet(Fds)
  /\ Inherited \subseteq Fds
  /\ Lossy \in BOOLEAN
  /\ PendingCap \in Nat /\ RingCap \in Nat \ {0} /\ MaxCalls \in Nat
  /\ Unknown \notin Paths /\ None \notin Paths \cup Fds \cup {Unknown}

VARIABLES
  tgid,               \* the process of each thread, which never changes
  pc,                 \* where each thread is: see Phases
  call,               \* the call the thread is in: its arguments, its result
                      \* and what sys_exit read from a PENDING map
  fdtab,              \* external: what each descriptor refers to
  PENDING_OPEN_PATH,
  PENDING_FD,
  file_events,        \* the FILE_EVENTS ring
  files,              \* FilesMap: (pid, fd) -> FileStats or None
  truth,              \* history: the table as the calls that were stashed
                      \* really went
  moved,              \* history: bytes each process really moved
  made,               \* how many calls there have been
  dropped,            \* history: a handler has not run, or not beyond
                      \* EVENTS.output, so that a stash was not consumed
  lost                \* history: something else was not recorded

maps    == <<PENDING_OPEN_PATH, PENDING_FD>>
history == <<truth, moved, made>>
vars    == <<tgid, pc, call, fdtab, maps, file_events, files, history,
             dropped, lost>>

-----------------------------------------------------------------------------
(* A thread is in user mode, inside the call, back from it but not yet in  *)
(* sys_exit, or in sys_exit about to remove the map entry or to output.    *)
Phases == {"user", "inside", "returning", "remove", "emit"}

FdOps == {"read", "write", "close"}

(* openat(path), read(fd), write(fd), close(fd), and any call outside      *)
(* these that returns a new descriptor, such as socket.                    *)
Calls == [op : {"openat"}, arg : Paths] \cup [op : FdOps, arg : Fds]
         \cup [op : {"socket"}, arg : {None}]

FileStats == [path : Paths \cup {Unknown}, bytes_read : Nat,
              bytes_written : Nat, closed : BOOLEAN]

Rows == Tgids \X Fds

FileEvent ==
  [kind : {"openat"}, pid : Tgids, fd : Fds, bytes : {0}, path : Paths]
  \cup [kind : FdOps, pid : Tgids, fd : Fds, bytes : Nat, path : {None}]

(* stashed: sys_enter has put this call's argument into a PENDING map.     *)
InFlight == [op : {"openat", "socket"} \cup FdOps, arg : Paths \cup Fds \cup {None},
             stashed : BOOLEAN, ret : Nat \cup {-1}, got : Paths \cup Fds \cup {None}]

ASSUME NoneAssumption == None \notin InFlight

Entered(c, stashed) == [op |-> c.op, arg |-> c.arg, stashed |-> stashed, ret |-> 0, got |-> None]

TypeOK ==
  /\ tgid \in [Threads -> Tgids]
  /\ pc \in [Threads -> Phases]
  /\ call \in [Threads -> InFlight \cup {None}]
  /\ \A t \in Threads : call[t] = None <=> pc[t] = "user"
  /\ fdtab \in [Tgids -> [Fds -> Paths \cup {Unknown, "socket", None}]]
  /\ PENDING_OPEN_PATH \in [Tgids -> Paths \cup {None}]
  /\ PENDING_FD \in [Tgids -> Fds \cup {None}]
  /\ file_events \in Seq(FileEvent) /\ Len(file_events) <= RingCap
  /\ files \in [Rows -> FileStats \cup {None}]
  /\ truth \in [Rows -> FileStats \cup {None}]
  /\ moved \in [Tgids -> [read : Nat, write : Nat]]
  /\ made \in 0..MaxCalls
  /\ dropped \in BOOLEAN /\ lost \in BOOLEAN

(* The probes attach while the target runs: a thread may be inside a call  *)
(* whose sys_enter nobody saw.                                             *)
Init ==
  /\ tgid \in [Threads -> Tgids]
  /\ call \in [Threads -> {Entered(c, FALSE) : c \in Calls} \cup {None}]
  /\ pc = [t \in Threads |-> IF call[t] = None THEN "user" ELSE "inside"]
  /\ fdtab = [p \in Tgids |-> [d \in Fds |-> IF d \in Inherited THEN Unknown ELSE None]]
  /\ PENDING_OPEN_PATH = [p \in Tgids |-> None]
  /\ PENDING_FD = [p \in Tgids |-> None]
  /\ file_events = <<>>
  /\ files = [k \in Rows |-> None]
  /\ truth = [k \in Rows |-> None]
  /\ moved = [p \in Tgids |-> [read |-> 0, write |-> 0]]
  /\ made = Cardinality({t \in Threads : call[t] # None})
  /\ dropped = FALSE /\ lost = FALSE

(* A thread's step; on its return to user mode the call is over.           *)
Moves(t, from, to, c) ==
  /\ pc[t] = from
  /\ pc' = [pc EXCEPT ![t] = to]
  /\ call' = [call EXCEPT ![t] = IF to = "user" THEN None ELSE c]

-----------------------------------------------------------------------------
(* sys_enter.                                                              *)

(* A HashMap insert: a new key does not fit into a full map.               *)
Fits(m, p) == m[p] # None \/ Cardinality({q \in Tgids : m[q] # None}) < PendingCap

InsertOnce(m, p, v) ==  \* mutant: BPF_NOEXIST, an old entry is kept
  IF Fits(m, p) /\ m[p] = None THEN [m EXCEPT ![p] = v] ELSE m

Insert(m, p, v) == IF Fits(m, p) THEN [m EXCEPT ![p] = v] ELSE m

StashPath(p, path, stashed) ==
  /\ \/ /\ stashed = Fits(PENDING_OPEN_PATH, p)
        /\ PENDING_OPEN_PATH' = Insert(PENDING_OPEN_PATH, p, path)
     \/ /\ Lossy /\ ~stashed  \* the path cannot be read
        /\ UNCHANGED PENDING_OPEN_PATH
  /\ UNCHANGED PENDING_FD

StashFd(p, fd, stashed) ==
  /\ stashed = Fits(PENDING_FD, p)
  /\ PENDING_FD' = Insert(PENDING_FD, p, fd)
  /\ UNCHANGED PENDING_OPEN_PATH

(* try_emit's early return: without a record there is no file handling.  As *)
(* for a call that returns before sys_exit is attached.                    *)
DropRecord == Lossy /\ dropped' = TRUE

Enters(t, c, stashed) ==
  /\ Moves(t, "user", "inside", Entered(c, stashed))
  /\ made < MaxCalls
  /\ made' = made + 1
  /\ UNCHANGED <<tgid, fdtab, file_events, files, truth, moved>>

SysEnter(t, c) ==
  \E stashed \in BOOLEAN :
    /\ Enters(t, c, stashed)
    /\ \/ DropRecord /\ ~stashed /\ UNCHANGED <<maps, lost>>
       \/ /\ UNCHANGED dropped
          /\ \/ c.op = "openat" /\ StashPath(tgid[t], c.arg, stashed)
             \/ c.op \in FdOps /\ StashFd(tgid[t], c.arg, stashed)
             \/ c.op = "socket" /\ ~stashed /\ UNCHANGED maps
          /\ lost' = (lost \/ (c.op # "socket" /\ ~stashed))

(* The process is not in the target at the moment: sys_enter returns at    *)
(* once.                                                                   *)
EnterUnseen(t, c) ==
  /\ tgid[t] \in Movable
  /\ Enters(t, c, FALSE)
  /\ UNCHANGED <<maps, dropped, lost>>

-----------------------------------------------------------------------------
(* The kernel carries out the call (external).  Any call can fail.         *)

Fresh(path) == [path |-> path, bytes_read |-> 0, bytes_written |-> 0, closed |-> FALSE]

AddToBoth(row, op, n) ==  \* mutant: a read counts as a write as well
  [row EXCEPT !.bytes_read = @ + n, !.bytes_written = @ + n]

AddTo(row, op, n) ==
  IF op = "read" THEN [row EXCEPT !.bytes_read = @ + n]
                 ELSE [row EXCEPT !.bytes_written = @ + n]

(* The row after a read or write of n bytes on a descriptor.               *)
Credit(row, op, n) == AddTo(IF row = None THEN Fresh(Unknown) ELSE row, op, n)

(* Each is a call c of process p with result r.                            *)
Fails(p, c, r) ==
  /\ r = -1
  /\ UNCHANGED <<fdtab, truth, moved, lost>>

(* A new descriptor is the lowest free one.                                *)
Opens(p, c, r) ==
  LET free == {d \in Fds : fdtab[p][d] = None}
  IN  /\ c.op \in {"openat", "socket"}
      /\ r \in free /\ \A d \in free : r <= d
      /\ fdtab' = [fdtab EXCEPT ![p][r] = IF c.op = "socket" THEN "socket" ELSE c.arg]
      /\ truth' = IF c.op = "openat" /\ c.stashed
                  THEN [truth EXCEPT ![<<p, r>>] = Fresh(c.arg)] ELSE truth
      /\ lost' = (lost \/ c.op = "socket")
      /\ UNCHANGED moved

Transfers(p, c, r) ==
  /\ c.op \in {"read", "write"}
  /\ fdtab[p][c.arg] # None
  /\ r \in 0..1
  /\ moved' = [moved EXCEPT ![p][c.op] = @ + r]
  /\ truth' = IF c.stashed THEN [truth EXCEPT ![<<p, c.arg>>] = Credit(@, c.op, r)]
              ELSE truth
  /\ UNCHANGED <<fdtab, lost>>

(* close frees the descriptor even when it reports an error.               *)
Closes(p, c, r) ==
  /\ c.op = "close"
  /\ fdtab[p][c.arg] # None
  /\ fdtab' = [fdtab EXCEPT ![p][c.arg] = None]
  /\ \/ r = 0 /\ UNCHANGED lost
     \/ Lossy /\ r = -1 /\ lost' = TRUE
  /\ truth' = IF c.stashed /\ truth[<<p, c.arg>>] # None
              THEN [truth EXCEPT ![<<p, c.arg>>].closed = TRUE] ELSE truth
  /\ UNCHANGED moved

Run(t) ==
  /\ \E r \in Fds \cup {-1, 0, 1} :
       /\ Moves(t, "inside", "returning", [call[t] EXCEPT !.ret = r])
       /\ \/ Fails(tgid[t], call[t], r)
          \/ Opens(tgid[t], call[t], r)
          \/ Transfers(tgid[t], call[t], r)
          \/ Closes(tgid[t], call[t], r)
  /\ UNCHANGED <<tgid, maps, file_events, files, made, dropped>>

-----------------------------------------------------------------------------
(* sys_exit.                                                               *)

(* The handler reads its map.  emit_open_result removes in any case, the   *)
(* other two return early when there is no entry.                          *)
SysExit(t) ==
  /\ pc[t] = "returning"
  /\ LET c    == call[t]
         path == PENDING_OPEN_PATH[tgid[t]]
         fd   == PENDING_FD[tgid[t]]
         Looked(v) == Moves(t, "returning", "remove", [c EXCEPT !.got = v])
         Ends      == Moves(t, "returning", "user", None)
     IN  \/ DropRecord /\ Ends
         \/ /\ UNCHANGED dropped
            /\ \/ c.op = "openat" /\ Looked(path)
               \/ c.op \in FdOps /\ fd # None /\ Looked(fd)
               \/ c.op \in FdOps /\ fd = None /\ Ends
               \/ c.op = "socket" /\ Ends
  /\ UNCHANGED <<tgid, fdtab, maps, file_events, files, history, lost>>

(* The process is not in the target at the moment: sys_exit returns at     *)
(* once, and leaves what sys_enter stashed.                                *)
ExitUnseen(t) ==
  /\ tgid[t] \in Movable
  /\ Moves(t, "returning", "user", None)
  /\ dropped' = (dropped \/ call[t].stashed)
  /\ UNCHANGED <<tgid, fdtab, maps, file_events, files, history, lost>>

AnyResult(op, r) == TRUE  \* mutant: a failed call is reported as well

Succeeded(op, r) == IF op = "close" THEN r = 0 ELSE r >= 0

KeepStash(m, p) == m  \* mutant: the entry is left in the map

Unstash(m, p) == [m EXCEPT ![p] = None]

(* It removes the entry, and stops if there was none or the call failed.   *)
Remove(t) ==
  /\ pc[t] = "remove"
  /\ LET c == call[t]
         report == c.got # None /\ Succeeded(c.op, c.ret)
     IN  /\ Moves(t, "remove", IF report THEN "emit" ELSE "user", c)
         /\ \/ /\ c.op = "openat"
               /\ PENDING_OPEN_PATH' = Unstash(PENDING_OPEN_PATH, tgid[t])
               /\ UNCHANGED PENDING_FD
            \/ /\ c.op \in FdOps
               /\ PENDING_FD' = Unstash(PENDING_FD, tgid[t])
               /\ UNCHANGED PENDING_OPEN_PATH
  /\ UNCHANGED <<tgid, fdtab, file_events, files, history, dropped, lost>>

(* The path of an open is the stashed one, its descriptor the result; the  *)
(* descriptor of the others is the stashed one, the bytes the result.      *)
Event(p, c) ==
  [kind  |-> c.op, pid |-> p,
   fd    |-> IF c.op = "openat" THEN c.ret ELSE c.got,
   bytes |-> IF c.op \in {"read", "write"} THEN c.ret ELSE 0,
   path  |-> IF c.op = "openat" THEN c.got ELSE None]

(* FILE_EVENTS.output.                                                     *)
Emit(t) ==
  /\ Moves(t, "emit", "user", None)
  /\ \/ /\ Len(file_events) < RingCap
        /\ file_events' = Append(file_events, Event(tgid[t], call[t]))
        /\ UNCHANGED lost
     \/ /\ Len(file_events) = RingCap
        /\ lost' = TRUE
        /\ UNCHANGED file_events
  /\ UNCHANGED <<tgid, fdtab, maps, files, history, dropped>>

-----------------------------------------------------------------------------
(* One turn of drain_file_events' loop.                                    *)

OpenKeepsBytes(row, e) ==  \* mutant: entry().or_insert instead of insert
  IF e.kind = "openat" /\ row # None THEN [row EXCEPT !.path = e.path]
  ELSE IF e.kind = "openat" THEN Fresh(e.path)
  ELSE IF e.kind = "close" THEN IF row = None THEN None ELSE [row EXCEPT !.closed = TRUE]
  ELSE Credit(row, e.kind, e.bytes)

After(row, e) ==
  CASE e.kind = "openat" -> Fresh(e.path)
    [] e.kind = "close"  -> IF row = None THEN None ELSE [row EXCEPT !.closed = TRUE]
    [] OTHER             -> Credit(row, e.kind, e.bytes)

DrainFile ==
  /\ file_events # <<>>
  /\ LET e == Head(file_events)
     IN  files' = [files EXCEPT ![<<e.pid, e.fd>>] = After(@, e)]
  /\ file_events' = Tail(file_events)
  /\ UNCHANGED <<tgid, pc, call, fdtab, maps, history, dropped, lost>>

-----------------------------------------------------------------------------
Next ==
  \/ \E t \in Threads : \/ \E c \in Calls : SysEnter(t, c) \/ EnterUnseen(t, c)
                        \/ Run(t)
                        \/ SysExit(t) \/ ExitUnseen(t)
                        \/ Remove(t)
                        \/ Emit(t)
  \/ DrainFile

Spec == Init /\ [][Next]_vars

-----------------------------------------------------------------------------
(* Properties.                                                             *)

Alone(t) == \A u \in Threads : tgid[u] = tgid[t] => u = t

(* An event of a process with one thread carries the path or descriptor of *)
(* the very call that returned, also when a PENDING map is full, a path    *)
(* cannot be read, or FILE_EVENTS overflows: those lose events, they never *)
(* pair a result with another call's argument.  A stash that no sys_exit   *)
(* consumed is still there for a later call, but only for one whose own    *)
(* argument was not stashed: every insert replaces it.                     *)
EmitsOwnCall ==
  \A t \in Threads :
    Alone(t) /\ pc[t] = "emit" /\ (~dropped \/ call[t].stashed) =>
      call[t].got = call[t].arg

(* While nothing is lost (a descriptor that openat did not make is), the   *)
(* Files table has what the calls of a process with one thread did,        *)
(* whenever that thread is in user mode and the ring is drained.           *)
PanelMatchesTruth ==
  ~dropped /\ ~lost /\ file_events = <<>> =>
    \A t \in Threads, fd \in Fds :
      Alone(t) /\ pc[t] = "user" => files[<<tgid[t], fd>>] = truth[<<tgid[t], fd>>]

Between(t, ops) ==
  /\ pc[t] \in {"inside", "returning", "remove"}
  /\ call[t].op \in ops /\ call[t].stashed

(* Although the get and the remove of sys_exit are two steps and threads   *)
(* of a process share one entry, no entry outlives the calls it can be     *)
(* for, as long as every sys_exit got past EVENTS.output.                  *)
NoStaleStash ==
  ~dropped => \A p \in Tgids :
    /\ PENDING_OPEN_PATH[p] # None =>
         \E t \in Threads : tgid[t] = p /\ Between(t, {"openat"})
    /\ PENDING_FD[p] # None =>
         \E t \in Threads : tgid[t] = p /\ Between(t, FdOps)

Shown(p, field) ==
  SumFunction([d \in Fds |-> IF files[<<p, d>>] = None THEN 0 ELSE files[<<p, d>>][field]])

(* However the threads of a process mix up each other's descriptors and    *)
(* whatever is lost, the volumes shown for a process never exceed the      *)
(* bytes its calls moved.                                                  *)
VolumeNeverOverstated ==
  \A p \in Tgids : /\ Shown(p, "bytes_read") <= moved[p].read
                   /\ Shown(p, "bytes_written") <= moved[p].write

(* PENDING_OPEN_PATH's comment: "safe under the same one pending op per    *)
(* tgid simplification".                                                   *)
SafeForThreads ==
  ~dropped => \A t \in Threads : pc[t] = "emit" /\ call[t].stashed => call[t].got = call[t].arg

=============================================================================
