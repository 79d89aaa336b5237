# peekbeam, specified

TLA+ modules, TLC configurations and TLAPS proofs for peekbeam, the tool that
shows what one process, container or pod does in the kernel. The modules are
written from the code under `src/`; line numbers below refer to it.

## 1. The system

peekbeam is one user-space process and six eBPF programs.

| Component | State | Operations | Code |
|---|---|---|---|
| Target and filter | `PID_FILTER`, `CGROUP_FILTER` (one entry each) | resolve a pid, container or pod; `matches_target` | `main.rs` 180-251, `container.rs`, `pod.rs`, ebpf 16-25, 86-95 |
| System calls (FR2) | ring `EVENTS`, map `pending`, `StatsMap` | `sys_enter`, `sys_exit`, `drain_syscalls` | ebpf 97-136, `main.rs` 288-318 |
| Files (FR4) | `PENDING_OPEN_PATH`, `PENDING_FD`, ring `FILE_EVENTS`, `FilesMap` | `handle_file_syscall` and what it calls, `drain_file_events` | ebpf 138-241, `main.rs` 355-393 |
| Network (FR3) | `TRACKED_SOCKS`, ring `NET_EVENTS`, `ConnMap` | `inet_sock_set_state`, `tcp_retransmit_skb`, `drain_net_events` | ebpf 243-348, `main.rs` 320-353 |
| Kernel allocations (FR5.1) | ring `MEM_EVENTS`, `MemEventStats` | `kmalloc`, `kfree`, `drain_mem_events` | ebpf 350-402, `main.rs` 395-415 |
| Memory readers (FR5.2, 5.3) | none (each read starts anew) | `read`, `read_faults` | `mem_stats.rs` |
| Process life | attached programs, handlers, `shutdown` flag, terminal, timers | startup, `signals::install`, `poll_events`, the two front-end loops | `main.rs` 202-446, `signals.rs`, `headless.rs`, `tui.rs` 44-161 |
| Rendering | none | summary, tables, drawing | `summary.rs`, `*_table.rs`, `tui.rs` 163 ff. |

How they interact. The programs run in the kernel, on whichever CPU the event
happens on, in parallel with each other and with peekbeam. They share maps with
each other, and each ring with exactly one drain closure. `sys_enter` and
`sys_exit` first output to `EVENTS` and only if that succeeded go on to the file
handling. The closures own the user-space tables and run only from
`poll_events`, in a fixed order, on peekbeam's one thread; the front ends read
the tables between polls. Signals set a flag that the front ends look at once
per turn.

What is hard, and what must hold:

- *Concurrency.* Two threads of one process share the pending entries, because these
  are keyed by tgid. Sharing may lose time or bytes; it must not invent any, and must
  leave no entry behind for a later call.
- *Order.* A record's time stamp and its place in the ring come from two separate
  steps, and two CPUs may take them in different orders.
- *Limits.* The rings and the in-kernel maps drop what does not fit, one record or
  entry at a time. What remains must still be the target's, and must not be combined
  with the wrong call or socket.
- *Attach window.* Six programs are attached one after the other while the target
  runs: calls that straddle the window have half of their records.
- *Membership.* `matches_target` reads the current cgroup at every event. A process
  that is moved out of the container's cgroup, or back, inside a call has half of that
  call's records, and leaves an entry or a stash behind.
- *Identity.* Descriptors, socket addresses and ports are reused.
- *Context.* Network and allocation events also fire in softirq, on top of a task that
  has nothing to do with them.
- *A host that goes on.* Resolution asks the runtime, `/proc` and cgroupfs one after
  the other, the memory readers ask cgroupfs and one `/proc` entry per process;
  meanwhile processes fork and exit, ids are used again, containers restart. Traced
  and counted must be the processes of the named target, and all of them.
- *Life.* Signals, keys, failures and the end of the window come at any moment. The
  terminal must be restored, the final summary printed once, and the process must end.

`PROJECT.json` lists these, line by line, under `hazards`.

## 2. Modules

**SyscallTrace** models FR2. `pc`, `nr`, `stamp` describe each thread: in user
mode, in `sys_enter` with the record stamped (`try_emit` up to line 127), inside
the call, in `sys_exit` likewise. `SysEnter`/`EmitEnter` and `SysExit`/`EmitExit`
are the two halves of a handler, `DrainEnter`/`DrainExit` one turn of
`drain_syscalls`. `EnterUnseen` and `ExitUnseen` are the early return of line 115, for
a process outside the target and for one that is moved in and out (`Movable`), and
with `AttachExit` the attach window; `ThreadGone` is a call without a `sys_exit`.
`done`, `since`, `own`, `dropped` and `lost` are history: what really happened, for
the properties to compare with. Its system calls are those the file handling ignores.
Assumed of the kernel: `sys_exit` reports the number that `sys_enter` did. The one
exception, `rt_sigreturn`, which exits as number -1, is left out.

**SyscallLedger** is the abstract specification of the Syscalls panel: per call
number, how many calls completed and how long they took, exact until a record is
lost. `SyscallTrace!Ledger` is the refinement mapping: a thread's call is one
whose entry was seen (`LedgerCall`), the backlog are the Exit records in the ring
that belong to such calls (`Backlog`).

**FileTrace** (`tgid` maps each thread to its process) models FR4 for the calls
`openat`, `read`, `write`, `close` (the code treats `openat2`, `pread64` and
`pwrite64` the same way) and, as `socket`, any other call that makes a descriptor. One
step is one access to shared state: `SysEnter` stashes, `Run` is the kernel's work,
`SysExit` reads the PENDING map, `Remove` removes, `Emit` outputs, `DrainFile` is one
turn of the drain loop. The kernel's descriptor table `fdtab` is external and hands
out the lowest free descriptor. `DropRecord` is the `?` of `try_emit`, `EnterUnseen`
and `ExitUnseen` its early return for a process that is moved out of the target at the
moment. `dropped` says that a stash may have been left behind, `stashed` that a call's
own argument is in the map. `Alone(t)`: no other thread of `t`'s process makes calls.

**NetTrace** models FR3. A tracepoint fires under the socket's lock, so each program
is one step: `NetState` (with `Reports`, all from the insert on) and `NetRetransmit`.
`sock` is the kernel's table of sockets by address, with owner, key and state;
`NewSocket` and `FreeSocket` reuse addresses, `Becomes` picks the local port of a
connecting socket after its first change has been traced. The current task is the
owner, or any member of `SoftirqTasks`; the history `taken` keeps the sockets that were
recognised while it was not the owner, until they are freed. `Movable` is as above:
while its owner is out of the cgroup, a socket that is not tracked yet stays so.

**MemTrace** models FR5.1: two programs attached in order, calls by a process or
by a softirq on top of one, and the three counters. `Sizes` are the values of
`bytes_alloc`, what the allocator set aside. The histories `own` and `charged` go by
who really made each call, whatever the program decided: the target, or a softirq
on top of it. Nothing is kept per task, so that a process that is moved is one
inside the target before and another one outside it afterwards.

**Target** models FR1, FR9.1 and the memory readers of FR5.2 and FR5.3. The host is
`tasks` (which task has each id; a thread's `leader` is the tgid), the runs of one
container, its cgroup and one nested below. A cgroup has an inode (`Cgroups`) and a
path (`PathOf`), and docker's next run has the same path and another inode.
`CheckTargetExists`, `GetPod`, `Inspect`, `CgroupPathForPid`, `StatCgroup` and `Fill`
are the questions of `main.rs`, `pod.rs` and `container.rs` in their order; each may
fail instead (`ResolutionFails`). `HostStep` comes between any two of them.
`BeginMemory` to `Finish` are `mem_stats::read` and then `read_faults`: the two files
of cgroupfs, the fallback to `cgroup.procs` (`or_else`), one `/proc` entry per step
in any order. Of the sums the model keeps who is in them (`found`). History: `held`
(the task that had the reported id, while it lives), `raced` (it was gone when its
cgroup was read), `stay` (the target's processes that have lived since the read
began).

**Session** models the life of the process. `mode` is the front end the arguments ask
for. `stage` walks through startup (`Prepare`, `Attach` once per program, `Install`),
then `headless::run` (`drain`, `drained`, `show`, `sleep`, `final`) or `tui::run`
(`raw`, `alt`, `terminal`, then `check`, `input`, `drain`, `drained`, `show`, and out
by `unraw`, `unalt`). `Stream` and `Frame` look at the timer, `Show` prints or draws
and sets it anew, and time may pass in between; `times` is the history of these
moments. `NewTerminal` sets `last_draw` one interval back, or to the present where
`checked_sub` fails. `DrainRecord`/`DrainNext` are `poll_events`, record by record,
while `Produce` fills the rings. Every `?` is an action that ends the process or leads
to the restore (`StartupFails`, `SetupFails`, `LoopFails`, `RestoreFails`), a panic in
`println!` is `PrintFails`. The contents of the records are the other modules'.

How the modules compose: the four data paths share no state but the order in which
their programs are attached and their rings drained (Session), and the success of
`EVENTS.output`, which FileTrace takes as a choice (`Lossy`). What they have in common
with Target is `matches_target`. The two filters are filled once, before the first
program is attached, but whom they accept is decided anew at every event, from the
current task's tgid and cgroup: Target says for whom that is so, at each moment; the
modules of the data paths take the processes it is so for as `Target`, and as
`Movable` those of them that go out of the cgroup and come back at any time (with
`--pid` there are none). Each event of a movable process may pass or be turned away.
`MC*` modules give the constants small values. `*Proofs` modules hold theorems;
**SumsAndRings** the lemmas about sums and rings that four of them share.

## 3. Runs

Threads, processes, paths, addresses and calls are model values. Deadlock
checking is off: every instance stops at its bounds (`MaxClock`, `MaxCalls`,
`MaxFires`, `MaxTime`) or when the process has ended.

| Run | Instance | Shows |
|---|---|---|
| SyscallShared | 2 threads of 1 process, a call that returns and `exit`, ring of 3, 8 clock readings, 2 of them in the attach window | sharing an entry never overstates time; nothing is left in `pending` while nothing is missed; whatever is dropped, the measured spans never add up to more than the elapsed time of each thread |
| SyscallSingle | 1 thread in each of 2 target processes, one of which is moved, ring of 3, 6 readings | an Exit never takes another call's start; the bound on wrong spans holds for the process that is moved; SyscallTrace implements SyscallLedger |
| Files | 2 threads, of one process or of two, that are moved, 2 paths, 2 descriptors (one open at attach), PENDING maps of 1 entry, ring of 1, 3 calls, failures | an event of a thread that is alone never mixes two calls, also with a stash left behind; no stash outlives its calls while nothing is dropped; no byte is counted twice, although bytes are shown for the other thread's descriptor; the Files table is what the calls did |
| NetTable | 3 addresses, 2 ports, `TRACKED_SOCKS` of 2, ring of 2, 4 firings, an owner that is moved and a foreign one, softirqs on top of both | only the target's sockets are tracked, and those first seen in a softirq on top of it; the table is exact |
| MemCounts | a target and a foreign process, softirqs on top of both, ring of 2, 6 calls | counters exact without loss, never too high but for the softirqs on top of the target |
| Target | 3 ids, pid, container and pod, 2 runs of the container, threads, a nested cgroup | only the named target is traced, all that is in the cgroup resolved; the readers are about the same processes and leave out none that stays; "unavailable" is true |
| Session | all three front ends, 6 programs, 4 rings of 1, interval 2, window 2, 5 ticks | terminal restored; one final summary, in time, complete; consecutive summaries and frames at least an interval apart; a signal or the window's end stops it |

Why the bounds suffice. The hazards need two actors and one reused name: two threads
for a shared entry, two processes for a full PENDING map, two descriptors for one that
is taken for the other, three sockets for a full `TRACKED_SOCKS`, a second socket for
a reused address or port, two calls in a row for a stale start. The rings are small,
so that they are found empty, partly filled and full. The number of calls or firings
covers a complete life (of a descriptor open at attach: use, close, open again;
connect, close, connect again with the same port), or two calls that race and a later
one that could meet what they left. For Target three ids are enough for a
process of the container, one outside it that takes over its id, and a thread or
child; two runs for a restart between any two steps. Five ticks with an interval of 2
are enough for a poll that takes longer than the interval and two summaries after it.

Five runs find a statement of the code's comments or of its readme violated by the
code:

| Run | Statement | What happens |
|---|---|---|
| FileThreads | ebpf 38-41, one entry per tgid "is safe" | two threads of a process are inside two calls: a result is reported with the other's argument |
| NetFullRing | ebpf 27, "already confirmed to belong to the target" | with `NET_EVENTS` full, line 293 returns before the removal at 296: the freed socket stays tracked, and a foreign socket gets its address |
| NetNoPort | common 45-46, TCP_CLOSE "marks the connection's end" | the row made for SYN_SENT has local port 0, a key of which no TCP_CLOSE record comes |
| TargetThreadId | `main.rs` 180, readme 46, "no silent no-op" | the id of a thread passes `check_target_exists`, and is compared with tgids from then on: the target lives and nothing of it is traced |
| SessionRawLeft | `tui.rs` 42, "on every exit path" | the two `?` at 58 and 60 return in raw mode |

Other properties hold only with a proviso, and the proviso is where the code
parts from what is said of it:

- `~lost` in `TimeNeverOverstated`: after a dropped Exit and a dropped Enter the time
  between two calls is counted as time spent in one (readme 51, "total time spent").
  `Movable = {}` there, and `~lost` in `PendingIsInFlight` (which counts a call seen
  only at its beginning as lost): so does an Enter whose Exit happened outside the
  cgroup. `WallClockBound` is what remains.
- `Matched` in `MeasuresOwnCall`: after a dropped record, or for a process that is
  moved, an Exit may find the start of an earlier call. What the attach window leaves
  in `pending` is never found: the property holds across it.
- `Alone` in `EmitsOwnCall` and `PanelMatchesTruth`: one entry per tgid (FileThreads).
- `~raced` in `TracesOnlyTarget` and `AllOrNothing`: `container.rs` 58 reads the cgroup
  of whatever process has the reported pid; when the container's has ended and another
  has its id by then, that one's cgroup is traced. `mode # "pid"` for the same reason:
  a later owner of the id given with `--pid` is traced.
- `cgroup_id.sub` in `AllOrNothing`: ebpf 22-23 says "covering every process in the
  container", but cgroup ids are compared for equality, and a process in a cgroup below
  the container's has another one and is not traced. `~nested` in `StayersCounted` and
  `UnavailableMeansGone`: nor is it counted, as `cgroup.procs` lists one directory.
- `Exists(cgroup_id)` in `ReadsWhatItTraces`: after `docker restart` the Memory panel
  follows the path to the new run, the programs keep the inode of the old one.
- `OneThreadEach` in `MeasuresOwnCall` and `LedgerSpec`: `main.rs` 289-290 says the
  key keeps another thread "of the same target" from replacing an entry; pid is the
  tgid, so threads of one process do replace each other's.
- `~dropped` in `NoStaleStash`: ebpf 37 says a path is "consumed at `sys_exit`"; not
  when `EVENTS` is full then, because line 129 returns before line 133, nor when the
  process is outside the cgroup then. `~dropped \/ call[t].stashed` in `EmitsOwnCall`:
  what was left behind is overwritten by the next call's own argument, but if that
  cannot be stashed (its record is dropped, its path not read), it is taken for it.
- `~lost`, for sockets that take a descriptor, in `PanelMatchesTruth`: their bytes are
  added to the closed file that had it (`main.rs` 386).
- `taken` in `OnlyOwnSockets`: ebpf 31-32 says that a socket is learnt to be the target's
  "while in the target's own context", but line 258 looks at the current task in softirq
  as well, and a foreign socket whose state changes on top of a target task is tracked.
  The property leaves out those sockets, as long as they live, and no others.
  `~lost` there: NetFullRing. `charged` in
  `NeverOverstated` and `CountsAreExact`: in softirq the current task is not the one
  the memory is for (readme 67), and its calls are counted on top of the target's own.
- `<>[]~active` in `SignalEnds` and `WindowEnds`: `poll_events` returns only when it
  has found each ring empty, so a target that produces as fast as peekbeam drains
  keeps it from the flag and from the clock (`signals.rs` 1, `headless.rs` 1).

Three disagreements were met that are about text and need no run: `headless.rs` 4-5
and `main.rs` 62 promise one JSON line per interval, `summary.rs` 173 prints several
(`to_string_pretty`); `tui.rs` 462 calls the sum of `bytes_alloc`, what the
allocator set aside, the "total requested size"; `file_table.rs` 8 never marks a cut
path, because the length it compares with 64 does not count the terminator.

**Fairness** is stated only in `Session!FairSpec`: weak fairness of peekbeam's
own steps (the scheduler runs it, and its waits, `thread::sleep` and
`event::poll`, have time limits) and of time. Nothing is assumed of the target,
of the user or of whoever sends signals.

## 4. Proofs

Every safety property that a passing run checks, and the refinement, is also
proved, for every value of the constants that satisfies the named assumptions.

- **SumsAndRings** is about data, not about peekbeam. `LeadsTo(step, q, s, t)` says
  that draining the records of `q` leads from table `s` to table `t`: there is a path
  of tables, one per record. `LeadsToAppend` (an output extends the path at one end)
  and `LeadsToDrain` (a drain shortens it at the other) turn "once the ring is
  drained, the table will be ..." into an inductive invariant; `LeadsToGrows` compares
  the table now with the one then. `SumUpdate`, `SumMonotone` and their like are about
  `SumFunction` of the community modules. Both need induction, over a finite set and
  along a sequence. The library's induction theorems take an operator, which the
  installed provers cannot instantiate; the proofs take a minimal counterexample
  instead (`MinimalSubset`, `LeastNumber`, from well-foundedness of the strict subset
  order), which is a fact about sets.
- **SyscallTraceProofs**: `TypeCorrect`, `PendingCorrect`, `OwnCallCorrect`. The two
  properties speak of a drained ring or of its head, and every drain step exposes the
  next record, so they are not inductive. The ring is a FIFO: what `pending` will hold
  when a record is reached is decided by `pending` now and the records before it.
  `Holds` says what that is. `StartsInFlight` says that what will be left when the
  ring is drained is absent or the entry stamp of a call in flight; `ExitsFindStart`
  that each Exit record in the ring, and each that a thread has yet to output, will
  find its own call's start, or nothing where the entry was not seen, as long as the
  process's calls are `Matched`.
- **SyscallTotalsProofs**, on top of these. `LedgerCorrect`: with `OneThreadEach`,
  `Init` maps to the ledger's, and every step to a step of it or a stutter. An entry
  is a call that begins, an Exit that is output a call that completes (its duration
  joins the backlog), a drained Exit a report; `BacklogAppend` and `BacklogDrain` say
  so of the recursive `Backlog`, and `ExitsFindStart` that the reported duration is
  the completed one. `TotalsCorrect`, for processes that are not moved: the invariant
  (`Accounted`) is about the totals as they will be once the ring is drained.
  `Covered` bounds them by the time of completed calls plus, for each call in flight,
  a share from its start up to some `used[t]`, and every pending start is `Backed` by
  a thread that is still in the call and has nothing used after that start. When an
  Exit reports a span that began with another thread's start, the two threads swap
  what is used of them. `SpansBounded`: `Spread` charges each reported unit of time to
  a pair of a moment and a target's thread, none twice; a pending start leaves `Room`:
  at each moment since then some thread of the process is free.
- **NetTraceProofs**: `TypeCorrect`, `OwnSocketsCorrect`, `TableCorrect`. A tracked
  address must be known to be live *and not closed*, else `FreeSocket` and `NewSocket`
  could put a foreign socket under it; that a closed socket is never tracked is what
  the order in `try_net_state` (output, then remove) gives, as long as the output
  succeeds, for the sockets that are `taken` as well. For `TableCorrect` the table as
  it will be `Matches` the sockets at every step, not only when the ring is empty; that
  no two open sockets have the same key (`KeysDiffer`) is an invariant of its own.
- **SessionProofs**: `RestoredCorrect`, `FinalCorrect`, `FreshCorrect`, and from a
  second invariant, `JInv`, `TypeCorrect` and `RateCorrect`. That consecutive
  summaries are an interval apart is not inductive: `Spaced` adds that the timer is
  not before the last of them, and that an interval since the timer has passed when
  the next is about to be shown. The first invariant, `IInv`, says in which stages the
  terminal can be raw or alternate (`TerminalHeld`), which stages belong to which
  front end (`OwnStages`), that a final summary that is due has its reason
  (`SummaryDue`), and that within `poll_events` the rings already passed hold nothing
  from before the poll, though they may hold newer records (`StaleAhead`).
- **FileTraceProofs**: `TypeCorrect`, `OwnCallCorrect`, `NoStaleCorrect`,
  `VolumeCorrect`, `PanelCorrect`. `Shape` says what a call carries in each phase;
  `Own`, for threads that are alone, that the process's entries are those of the call
  in flight. `NoStaleStash` is inductive with these; two threads may be between `get`
  and `remove` of one entry, and each is the justification of what the other left.
  `Own` holds whatever other processes do, which may fill the maps so that an insert
  fails. It does not speak of leftovers: `OwnCallCorrect` rests besides on `Kept`,
  that an argument which was stashed for the call in flight stays in its map until
  `sys_exit` has read it, whatever an earlier call left there. `VolumeCorrect` needs
  none of that: the bytes moved cover what the rows show, plus the records in the
  ring, plus what calls that are back from the kernel still owe (`Booked`); a step
  passes bytes on or drops them. `PanelCorrect`: the table as it will be has the rows
  of the calls (`Follows`), but for the one record that is `Due` of a call between the
  kernel and its output, and that record will carry the call's own argument
  (`Stashed`). `FollowedWithin` is the frame: a step of one process changes nothing of
  what is said of a thread alone in another.
- **TargetProofs**: `TypeCorrect`, `OnlyTargetCorrect`, `AllOrNothingCorrect`,
  `ReadsTracedCorrect`, `StayersCorrect`, `UnavailableCorrect`. `Places` (a task's
  cgroup exists) and `Together` (a thread is where its process is) are about the host,
  `Filters` and `Named` follow what resolution found out from step to step, `Stayers`
  and `Counted` follow the reader: a process that has lived since it began has been
  counted, or is still to be read.
- **MemTraceProofs**: `TypeCorrect`, `NeverOverstatedCorrect`, `ExactCorrect`. A call
  passes the filter just when it is counted in `own` or in `charged` (`Matched` is
  their sum). The counters as they will be once the ring is drained are at most
  `Matched` (`Towards`), and all of it when nothing was lost; on the way there they
  only grow.

Each `*Proofs` module states its `IInv`, proves that the initial states satisfy
it and that every action preserves it, and takes the theorems from there; an
invariant that needs `IInv` (`Accounted`, `Apportioned`, `Covered`, `Followed`, `Kept`)
is proved inductive relative to it.

Assumed are only the named assumptions of each module: limits and bounds are
natural numbers (or positive); sets of threads and of descriptors are finite where
a sum ranges over them; `None` and `Unknown` are no members of the sets they are
added to, the records of the tables and maps included. The last one matters: if
the mark of an absent row were a possible row, or an absent count a number,
`TableMatchesSockets` would be false. In the code it is the `None` of an `Option`.
`LedgerCorrect` has `OneThreadEach` as its hypothesis, as the run SyscallSingle
satisfies it; without it the refinement does not hold (section 3).

Only model-checked: `SignalEnds` and `WindowEnds` (fairness and ENABLED are out of
the prover's reach), and the counterexamples of the five runs that expect one.

## 5. What is not modelled

- *Torn values.* A PENDING value read by one CPU while another overwrites it in place
  could mix two paths. Values are atomic here.
- *Decoding.* Offsets in the tracepoint records, `read_unaligned`, and the length
  checks of the drain loops: the rings carry one record type each.
- *Width.* Counters are 64 bit and count nanoseconds, calls and bytes; they do not
  wrap in any run of the program, and are natural numbers here.
- *Text.* Paths, addresses, names, JSON and plain text; the screen.
- *Kernel.* The verifier, loading, `RLIMIT_MEMLOCK`: startup steps that may fail.
- *Answers of the runtime.* The formats of `docker inspect`, `crictl` and `kubectl`,
  and the choice of the docker socket: a question is a step that is answered or fails.
- *Figures of the Memory panel.* Which processes are counted is modelled, the values
  are not. `memory.current` and `memory.stat`, read across a restart under the same
  path, may be of two runs.
- *Rendering.* The summary, the tables and the panels are functions of the tables they
  are given, and Tab and `s` change only which of them is drawn and in what order;
  when a summary or a frame is made, and from what, is in Session.

## 6. Plan

Written so far, in the order of the plan: SyscallTrace with its ledger, FileTrace,
NetTrace, MemTrace, Session and Target, each with its invariants, and the proofs of
all safety properties and of the refinement. What is left:

1. An abstract specification of the Files panel for threads that are alone, as
   SyscallLedger is one of the Syscalls panel, with `Followed` as the mapping's
   invariant.
2. What the liveness properties rest on and can be stated as invariants: that a raised
   flag is not taken back, and which turns of the loops look at it.
