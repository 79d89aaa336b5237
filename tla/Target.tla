------------------------------- MODULE Target -------------------------------
(***************************************************************************)
(* FR1 and FR9.1: how peekbeam turns --pid, --container or --pod into the  *)
(* one entry of PID_FILTER or CGROUP_FILTER (main.rs, container.rs,        *)
(* pod.rs), whom matches_target then accepts, and FR5.2, FR5.3: whom the   *)
(* readers behind the Memory panel count (mem_stats.rs).                   *)
(*                                                                         *)
(* Every question put to the host is a step, and the host goes on between  *)
(* them: processes fork, exit and have their ids used again, the container *)
(* stops and is started anew.  Docker starts the same container again, so  *)
(* that its cgroup has the path of the one before and a new inode; the     *)
(* kubelet replaces it by another container.  Of the sums that the readers *)
(* make, the model keeps who is in them.                                   *)
(***************************************************************************)
EXTENDS Naturals, FiniteSets

CONSTANTS
  Modes,    \* what the arguments name: "pid", "container", "pod"
  Ids,      \* process and thread ids
  MaxRuns,  \* bound: how often the container is started
  None      \* no task, no id

ASSUME TargetAssumption ==
  /\ Modes \subseteq {"pid", "container", "pod"}
  /\ MaxRuns \in Nat
  /\ None \notin Ids /\ None \notin [leader : Ids, cgroup : [run : Nat, sub : BOOLEAN]]

VARIABLES
  mode,
  (* external: the host *)
  tasks,          \* which task has each id
  run,            \* how often the container was started
  main,           \* the pid that the runtime reports for it, None for 0
  up,             \* its cgroup exists
  nested,         \* and so does a cgroup below, made by the container itself
  delegated,      \* the memory controller is delegated to cgroups
  (* peekbeam *)
  stage,          \* how far resolution is
  ref,            \* the container that is named, by the user or by kubectl
  pid, path, cgroup_id,
  PID_FILTER, CGROUP_FILTER,
  reader, pass,   \* where mem_stats::read or read_faults is
  todo,           \* the pids whose /proc entries it has yet to read
  found,          \* those it has counted
  report,         \* its result
  (* history *)
  held,           \* {pid} while the task lives that had this id when peekbeam
                  \* was told it
  raced,          \* that task was gone when its cgroup was read
  stay            \* the target's processes that have lived since the reader began

host    == <<tasks, run, main, up, nested, delegated>>
answers == <<ref, pid, path, cgroup_id, raced>>
filters == <<PID_FILTER, CGROUP_FILTER>>
reading == <<reader, pass, todo, found, report>>
vars    == <<mode, host, stage, answers, filters, reading, held, stay>>

-----------------------------------------------------------------------------
(* A cgroup is identified by its inode: Host stands for all outside the    *)
(* container, the others belong to one run of it.  sub: the nested one.    *)
Cgroups == [run : 0..MaxRuns, sub : BOOLEAN]

Host == [run |-> 0, sub |-> FALSE]

(* Which container a run is a run of; 0: none.                             *)
Box(r) == IF r = 0 THEN 0 ELSE IF mode = "pod" THEN r ELSE 1

Paths == [box : 0..(MaxRuns + 1), sub : BOOLEAN]

PathOf(c) == [box |-> Box(c.run), sub |-> c.sub]

Task == [leader : Ids, cgroup : Cgroups]

Alive == {i \in Ids : tasks[i] # None}

Processes == {i \in Alive : tasks[i].leader = i}

Stages == {"resolve", "inspect", "cgroup", "stat", "fill", "live", "failed"}

TypeOK ==
  /\ mode \in Modes
  /\ tasks \in [Ids -> Task \cup {None}]
  /\ run \in 0..MaxRuns /\ main \in Ids \cup {None}
  /\ up \in BOOLEAN /\ nested \in BOOLEAN /\ delegated \in BOOLEAN
  /\ stage \in Stages
  /\ ref \in 0..(MaxRuns + 1) /\ pid \in Ids \cup {None}
  /\ path \in Paths /\ cgroup_id \in Cgroups
  /\ PID_FILTER \subseteq Ids /\ CGROUP_FILTER \subseteq Cgroups
  /\ reader \in {"idle", "current", "stat", "procs", "each", "between"}
  /\ pass \in {"memory", "faults"}
  /\ todo \subseteq Ids /\ found \subseteq Ids \ todo
  /\ report \in {"none", "cgroup", "proc", "err"}
  /\ held \subseteq {pid} /\ held \subseteq Alive
  /\ raced \in BOOLEAN
  /\ stay \subseteq Alive

(* One process runs on the host; --container names the container there is  *)
(* or will be.                                                             *)
Init ==
  /\ mode \in Modes
  /\ \E i \in Ids : tasks = [j \in Ids |-> IF j = i THEN [leader |-> i, cgroup |-> Host]
                                           ELSE None]
  /\ run = 0 /\ main = None /\ up = FALSE /\ nested = FALSE
  /\ delegated \in BOOLEAN
  /\ stage = "resolve" /\ ref = 1
  /\ pid = None /\ path = PathOf(Host) /\ cgroup_id = Host
  /\ PID_FILTER = {} /\ CGROUP_FILTER = {}
  /\ reader = "idle" /\ pass = "memory" /\ todo = {} /\ found = {}
  /\ report = "none"
  /\ held = {} /\ raced = FALSE /\ stay = {}

-----------------------------------------------------------------------------
(* The host.                                                               *)

(* A process or thread p makes a thread, or a process with an id of its    *)
(* own; either is in the cgroup of p.                                      *)
Clone(p, i) ==
  /\ p \in Alive /\ i \notin Alive
  /\ \E l \in {i, tasks[p].leader} :
       tasks' = [tasks EXCEPT ![i] = [leader |-> l, cgroup |-> tasks[p].cgroup]]
  /\ UNCHANGED <<mode, run, main, up, nested, delegated, stage, answers, filters,
                 reading, held, stay>>

InRun(i) == i \in Alive /\ run # 0 /\ tasks[i].cgroup.run = run

(* A thread ends alone, a process with its threads, and the container's    *)
(* first process with all of the container.                                *)
EndsWith(i) ==
  IF i = main /\ InRun(i) THEN {j \in Alive : InRun(j)}
  ELSE IF i \in Processes THEN {j \in Alive : tasks[j].leader = i} ELSE {i}

Exit(i) ==
  /\ i \in Alive
  /\ tasks' = [j \in Ids |-> IF j \in EndsWith(i) THEN None ELSE tasks[j]]
  /\ held' = held \ EndsWith(i)
  /\ stay' = stay \ EndsWith(i)
  /\ UNCHANGED <<mode, run, main, up, nested, delegated, stage, answers, filters, reading>>

(* The runtime starts the container...                                     *)
StartContainer(i) ==
  /\ ~up /\ run < MaxRuns /\ i \notin Alive
  /\ run' = run + 1 /\ main' = i /\ up' = TRUE
  /\ tasks' = [tasks EXCEPT ![i] = [leader |-> i, cgroup |-> [run |-> run + 1, sub |-> FALSE]]]
  /\ UNCHANGED <<mode, nested, delegated, stage, answers, filters, reading, held, stay>>

(* ... and in time notices that it has ended.                              *)
NoticeEnd ==
  /\ up /\ \A i \in Alive : ~InRun(i)
  /\ main' = None /\ up' = FALSE /\ nested' = FALSE
  /\ UNCHANGED <<mode, tasks, run, delegated, stage, answers, filters, reading, held, stay>>

(* A process of the container is moved to a cgroup below the container's.  *)
Nest(p) ==
  /\ p \in Processes /\ InRun(p)
  /\ tasks' = [i \in Ids |-> IF i \in Alive /\ tasks[i].leader = p
                             THEN [tasks[i] EXCEPT !.cgroup.sub = TRUE] ELSE tasks[i]]
  /\ nested' = TRUE
  /\ UNCHANGED <<mode, run, main, up, delegated, stage, answers, filters, reading, held, stay>>

HostStep ==
  \/ \E p, i \in Ids : Clone(p, i)
  \/ \E i \in Ids : Exit(i) \/ StartContainer(i) \/ Nest(i)
  \/ NoticeEnd

(* The directories of cgroupfs.                                            *)
Exists(c) == c = Host \/ (up /\ c.run = run /\ (c.sub => nested))

-----------------------------------------------------------------------------
(* Resolution.  Each command may be missing and each read may fail.        *)

Resolves(from, to) ==
  /\ stage = from /\ stage' = to
  /\ UNCHANGED <<mode, host, filters, reading, stay>>

(* check_target_exists: /proc has an entry for each thread, too.           *)
CheckTargetExists ==
  /\ mode = "pid" /\ Resolves("resolve", "fill")
  /\ \E i \in Alive : pid' = i /\ held' = {i}
  /\ UNCHANGED <<ref, path, cgroup_id, raced>>

(* kubectl get pod: the status of the pod may be out of date.              *)
GetPod ==
  /\ mode = "pod" /\ Resolves("resolve", "inspect")
  /\ ref' \in 1..run
  /\ UNCHANGED <<pid, path, cgroup_id, raced, held>>

(* docker inspect or crictl inspect; pid 0 is refused.                     *)
Inspect ==
  /\ \/ mode = "container" /\ Resolves("resolve", "cgroup")
     \/ mode = "pod" /\ Resolves("inspect", "cgroup")
  /\ main # None /\ Box(run) = ref
  /\ pid' = main
  /\ held' = {i \in {main} : InRun(i)}
  /\ UNCHANGED <<ref, path, cgroup_id, raced>>

SelfCgroup(i) == PathOf(Host)  \* mutant: /proc/self/cgroup

ProcCgroup(i) == PathOf(tasks[i].cgroup)

CgroupPathForPid ==
  /\ Resolves("cgroup", "stat")
  /\ pid \in Alive /\ path' = ProcCgroup(pid)
  /\ raced' = (held = {})
  /\ UNCHANGED <<ref, pid, cgroup_id, held>>

RootInode(c) == c = Host  \* mutant: the directory above

Inode(c) == PathOf(c) = path

StatCgroup ==
  /\ Resolves("stat", "fill")
  /\ \E c \in Cgroups : Exists(c) /\ Inode(c) /\ cgroup_id' = c
  /\ UNCHANGED <<ref, pid, path, raced, held>>

Fill ==
  /\ stage = "fill" /\ stage' = "live"
  /\ IF mode = "pid" THEN PID_FILTER' = {pid} /\ UNCHANGED CGROUP_FILTER
                     ELSE CGROUP_FILTER' = {cgroup_id} /\ UNCHANGED PID_FILTER
  /\ UNCHANGED <<mode, host, answers, reading, held, stay>>

ResolutionFails ==
  /\ stage \notin {"live", "failed"} /\ stage' = "failed"
  /\ UNCHANGED <<mode, host, answers, filters, reading, held, stay>>

MatchesPid(i) == i \in Alive /\ tasks[i].leader = pid  \* mutant: not the cgroup

(* Whether the programs act on an event in the context of task i.          *)
matches_target(i) ==
  i \in Alive /\ (tasks[i].leader \in PID_FILTER \/ tasks[i].cgroup \in CGROUP_FILTER)

-----------------------------------------------------------------------------
(* The Memory panel: read, then read_faults.                               *)

(* The target's processes as its path names them.                          *)
Below ==
  IF mode = "pid" THEN {i \in Alive : i = pid}
  ELSE {i \in Processes : LET p == ProcCgroup(i)
                          IN  p.box = path.box /\ (path.sub => p.sub)}

Begins(p, first) ==
  /\ pass' = p /\ found' = {} /\ report' = "none" /\ stay' = Below
  /\ IF mode = "pid" THEN reader' = "each" /\ todo' = {pid}
                     ELSE reader' = first /\ todo' = {}
  /\ UNCHANGED <<mode, host, stage, answers, filters, held>>

BeginMemory == stage = "live" /\ reader = "idle" /\ Begins("memory", "current")

BeginFaults == reader = "between" /\ Begins("faults", "procs")

Ends(result) ==
  /\ report' = result
  /\ reader' = IF pass = "memory" THEN "between" ELSE "idle"

ReaderStep == UNCHANGED <<mode, host, stage, answers, filters, pass, held, stay>>

NoFallback == Ends("err") /\ UNCHANGED <<todo, found>>  \* mutant: no or_else

Fallback == reader' = "procs" /\ UNCHANGED <<todo, found, report>>

PathExists == \E c \in Cgroups : Exists(c) /\ PathOf(c) = path

(* read_cgroup: the root has no memory.current, nor has a cgroup without   *)
(* the controller; and the cgroup may go between its two reads.            *)
Readable == delegated /\ path # PathOf(Host) /\ PathExists

ReadCurrent ==
  /\ reader = "current"
  /\ IF Readable THEN reader' = "stat" /\ UNCHANGED <<todo, found, report>>
                 ELSE Fallback
  /\ ReaderStep

ReadStat ==
  /\ reader = "stat"
  /\ IF Readable THEN Ends("cgroup") /\ UNCHANGED <<todo, found>> ELSE Fallback
  /\ ReaderStep

ReadProcs ==
  /\ reader = "procs"
  /\ IF PathExists
     THEN /\ todo' = {i \in Processes : ProcCgroup(i) = path}
          /\ reader' = "each" /\ UNCHANGED report
     ELSE Ends("err") /\ UNCHANGED todo
  /\ UNCHANGED found
  /\ ReaderStep

Again(i) == todo  \* mutant: no next pid

StopsAt(i) == IF i \in Alive THEN todo \ {i} ELSE {}  \* mutant: break

Rest(i) == todo \ {i}

(* /proc/<pid>/status or stat of one of them, if there still is one.       *)
ReadProcess(i) ==
  /\ reader = "each" /\ i \in todo
  /\ found' = IF i \in Alive THEN found \cup {i} ELSE found
  /\ todo' = Rest(i)
  /\ UNCHANGED <<reader, report>>
  /\ ReaderStep

Finish ==
  /\ reader = "each" /\ todo = {}
  /\ Ends(IF found = {} THEN "err" ELSE "proc")
  /\ UNCHANGED <<todo, found>>
  /\ ReaderStep

-----------------------------------------------------------------------------
Resolve == \/ CheckTargetExists \/ GetPod \/ Inspect \/ CgroupPathForPid
           \/ StatCgroup \/ Fill \/ ResolutionFails

Read == \/ BeginMemory \/ BeginFaults \/ ReadCurrent \/ ReadStat \/ ReadProcs
        \/ (\E i \in Ids : ReadProcess(i)) \/ Finish

Next == HostStep \/ Resolve \/ Read

Spec == Init /\ [][Next]_vars

-----------------------------------------------------------------------------
(* Properties.                                                             *)

(* FR2.2: whatever stops, restarts and reuses ids while --container or     *)
(* --pod is resolved and afterwards, only tasks of the container that was  *)
(* named are traced, unless the pid that the runtime had reported was      *)
(* another's when its cgroup was read.                                     *)
TracesOnlyTarget ==
  mode # "pid" /\ ~raced =>
    \A i \in Ids : matches_target(i) => Box(tasks[i].cgroup.run) = ref

(* CGROUP_FILTER covers "every process in the container (init, workers,    *)
(* ...), not just a single PID": whoever forks or moves, a run of the      *)
(* container is traced as a whole, except those of it that are in another  *)
(* of its cgroups than the one resolved, or, after a restart, not at all.  *)
AllOrNothing ==
  mode # "pid" /\ ~raced =>
    LET tracked == {i \in Ids : matches_target(i)}
    IN  tracked \in {{}, {i \in Ids : InRun(i) /\ tasks[i].cgroup.sub = cgroup_id.sub}}

(* The Memory panel and the others are about the same processes: one that  *)
(* the readers are about to count, and that has not taken over another's   *)
(* id, is one whose events are accepted.  Except: after a restart the path *)
(* is the new cgroup's and the filter holds the old inode; a process that  *)
(* has just moved to a nested cgroup; --pid with the id of a thread.       *)
ReadsWhatItTraces ==
  /\ reader = "each"
  /\ IF mode = "pid" THEN pid \in Processes ELSE Exists(cgroup_id) /\ ~nested
  => \A i \in todo \cap stay : matches_target(i)

(* cgroup.procs and the entries of /proc are not one snapshot, yet every   *)
(* process that lived in the target throughout the reading is in the sum,  *)
(* as long as the container has no nested cgroup: cgroup.procs lists the   *)
(* members of one directory.                                               *)
StayersCounted == report = "proc" /\ ~nested => stay \subseteq found

(* "no live processes found (target may have exited)" is said only when no *)
(* process of the target lived throughout the reading, as long as the      *)
(* container has no nested cgroup into which all of them may have gone.    *)
UnavailableMeansGone == report = "err" /\ ~nested => stay = {}

(* check_target_exists: "fail clearly and immediately if the target PID    *)
(* can't be resolved"; FR1.4: "no silent no-op".  As long as what was      *)
(* named lives, its events are traced.                                     *)
NoSilentNoOp ==
  stage = "live" /\ mode = "pid" /\ held = {pid} => matches_target(pid)

=============================================================================
