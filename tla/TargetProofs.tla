---------------------------- MODULE TargetProofs ----------------------------
(***************************************************************************)
(* Theorems about Target, for any ids, any number of runs and each of the  *)
(* three modes.                                                            *)
(***************************************************************************)
EXTENDS Target, TLAPS

(* Every task is in a cgroup that exists: those of earlier runs are gone.  *)
Places ==
  /\ up => run # 0
  /\ \A i \in Alive : Exists(tasks[i].cgroup)

(* A thread is where its process is.                                       *)
Together ==
  \A i \in Alive : /\ tasks[i].leader \in Processes
                   /\ tasks[tasks[i].leader].cgroup = tasks[i].cgroup

(* What resolution has found out, and what Fill has written.               *)
Filters ==
  /\ mode = "pid" => stage \in {"resolve", "fill", "live", "failed"}
  /\ mode = "pid" /\ stage \in {"fill", "live"} => pid \in Ids
  /\ mode # "pid" /\ stage \in {"fill", "live"} => PathOf(cgroup_id) = path
  /\ PID_FILTER = IF mode = "pid" /\ stage = "live" THEN {pid} ELSE {}
  /\ CGROUP_FILTER = IF mode # "pid" /\ stage = "live" THEN {cgroup_id} ELSE {}

(* The container that was named is the one whose pid, path and inode were  *)
(* found, unless the pid had changed hands.                                *)
Named ==
  mode # "pid" =>
    /\ ref # 0
    /\ stage = "cgroup" /\ held # {} => Box(tasks[pid].cgroup.run) = ref
    /\ stage = "stat" /\ ~raced => path.box = ref
    /\ stage \in {"fill", "live"} /\ ~raced => Box(cgroup_id.run) = ref

(* A process of the container that may be in a nested cgroup.              *)
Moved(i) == nested /\ tasks[i].cgroup.run # 0

(* The processes that have lived since the reader began are the target's,  *)
(* and have been or will be counted, but for those that may have moved.    *)
Stayers ==
  /\ reader # "idle" => stage = "live"
  /\ reader \in {"current", "stat", "procs"} => mode # "pid"
  /\ reader # "idle" /\ mode # "pid" =>
       \A i \in stay : /\ tasks[i].leader = i
                       /\ Box(tasks[i].cgroup.run) = path.box
                       /\ path.sub => tasks[i].cgroup.sub
  /\ reader = "each" /\ mode = "pid" => todo \subseteq {pid}
  /\ reader = "each" /\ mode # "pid" =>
       \A i \in todo \cap stay : PathOf(tasks[i].cgroup) = path \/ Moved(i)

Counted ==
  /\ reader \in {"current", "stat", "procs", "each"} => report = "none"
  /\ reader \in {"current", "stat", "procs"} => found = {}
  /\ report = "proc" => todo = {}
  /\ reader = "each" \/ report = "proc" =>
       \A i \in stay : i \in found \cup todo \/ Moved(i)
  /\ report = "err" => \A i \in stay : Moved(i)

(* The inductive invariant.                                                *)
IInv == TypeOK /\ Places /\ Together /\ Filters /\ Named /\ Stayers /\ Counted

-----------------------------------------------------------------------------
LEMMA BoxFacts ==
  ASSUME NEW r \in 0..MaxRuns
  PROVE  Box(r) \in 0..(MaxRuns + 1) /\ (Box(r) = 0 <=> r = 0)
BY TargetAssumption DEF Box

LEMMA PathOfFacts ==
  ASSUME NEW c \in Cgroups
  PROVE  PathOf(c) \in Paths /\ PathOf(c).box = Box(c.run) /\ PathOf(c).sub = c.sub
<1>1. c.run \in 0..MaxRuns /\ c.sub \in BOOLEAN
  BY DEF Cgroups
<1> QED
  BY <1>1, BoxFacts DEF PathOf, Paths

(* Of the cgroups that exist, none nested, no two have the same path.      *)
LEMMA PathsDiffer ==
  ASSUME Places, run \in 0..MaxRuns, ~nested, NEW c \in Cgroups, NEW d \in Cgroups,
         Exists(c), Exists(d), PathOf(c) = PathOf(d)
  PROVE  c = d
<1>1. Box(c.run) = Box(d.run)
  BY PathOfFacts
<1>2. c.run \in 0..MaxRuns /\ d.run \in 0..MaxRuns
  BY DEF Cgroups
<1>3. c.run = 0 <=> d.run = 0
  BY <1>1, <1>2, BoxFacts
<1>4. CASE c = Host /\ d = Host
  BY <1>4
<1>5. CASE c # Host /\ d # Host
  <2>1. c.run = d.run /\ ~c.sub /\ ~d.sub
    BY <1>5 DEF Exists
  <2> QED
    BY <2>1 DEF Cgroups
<1>6. CASE c = Host /\ d # Host
  BY <1>3, <1>6 DEF Exists, Places, Host
<1>7. CASE c # Host /\ d = Host
  BY <1>3, <1>7 DEF Exists, Places, Host
<1> QED
  BY <1>4, <1>5, <1>6, <1>7

LEMMA InitIInv == Init => IInv
<1> SUFFICES ASSUME Init PROVE IInv
  OBVIOUS
<1>1. Host \in Cgroups /\ Host.run = 0 /\ 0 \in 0..MaxRuns
  BY TargetAssumption DEF Host, Cgroups
<1>2. PICK i \in Ids : tasks = [j \in Ids |-> IF j = i THEN [leader |-> i, cgroup |-> Host]
                                              ELSE None]
  BY DEF Init
<1>3. tasks \in [Ids -> Task \cup {None}]
  BY <1>1, <1>2 DEF Task
<1>4. path \in Paths /\ path = PathOf(Host)
  BY <1>1, PathOfFacts DEF Init
<1>5. ref \in 0..(MaxRuns + 1) /\ ref = 1
  BY TargetAssumption DEF Init
<1>6. TypeOK
  BY <1>1, <1>3, <1>4, <1>5 DEF Init, TypeOK, Stages
<1>7. Places
  BY <1>2 DEF Init, Places, Alive, Exists
<1>8. Together
  BY <1>2 DEF Together, Alive, Processes
<1>9. Filters /\ Named /\ Stayers /\ Counted
  BY <1>5 DEF Init, Filters, Named, Stayers, Counted
<1> QED
  BY <1>6, <1>7, <1>8, <1>9 DEF IInv

-----------------------------------------------------------------------------
(* The host.  Its steps leave all of peekbeam alone, and a process that    *)
(* lives on is what it was, but that it may move to the nested cgroup.     *)
LEMMA HostKeeps ==
  ASSUME IInv, TypeOK', Places', Together',
         UNCHANGED <<mode, stage, ref, pid, path, cgroup_id, raced>>,
         UNCHANGED <<PID_FILTER, CGROUP_FILTER, reader, pass, todo, found, report>>,
         held' \subseteq held, stay' \subseteq stay,
         \A i \in stay' \cup held' :
           /\ tasks'[i].leader = tasks[i].leader
           /\ tasks'[i].cgroup.run = tasks[i].cgroup.run
           /\ \/ tasks'[i].cgroup.sub = tasks[i].cgroup.sub
              \/ tasks'[i].cgroup.sub = TRUE /\ nested' /\ tasks[i].cgroup.run # 0,
         nested /\ ~nested' => \A i \in stay' : tasks[i].cgroup.run = 0
  PROVE  IInv'
<1>1. \A r : Box(r)' = Box(r)
  BY DEF Box
<1>2. Filters'
  BY <1>1 DEF IInv, Filters, PathOf
<1>3. Named'
  <2>1. held' # {} => pid \in held' /\ held # {}
    BY DEF IInv, TypeOK
  <2> QED
    BY <1>1, <2>1 DEF IInv, Named
<1>4. \A i \in stay' : Moved(i) => Moved(i)'
  BY DEF Moved
<1>5. Stayers'
  <2>1. \A i \in stay' : PathOf(tasks[i].cgroup) = path
                           => PathOf(tasks[i].cgroup)' = path \/ Moved(i)'
    BY <1>1 DEF Moved, PathOf
  <2> QED
    BY <1>1, <1>4, <2>1 DEF IInv, Stayers
<1>6. Counted'
  BY <1>4 DEF IInv, Counted
<1> QED
  BY <1>2, <1>3, <1>5, <1>6 DEF IInv

(* What the host's steps leave unchanged, variable by variable.            *)
Undisturbed ==
  /\ UNCHANGED <<mode, delegated, stage, ref, pid, path, cgroup_id, raced>>
  /\ UNCHANGED <<PID_FILTER, CGROUP_FILTER, reader, pass, todo, found, report>>

LEMMA CloneIInv == ASSUME IInv, NEW p \in Ids, NEW i \in Ids, Clone(p, i) PROVE IInv'
<1>1. /\ Undisturbed /\ UNCHANGED <<run, main, up, nested, held, stay>>
      /\ p \in Alive /\ i \notin Alive
  BY DEF Clone, Undisturbed, answers, filters, reading
<1>2. PICK l \in {i, tasks[p].leader} :
        tasks' = [tasks EXCEPT ![i] = [leader |-> l, cgroup |-> tasks[p].cgroup]]
  BY DEF Clone
<1>3. tasks \in [Ids -> Task \cup {None}] /\ tasks[p] \in Task
  BY <1>1 DEF IInv, TypeOK, Alive
<1>4. [leader |-> l, cgroup |-> tasks[p].cgroup] \in Task
  BY <1>3 DEF Task
<1>5. /\ tasks' \in [Ids -> Task \cup {None}]
      /\ tasks'[i].cgroup = tasks[p].cgroup
      /\ \A j \in Ids : j # i => tasks'[j] = tasks[j]
  BY <1>2, <1>3, <1>4
<1>6. Alive \subseteq Alive' /\ Alive' \subseteq Alive \cup {i}
  BY <1>1, <1>5 DEF Alive
<1>7. TypeOK'
  BY <1>1, <1>5, <1>6 DEF IInv, TypeOK, Undisturbed
<1>8. Places'
  BY <1>1, <1>5, <1>6 DEF IInv, Places, Exists, Alive
<1>9. \A j \in stay' \cup held' : tasks'[j] = tasks[j]
  BY <1>1, <1>5 DEF IInv, TypeOK, Alive
<1>10. Together'
  <2>1. tasks'[i].leader \in {i, tasks[p].leader}
    BY <1>2, <1>3
  <2>2. tasks[p].leader \in Processes /\ tasks[tasks[p].leader].cgroup = tasks[p].cgroup
    BY <1>1 DEF IInv, Together
  <2>3. tasks'[i] # None
    BY <1>2, <1>3, <1>4, TargetAssumption DEF Task, Cgroups
  <2>4. \A j \in Processes : j \in Processes' /\ tasks'[j] = tasks[j]
    BY <1>1, <1>5, <1>6 DEF Processes, Alive
  <2>5. tasks'[i].leader \in Processes' /\ tasks'[tasks'[i].leader].cgroup = tasks'[i].cgroup
    BY <1>5, <2>1, <2>2, <2>3, <2>4 DEF Processes, Alive
  <2> QED
    BY <1>1, <1>5, <1>6, <2>4, <2>5 DEF IInv, Together, Alive
<1> QED
  BY <1>1, <1>7, <1>8, <1>9, <1>10, HostKeeps DEF Undisturbed

LEMMA ExitIInv == ASSUME IInv, NEW i \in Ids, Exit(i) PROVE IInv'
<1>1. /\ Undisturbed /\ UNCHANGED <<run, main, up, nested>>
      /\ held' = held \ EndsWith(i) /\ stay' = stay \ EndsWith(i)
      /\ tasks' = [j \in Ids |-> IF j \in EndsWith(i) THEN None ELSE tasks[j]]
  BY DEF Exit, Undisturbed, answers, filters, reading
<1>2. /\ tasks' \in [Ids -> Task \cup {None}]
      /\ \A j \in Ids : j \notin EndsWith(i) => tasks'[j] = tasks[j]
      /\ \A j \in Ids : j \in EndsWith(i) => tasks'[j] = None
  BY <1>1 DEF IInv, TypeOK
<1>3. Alive' = Alive \ EndsWith(i)
  BY <1>2 DEF Alive
<1>4. held \subseteq Alive /\ stay \subseteq Alive
  BY DEF IInv, TypeOK
<1>8. Together'
  <2> SUFFICES ASSUME NEW j \in Alive, j \notin EndsWith(i)
               PROVE  tasks[j].leader \notin EndsWith(i)
    BY <1>2, <1>3 DEF IInv, Together, Processes, Alive
  <2>1. tasks[j].leader \in Processes /\ tasks[tasks[j].leader].cgroup = tasks[j].cgroup
    BY DEF IInv, Together
  <2> QED
    BY <2>1 DEF EndsWith, InRun, Processes
<1>5. TypeOK'
  BY <1>1, <1>2, <1>3, <1>4 DEF IInv, TypeOK, Undisturbed
<1>6. Places'
  BY <1>1, <1>2, <1>3 DEF IInv, Places, Exists, Alive
<1>7. \A j \in stay' \cup held' : tasks'[j] = tasks[j]
  BY <1>1, <1>2, <1>4 DEF Alive
<1> QED
  BY <1>1, <1>5, <1>6, <1>7, <1>8, HostKeeps DEF Undisturbed

LEMMA StartContainerIInv ==
  ASSUME IInv, NEW i \in Ids, StartContainer(i) PROVE IInv'
<1> DEFINE new == [leader |-> i, cgroup |-> [run |-> run + 1, sub |-> FALSE]]
<1>1. /\ Undisturbed /\ UNCHANGED <<nested, held, stay>>
      /\ ~up /\ up' = TRUE /\ run < MaxRuns /\ run' = run + 1 /\ main' = i
      /\ i \notin Alive /\ tasks' = [tasks EXCEPT ![i] = new]
  BY DEF StartContainer, Undisturbed, answers, filters, reading
<1>2. run + 1 \in 0..MaxRuns /\ run + 1 # 0
  BY <1>1, TargetAssumption DEF IInv, TypeOK
<1>3. new \in Task /\ new # None /\ new.cgroup = [run |-> run + 1, sub |-> FALSE]
  <2>1. [run |-> run + 1, sub |-> FALSE] \in Cgroups
    BY <1>2 DEF Cgroups
  <2>2. new \in Task
    BY <2>1 DEF Task
  <2>3. new \in [leader : Ids, cgroup : [run : Nat, sub : BOOLEAN]]
    BY <1>2
  <2> QED
    BY <2>2, <2>3, TargetAssumption
<1>4. /\ tasks' \in [Ids -> Task \cup {None}] /\ tasks'[i] = new
      /\ \A j \in Ids : j # i => tasks'[j] = tasks[j]
  BY <1>1, <1>3 DEF IInv, TypeOK
<1> HIDE DEF new
<1>5. Alive' = Alive \cup {i}
  BY <1>3, <1>4 DEF Alive
<1>6. TypeOK'
  BY <1>1, <1>2, <1>4, <1>5 DEF IInv, TypeOK, Undisturbed
<1>7. Places'
  <2>1. \A j \in Alive : tasks'[j].cgroup = Host
    BY <1>1, <1>4 DEF IInv, Places, Exists, Alive
  <2>2. tasks'[i].cgroup.run = run' /\ ~tasks'[i].cgroup.sub
    BY <1>1, <1>3, <1>4
  <2> QED
    BY <1>1, <1>2, <1>5, <2>1, <2>2 DEF Places, Exists
<1>8. \A j \in stay' \cup held' : tasks'[j] = tasks[j]
  BY <1>1, <1>4 DEF IInv, TypeOK, Alive
<1>9. Together'
  <2>1. \A j \in Processes : j \in Processes' /\ tasks'[j] = tasks[j]
    BY <1>1, <1>4, <1>5 DEF Processes, Alive
  <2>2. tasks'[i].leader = i
    BY <1>4 DEF new
  <2> QED
    BY <1>1, <1>4, <1>5, <2>1, <2>2 DEF IInv, Together, Processes, Alive
<1> QED
  BY <1>1, <1>6, <1>7, <1>8, <1>9, HostKeeps DEF Undisturbed

(* None of the container is left, so that a process that lives was not in  *)
(* the nested cgroup.                                                      *)
LEMMA NoticeEndIInv == ASSUME IInv, NoticeEnd PROVE IInv'
<1>1. /\ Undisturbed /\ UNCHANGED <<tasks, run, held, stay>>
      /\ up /\ main' = None /\ up' = FALSE /\ nested' = FALSE
      /\ \A i \in Alive : ~InRun(i)
  BY DEF NoticeEnd, Undisturbed, answers, filters, reading
<1>2. \A i \in Alive : tasks[i].cgroup = Host
  BY <1>1 DEF IInv, Places, Exists, InRun
<1>3. Alive' = Alive
  BY <1>1 DEF Alive
<1>4. TypeOK'
  BY <1>1, <1>3 DEF IInv, TypeOK, Undisturbed
<1>5. Places'
  BY <1>1, <1>2, <1>3 DEF Places, Exists
<1>6. \A j \in stay' : tasks[j].cgroup.run = 0
  BY <1>1, <1>2 DEF IInv, TypeOK, Host
<1>7. Together'
  BY <1>1, <1>3 DEF IInv, Together, Processes
<1> QED
  BY <1>1, <1>4, <1>5, <1>6, <1>7, HostKeeps DEF Undisturbed

LEMMA NestIInv == ASSUME IInv, NEW p \in Ids, Nest(p) PROVE IInv'
<1>1. /\ Undisturbed /\ UNCHANGED <<run, main, up, held, stay>>
      /\ nested' = TRUE /\ p \in Processes /\ InRun(p)
      /\ tasks' = [i \in Ids |-> IF i \in Alive /\ tasks[i].leader = p
                                 THEN [tasks[i] EXCEPT !.cgroup.sub = TRUE] ELSE tasks[i]]
  BY DEF Nest, Undisturbed, answers, filters, reading
<1>2. ASSUME NEW i \in Ids
      PROVE  /\ tasks'[i] \in Task \cup {None} /\ (tasks'[i] = None <=> tasks[i] = None)
             /\ tasks[i] # None =>
                  /\ tasks'[i].leader = tasks[i].leader
                  /\ tasks'[i].cgroup.run = tasks[i].cgroup.run
                  /\ IF tasks[i].leader = p THEN tasks'[i].cgroup.sub = TRUE
                                             ELSE tasks'[i] = tasks[i]
  <2>1. CASE i \in Alive /\ tasks[i].leader = p
    <3>1. tasks[i] \in Task /\ tasks'[i] = [tasks[i] EXCEPT !.cgroup.sub = TRUE]
      BY <1>1, <2>1 DEF IInv, TypeOK, Alive
    <3>2. tasks'[i] \in Task
      BY <3>1 DEF Task, Cgroups
    <3>3. tasks'[i] # None
      BY <3>2, TargetAssumption DEF Task, Cgroups
    <3> QED
      BY <2>1, <3>1, <3>2, <3>3 DEF Task, Cgroups, Alive
  <2>2. CASE ~(i \in Alive /\ tasks[i].leader = p)
    BY <1>1, <2>2 DEF IInv, TypeOK, Alive
  <2> QED
    BY <2>1, <2>2
<1>3. Alive' = Alive
  BY <1>2 DEF Alive
<1>4. tasks' \in [Ids -> Task \cup {None}]
  <2>1. tasks' = [i \in Ids |-> tasks'[i]]
    BY <1>1
  <2> QED
    BY <1>2, <2>1
<1>5. TypeOK'
  BY <1>1, <1>3, <1>4 DEF IInv, TypeOK, Undisturbed
<1>6. ASSUME NEW i \in Alive, tasks[i].leader = p
      PROVE  tasks[i].cgroup.run = run /\ run # 0 /\ up
  <2>1. tasks[i].cgroup = tasks[p].cgroup /\ tasks[p].cgroup.run = run /\ run # 0
    BY <1>1, <1>6 DEF IInv, Together, InRun
  <2>2. Exists(tasks[i].cgroup) /\ tasks[i].cgroup # Host
    BY <2>1 DEF IInv, Places, Host
  <2> QED
    BY <2>1, <2>2 DEF Exists
<1>7. Places'
  <2> SUFFICES ASSUME NEW i \in Alive PROVE Exists(tasks[i].cgroup)'
    BY <1>1, <1>3 DEF IInv, Places
  <2>1. i \in Ids /\ tasks[i] # None /\ Exists(tasks[i].cgroup)
    BY DEF IInv, Places, Alive
  <2>2. CASE tasks[i].leader = p
    BY <1>1, <1>2, <1>6, <2>1, <2>2 DEF Exists
  <2>3. CASE tasks[i].leader # p
    BY <1>1, <1>2, <2>1, <2>3 DEF Exists
  <2> QED
    BY <2>2, <2>3
<1>8. Together'
  <2> SUFFICES ASSUME NEW i \in Alive
               PROVE  /\ tasks'[i].leader \in Processes'
                      /\ tasks'[tasks'[i].leader].cgroup = tasks'[i].cgroup
    BY <1>3 DEF Together
  <2> DEFINE l == tasks[i].leader
  <2>1. l \in Processes /\ l \in Alive /\ tasks[l].leader = l /\ tasks[l].cgroup = tasks[i].cgroup
    BY DEF IInv, Together, Processes
  <2>2. i \in Ids /\ l \in Ids /\ tasks[i] # None /\ tasks[l] # None
    BY <2>1 DEF Alive
  <2>3. tasks'[i].leader = l /\ tasks'[l].leader = l
    BY <1>2, <2>1, <2>2
  <2>4. tasks'[l].cgroup = tasks'[i].cgroup
    <3>1. CASE l = p
      <4>1. tasks[l] \in Task /\ tasks[i] \in Task
        BY <2>2 DEF IInv, TypeOK
      <4>2. /\ tasks'[l] = [tasks[l] EXCEPT !.cgroup.sub = TRUE]
            /\ tasks'[i] = [tasks[i] EXCEPT !.cgroup.sub = TRUE]
        BY <1>1, <2>1, <2>2, <3>1
      <4> QED
        BY <2>1, <4>1, <4>2 DEF Task, Cgroups
    <3>2. CASE l # p
      BY <1>2, <2>1, <2>2, <3>2
    <3> QED
      BY <3>1, <3>2
  <2> QED
    BY <1>3, <2>1, <2>3, <2>4 DEF Processes
<1>9. \A i \in stay' \cup held' :
         /\ tasks'[i].leader = tasks[i].leader
         /\ tasks'[i].cgroup.run = tasks[i].cgroup.run
         /\ \/ tasks'[i].cgroup.sub = tasks[i].cgroup.sub
            \/ tasks'[i].cgroup.sub = TRUE /\ nested' /\ tasks[i].cgroup.run # 0
  <2> SUFFICES ASSUME NEW i \in Alive
               PROVE  /\ tasks'[i].leader = tasks[i].leader
                      /\ tasks'[i].cgroup.run = tasks[i].cgroup.run
                      /\ \/ tasks'[i].cgroup.sub = tasks[i].cgroup.sub
                         \/ tasks'[i].cgroup.sub = TRUE /\ nested' /\ tasks[i].cgroup.run # 0
    BY <1>1 DEF IInv, TypeOK
  <2>1. i \in Ids /\ tasks[i] # None
    BY DEF Alive
  <2> QED
    BY <1>1, <1>2, <1>6, <2>1
<1> QED
  BY <1>1, <1>5, <1>7, <1>8, <1>9, HostKeeps DEF Undisturbed

-----------------------------------------------------------------------------
(* Resolution changes neither the host nor the readers, which are idle.    *)
LEMMA ResolveKeeps ==
  ASSUME IInv, TypeOK', Filters', Named', stage # "live",
         UNCHANGED <<mode, tasks, run, main, up, nested, delegated>>,
         UNCHANGED <<reader, pass, todo, found, report, stay>>
  PROVE  IInv'
<1>1. Places'
  BY DEF IInv, Places, Exists, Alive
<1>2. Together'
  BY DEF IInv, Together, Processes, Alive
<1>3. Stayers'
  BY DEF IInv, Stayers
<1>4. Counted'
  BY DEF IInv, Counted, Moved
<1> QED
  BY <1>1, <1>2, <1>3, <1>4 DEF IInv

LEMMA CheckTargetExistsIInv == ASSUME IInv, CheckTargetExists PROVE IInv'
<1>1. /\ UNCHANGED <<mode, tasks, run, main, up, nested, delegated>>
      /\ UNCHANGED <<reader, pass, todo, found, report, stay>>
      /\ UNCHANGED <<PID_FILTER, CGROUP_FILTER, ref, path, cgroup_id, raced>>
      /\ mode = "pid" /\ stage = "resolve" /\ stage' = "fill"
  BY DEF CheckTargetExists, Resolves, host, filters, reading
<1>2. PICK i \in Alive : pid' = i /\ held' = {i}
  BY DEF CheckTargetExists
<1>3. i \in Ids /\ Alive' = Alive
  BY <1>1 DEF Alive
<1>4. TypeOK'
  BY <1>1, <1>2, <1>3 DEF IInv, TypeOK, Stages
<1>5. Filters' /\ Named'
  BY <1>1, <1>2, <1>3 DEF IInv, Filters, Named
<1> QED
  BY <1>1, <1>4, <1>5, ResolveKeeps

LEMMA GetPodIInv == ASSUME IInv, GetPod PROVE IInv'
<1>1. /\ UNCHANGED <<mode, tasks, run, main, up, nested, delegated>>
      /\ UNCHANGED <<reader, pass, todo, found, report, stay>>
      /\ UNCHANGED <<PID_FILTER, CGROUP_FILTER, pid, path, cgroup_id, raced, held>>
      /\ mode = "pod" /\ stage = "resolve" /\ stage' = "inspect" /\ ref' \in 1..run
  BY DEF GetPod, Resolves, host, filters, reading
<1>2. ref' \in 0..(MaxRuns + 1) /\ ref' # 0
  BY <1>1, TargetAssumption DEF IInv, TypeOK
<1>3. Alive' = Alive
  BY <1>1 DEF Alive
<1>4. TypeOK'
  BY <1>1, <1>2, <1>3 DEF IInv, TypeOK, Stages
<1>5. Filters' /\ Named'
  BY <1>1, <1>2 DEF IInv, Filters, Named
<1> QED
  BY <1>1, <1>4, <1>5, ResolveKeeps

LEMMA InspectIInv == ASSUME IInv, Inspect PROVE IInv'
<1>1. /\ UNCHANGED <<mode, tasks, run, main, up, nested, delegated>>
      /\ UNCHANGED <<reader, pass, todo, found, report, stay>>
      /\ UNCHANGED <<PID_FILTER, CGROUP_FILTER, ref, path, cgroup_id, raced>>
      /\ mode # "pid" /\ stage \in {"resolve", "inspect"} /\ stage' = "cgroup"
      /\ main # None /\ Box(run) = ref /\ pid' = main
      /\ held' = {i \in {main} : InRun(i)}
  BY DEF Inspect, Resolves, host, filters, reading
<1>2. Alive' = Alive
  BY <1>1 DEF Alive
<1>3. held' \subseteq {main} /\ \A i \in held' : i \in Alive /\ tasks[i].cgroup.run = run
  BY <1>1 DEF InRun
<1>4. TypeOK'
  BY <1>1, <1>2, <1>3 DEF IInv, TypeOK, Stages
<1>5. Filters'
  BY <1>1 DEF IInv, Filters
<1>6. Named'
  <2>1. held' # {} => tasks[main].cgroup.run = run
    BY <1>3
  <2> QED
    BY <1>1, <2>1 DEF IInv, Named, Box
<1> QED
  BY <1>1, <1>4, <1>5, <1>6, ResolveKeeps

LEMMA CgroupPathForPidIInv == ASSUME IInv, CgroupPathForPid PROVE IInv'
<1>1. /\ UNCHANGED <<mode, tasks, run, main, up, nested, delegated>>
      /\ UNCHANGED <<reader, pass, todo, found, report, stay>>
      /\ UNCHANGED <<PID_FILTER, CGROUP_FILTER, ref, pid, cgroup_id, held>>
      /\ stage = "cgroup" /\ stage' = "stat" /\ pid \in Alive
      /\ path' = PathOf(tasks[pid].cgroup) /\ raced' = (held = {})
  BY DEF CgroupPathForPid, ProcCgroup, Resolves, host, filters, reading
<1>2. tasks[pid].cgroup \in Cgroups
  BY <1>1 DEF IInv, TypeOK, Alive, Task
<1>3. path' \in Paths /\ path'.box = Box(tasks[pid].cgroup.run)
  BY <1>1, <1>2, PathOfFacts
<1>4. Alive' = Alive /\ mode # "pid"
  BY <1>1 DEF Alive, IInv, Filters
<1>5. TypeOK'
  BY <1>1, <1>3, <1>4 DEF IInv, TypeOK, Stages
<1>6. Filters'
  BY <1>1, <1>4 DEF IInv, Filters
<1>7. Named'
  BY <1>1, <1>3 DEF IInv, Named
<1> QED
  BY <1>1, <1>5, <1>6, <1>7, ResolveKeeps

LEMMA StatCgroupIInv == ASSUME IInv, StatCgroup PROVE IInv'
<1>1. /\ UNCHANGED <<mode, tasks, run, main, up, nested, delegated>>
      /\ UNCHANGED <<reader, pass, todo, found, report, stay>>
      /\ UNCHANGED <<PID_FILTER, CGROUP_FILTER, ref, pid, path, raced, held>>
      /\ stage = "stat" /\ stage' = "fill"
  BY DEF StatCgroup, Resolves, host, filters, reading
<1>2. cgroup_id' \in Cgroups /\ PathOf(cgroup_id') = path
  BY DEF StatCgroup, Inode
<1>3. Box(cgroup_id'.run) = path.box
  BY <1>2, PathOfFacts
<1>4. Alive' = Alive /\ mode # "pid"
  BY <1>1 DEF Alive, IInv, Filters
<1>5. TypeOK'
  BY <1>1, <1>2, <1>4 DEF IInv, TypeOK, Stages
<1>6. Filters'
  BY <1>1, <1>2, <1>4 DEF IInv, Filters, PathOf, Box
<1>7. Named'
  BY <1>1, <1>3 DEF IInv, Named, Box
<1> QED
  BY <1>1, <1>5, <1>6, <1>7, ResolveKeeps

LEMMA FillIInv == ASSUME IInv, Fill PROVE IInv'
<1>1. /\ UNCHANGED <<mode, tasks, run, main, up, nested, delegated>>
      /\ UNCHANGED <<reader, pass, todo, found, report, stay>>
      /\ UNCHANGED <<ref, pid, path, cgroup_id, raced, held>>
      /\ stage = "fill" /\ stage' = "live"
      /\ PID_FILTER' = IF mode = "pid" THEN {pid} ELSE PID_FILTER
      /\ CGROUP_FILTER' = IF mode = "pid" THEN CGROUP_FILTER ELSE {cgroup_id}
  BY DEF Fill, host, answers, reading
<1>2. Alive' = Alive
  BY <1>1 DEF Alive
<1>3. /\ PID_FILTER = {} /\ CGROUP_FILTER = {} /\ (mode = "pid" => pid \in Ids)
      /\ cgroup_id \in Cgroups
  BY <1>1 DEF IInv, TypeOK, Filters
<1>4. TypeOK'
  BY <1>1, <1>2, <1>3 DEF IInv, TypeOK, Stages
<1>5. Filters'
  BY <1>1, <1>3 DEF IInv, Filters, PathOf, Box
<1>6. Named'
  BY <1>1 DEF IInv, Named, Box
<1> QED
  BY <1>1, <1>4, <1>5, <1>6, ResolveKeeps

LEMMA ResolutionFailsIInv == ASSUME IInv, ResolutionFails PROVE IInv'
<1>1. /\ UNCHANGED <<mode, tasks, run, main, up, nested, delegated>>
      /\ UNCHANGED <<reader, pass, todo, found, report, stay>>
      /\ UNCHANGED <<ref, pid, path, cgroup_id, raced, held, PID_FILTER, CGROUP_FILTER>>
      /\ stage # "live" /\ stage' = "failed"
  BY DEF ResolutionFails, host, answers, filters, reading
<1>2. Alive' = Alive
  BY <1>1 DEF Alive
<1>3. TypeOK'
  BY <1>1, <1>2 DEF IInv, TypeOK, Stages
<1>4. Filters' /\ Named'
  BY <1>1 DEF IInv, Filters, Named
<1> QED
  BY <1>1, <1>3, <1>4, ResolveKeeps

-----------------------------------------------------------------------------
(* The readers change nothing but their own state.                         *)
Aside ==
  /\ UNCHANGED <<mode, tasks, run, main, up, nested, delegated, stage, held>>
  /\ UNCHANGED <<ref, pid, path, cgroup_id, raced, PID_FILTER, CGROUP_FILTER>>

LEMMA ReaderKeeps ==
  ASSUME IInv, Aside, TypeOK', Stayers', Counted'
  PROVE  IInv'
<1>1. Places' /\ Together'
  BY DEF IInv, Aside, Places, Together, Exists, Alive, Processes
<1>2. Filters' /\ Named'
  BY DEF IInv, Aside, Filters, Named, PathOf, Box
<1> QED
  BY <1>1, <1>2 DEF IInv

(* Whoever is below the target's path when a reader begins.                *)
LEMMA BelowFacts ==
  ASSUME IInv
  PROVE  /\ Below \subseteq Alive
         /\ mode = "pid" => Below \subseteq {pid}
         /\ mode # "pid" => \A i \in Below : /\ tasks[i].leader = i
                                             /\ Box(tasks[i].cgroup.run) = path.box
                                             /\ path.sub => tasks[i].cgroup.sub
<1>1. \A i \in Processes : /\ i \in Alive /\ tasks[i].leader = i
                           /\ tasks[i].cgroup \in Cgroups
  BY DEF IInv, TypeOK, Processes, Alive, Task
<1> QED
  BY <1>1, PathOfFacts DEF Below, ProcCgroup

LEMMA BeginsIInv ==
  ASSUME IInv, stage = "live", NEW p \in {"memory", "faults"},
         NEW first \in {"current", "procs"}, Begins(p, first)
  PROVE  IInv'
<1>1. /\ Aside /\ pass' = p /\ found' = {} /\ report' = "none" /\ stay' = Below
      /\ mode = "pid" => reader' = "each" /\ todo' = {pid}
      /\ mode # "pid" => reader' = first /\ todo' = {}
  BY DEF Begins, Aside, host, answers, filters
<1>2. mode = "pid" => pid \in Ids
  BY DEF IInv, Filters
<1>3. Alive' = Alive
  BY <1>1 DEF Aside, Alive
<1>4. TypeOK'
  BY <1>1, <1>2, <1>3, BelowFacts DEF IInv, TypeOK, Aside
<1>5. Stayers'
  BY <1>1, BelowFacts DEF Aside, Stayers, Box
<1>6. Counted'
  BY <1>1, BelowFacts DEF Counted
<1> QED
  BY <1>1, <1>4, <1>5, <1>6, ReaderKeeps

(* The reads of memory.current and memory.stat count no process.           *)
LEMMA ReadCgroupIInv == ASSUME IInv, ReadCurrent \/ ReadStat PROVE IInv'
<1>1. /\ Aside /\ UNCHANGED <<pass, todo, found, stay>>
      /\ reader \in {"current", "stat"}
      /\ \/ reader' \in {"stat", "procs"} /\ report' = report
         \/ reader' \in {"between", "idle"} /\ report' = "cgroup"
  BY DEF ReadCurrent, ReadStat, ReaderStep, Fallback, Ends, Aside, host, answers, filters
<1>2. Alive' = Alive
  BY <1>1 DEF Aside, Alive
<1>3. TypeOK'
  BY <1>1, <1>2 DEF IInv, TypeOK, Aside
<1>4. Stayers'
  BY <1>1 DEF IInv, Stayers, Aside, Box
<1>5. Counted'
  BY <1>1 DEF IInv, Counted
<1> QED
  BY <1>1, <1>3, <1>4, <1>5, ReaderKeeps

(* A process that has lived since the reader began is still in a cgroup    *)
(* with the target's path, unless it may have moved below it.              *)
LEMMA StayerPath ==
  ASSUME IInv, reader # "idle", mode # "pid", NEW i \in stay, ~Moved(i)
  PROVE  /\ i \in Processes /\ tasks[i].cgroup \in Cgroups /\ Exists(tasks[i].cgroup)
         /\ PathOf(tasks[i].cgroup) = path
<1>1. /\ i \in Processes /\ tasks[i].cgroup \in Cgroups /\ Exists(tasks[i].cgroup)
  BY DEF IInv, TypeOK, Stayers, Processes, Alive, Task, Places
<1>2. Box(tasks[i].cgroup.run) = path.box /\ (path.sub => tasks[i].cgroup.sub)
  BY DEF IInv, Stayers
<1>3. ~tasks[i].cgroup.sub
  <2>1. CASE tasks[i].cgroup = Host
    BY <2>1 DEF Host
  <2>2. CASE tasks[i].cgroup # Host
    BY <1>1, <2>2 DEF Exists, Moved, IInv, Places
  <2> QED
    BY <2>1, <2>2
<1>4. path = [box |-> path.box, sub |-> FALSE]
  <2>1. path \in Paths
    BY DEF IInv, TypeOK
  <2> QED
    BY <1>2, <1>3, <2>1 DEF Paths
<1>5. PathOf(tasks[i].cgroup) = [box |-> Box(tasks[i].cgroup.run), sub |-> FALSE]
  BY <1>1, <1>3 DEF PathOf, Cgroups
<1> QED
  BY <1>1, <1>2, <1>4, <1>5

LEMMA ReadProcsIInv == ASSUME IInv, ReadProcs PROVE IInv'
<1>1. Aside /\ UNCHANGED <<pass, found, stay>> /\ reader = "procs"
  BY DEF ReadProcs, ReaderStep, Aside, host, answers, filters
<1>2. Alive' = Alive
  BY <1>1 DEF Aside, Alive
<1>3. report = "none"
  BY <1>1 DEF IInv, Counted
<1>4. \A i : Moved(i)' = Moved(i)
  BY <1>1 DEF Moved, Aside
<1>5. CASE PathExists
  <2>1. /\ todo' = {i \in Processes : PathOf(tasks[i].cgroup) = path}
        /\ reader' = "each" /\ report' = report
    BY <1>5 DEF ReadProcs, ProcCgroup
  <2>2. todo' \subseteq Ids /\ found = {}
    BY <1>1, <2>1 DEF IInv, Counted, Processes, Alive
  <2>3. TypeOK'
    BY <1>1, <1>2, <2>1, <2>2 DEF IInv, TypeOK, Aside
  <2>4. \A i \in stay : i \in todo' \/ Moved(i)
    BY <1>1, <2>1, StayerPath DEF IInv, Stayers
  <2>5. Stayers'
    <3>1. reader # "idle" /\ mode # "pid" /\ stage = "live"
      BY <1>1 DEF IInv, Stayers
    <3> QED
      BY <1>1, <2>1, <3>1 DEF IInv, Stayers, Aside, PathOf, Box
  <2>6. Counted'
    BY <1>1, <1>3, <1>4, <2>1, <2>4 DEF Counted
  <2> QED
    BY <1>1, <2>3, <2>5, <2>6, ReaderKeeps
<1>6. CASE ~PathExists
  <2>1. todo' = todo /\ reader' \in {"between", "idle"} /\ report' = "err"
    BY <1>6 DEF ReadProcs, Ends
  <2>2. TypeOK'
    BY <1>1, <1>2, <2>1 DEF IInv, TypeOK, Aside
  <2>3. \A i \in stay : Moved(i)
    BY <1>1, <1>6, StayerPath DEF IInv, Stayers, PathExists
  <2>4. Stayers'
    BY <1>1, <2>1 DEF IInv, Stayers, Aside, Box
  <2>5. Counted'
    BY <1>1, <1>4, <2>1, <2>3 DEF Counted
  <2> QED
    BY <1>1, <2>2, <2>4, <2>5, ReaderKeeps
<1> QED
  BY <1>5, <1>6

LEMMA ReadProcessIInv == ASSUME IInv, NEW i \in Ids, ReadProcess(i) PROVE IInv'
<1>1. /\ Aside /\ UNCHANGED <<pass, stay, reader, report>> /\ reader = "each"
      /\ todo' = todo \ {i} /\ found' = IF i \in Alive THEN found \cup {i} ELSE found
  BY DEF ReadProcess, Rest, ReaderStep, Aside, host, answers, filters
<1>2. Alive' = Alive /\ \A j : Moved(j)' = Moved(j)
  BY <1>1 DEF Aside, Alive, Moved
<1>3. TypeOK'
  BY <1>1, <1>2 DEF IInv, TypeOK, Aside
<1>4. Stayers'
  BY <1>1, <1>2 DEF IInv, Stayers, Aside, PathOf, Box
<1>5. Counted'
  <2>1. \A j \in stay : j \in Alive /\ (j \in found \cup todo \/ Moved(j))
    BY <1>1 DEF IInv, TypeOK, Counted
  <2> QED
    BY <1>1, <1>2, <2>1 DEF IInv, Counted
<1> QED
  BY <1>1, <1>3, <1>4, <1>5, ReaderKeeps

LEMMA FinishIInv == ASSUME IInv, Finish PROVE IInv'
<1>1. /\ Aside /\ UNCHANGED <<pass, stay, todo, found>> /\ reader = "each" /\ todo = {}
      /\ reader' \in {"between", "idle"} /\ report' = IF found = {} THEN "err" ELSE "proc"
  BY DEF Finish, Ends, ReaderStep, Aside, host, answers, filters
<1>2. Alive' = Alive /\ \A j : Moved(j)' = Moved(j)
  BY <1>1 DEF Aside, Alive, Moved
<1>3. TypeOK'
  BY <1>1, <1>2 DEF IInv, TypeOK, Aside
<1>4. Stayers'
  BY <1>1, <1>2 DEF IInv, Stayers, Aside, Box
<1>5. Counted'
  BY <1>1, <1>2 DEF IInv, Counted
<1> QED
  BY <1>1, <1>3, <1>4, <1>5, ReaderKeeps

-----------------------------------------------------------------------------
LEMMA StepIInv == IInv /\ [Next]_vars => IInv'
<1> SUFFICES ASSUME IInv, [Next]_vars PROVE IInv'
  OBVIOUS
<1>1. CASE UNCHANGED vars
  <2>1. Aside /\ UNCHANGED <<reader, pass, todo, found, report, stay>>
    BY <1>1 DEF vars, host, answers, filters, reading, Aside
  <2>2. Alive' = Alive /\ \A j : Moved(j)' = Moved(j)
    BY <2>1 DEF Aside, Alive, Moved
  <2>3. TypeOK'
    BY <2>1, <2>2 DEF IInv, TypeOK, Aside
  <2>4. Stayers' /\ Counted'
    BY <2>1, <2>2 DEF IInv, Stayers, Counted, Aside, PathOf, Box
  <2> QED
    BY <2>1, <2>3, <2>4, ReaderKeeps
<1>2. CASE HostStep
  BY <1>2, CloneIInv, ExitIInv, StartContainerIInv, NestIInv, NoticeEndIInv DEF HostStep
<1>3. CASE Resolve
  BY <1>3, CheckTargetExistsIInv, GetPodIInv, InspectIInv, CgroupPathForPidIInv,
     StatCgroupIInv, FillIInv, ResolutionFailsIInv DEF Resolve
<1>4. CASE Read
  <2>1. CASE BeginMemory \/ BeginFaults
    <3>1. stage = "live"
      BY <2>1 DEF BeginMemory, BeginFaults, IInv, Stayers
    <3> QED
      BY <2>1, <3>1, BeginsIInv DEF BeginMemory, BeginFaults
  <2> QED
    BY <1>4, <2>1, ReadCgroupIInv, ReadProcsIInv, ReadProcessIInv, FinishIInv DEF Read
<1> QED
  BY <1>1, <1>2, <1>3, <1>4 DEF Next

LEMMA Invariance == Spec => []IInv
BY InitIInv, StepIInv, PTL DEF Spec

(* The type invariant.                                                     *)
THEOREM TypeCorrect == Spec => []TypeOK
<1>1. IInv => TypeOK
  BY DEF IInv
<1> QED
  BY <1>1, Invariance, PTL

(* However the host changes between and after the steps of container.rs    *)
(* and pod.rs, the filter admits only tasks of the named container, unless *)
(* the reported pid was another's when its cgroup was read.                *)
THEOREM OnlyTargetCorrect == Spec => []TracesOnlyTarget
<1>1. IInv => TracesOnlyTarget
  <2> SUFFICES ASSUME IInv, mode # "pid", ~raced, NEW i \in Ids, matches_target(i)
               PROVE  Box(tasks[i].cgroup.run) = ref
    BY DEF TracesOnlyTarget
  <2>1. stage = "live" /\ tasks[i].cgroup = cgroup_id
    BY DEF matches_target, IInv, Filters
  <2> QED
    BY <2>1 DEF IInv, Named
<1> QED
  BY <1>1, Invariance, PTL

(* A run of the container is traced as a whole, except for its other       *)
(* cgroups, or not at all.                                                 *)
THEOREM AllOrNothingCorrect == Spec => []AllOrNothing
<1>1. IInv => AllOrNothing
  <2> SUFFICES ASSUME IInv, mode # "pid", ~raced,
                      NEW k \in Ids, matches_target(k), NEW i \in Ids
               PROVE  matches_target(i) <=> InRun(i) /\ tasks[i].cgroup.sub = cgroup_id.sub
    BY DEF AllOrNothing
  <2>1. /\ stage = "live" /\ tasks[k].cgroup = cgroup_id /\ k \in Alive
        /\ matches_target(i) <=> i \in Alive /\ tasks[i].cgroup = cgroup_id
    BY DEF matches_target, IInv, Filters
  <2>2. Box(cgroup_id.run) = ref /\ ref # 0
    BY <2>1 DEF IInv, Named
  <2>3. cgroup_id # Host
    BY <2>2 DEF Box, Host
  <2>4. cgroup_id.run = run /\ run # 0 /\ cgroup_id \in Cgroups
    BY <2>1, <2>3 DEF IInv, Places, Exists, TypeOK
  <2>5. ASSUME InRun(i), tasks[i].cgroup.sub = cgroup_id.sub
        PROVE  tasks[i].cgroup = cgroup_id
    <3>1. tasks[i].cgroup \in Cgroups /\ tasks[i].cgroup.run = run
      BY <2>5 DEF InRun, IInv, TypeOK, Alive, Task
    <3> QED
      BY <2>4, <2>5, <3>1 DEF Cgroups
  <2> QED
    BY <2>1, <2>4, <2>5 DEF InRun
<1> QED
  BY <1>1, Invariance, PTL

(* The readers of mem_stats.rs are about processes that the programs       *)
(* accept.                                                                 *)
THEOREM ReadsTracedCorrect == Spec => []ReadsWhatItTraces
<1>1. IInv => ReadsWhatItTraces
  <2> SUFFICES ASSUME IInv, reader = "each",
                      IF mode = "pid" THEN pid \in Processes ELSE Exists(cgroup_id) /\ ~nested,
                      NEW i \in todo \cap stay
               PROVE  matches_target(i)
    BY DEF ReadsWhatItTraces
  <2>1. i \in Alive /\ stage = "live"
    BY DEF IInv, TypeOK, Stayers
  <2>2. CASE mode = "pid"
    BY <2>1, <2>2 DEF IInv, Stayers, Filters, Processes, matches_target
  <2>3. CASE mode # "pid"
    <3>1. PathOf(tasks[i].cgroup) = path /\ PathOf(cgroup_id) = path /\ cgroup_id \in Cgroups
      BY <2>1, <2>3 DEF IInv, TypeOK, Stayers, Filters, Moved
    <3>2. tasks[i].cgroup \in Cgroups /\ Exists(tasks[i].cgroup)
      BY <2>1 DEF IInv, TypeOK, Places, Alive, Task
    <3>3. tasks[i].cgroup = cgroup_id
      BY <2>3, <3>1, <3>2, PathsDiffer DEF IInv, TypeOK
    <3> QED
      BY <2>1, <2>3, <3>3 DEF IInv, Filters, matches_target
  <2> QED
    BY <2>2, <2>3
<1> QED
  BY <1>1, Invariance, PTL

(* read_processes and read_faults leave out no process of the target that  *)
(* lived throughout.                                                       *)
THEOREM StayersCorrect == Spec => []StayersCounted
<1>1. IInv => StayersCounted
  BY DEF IInv, Counted, Moved, StayersCounted
<1> QED
  BY <1>1, Invariance, PTL

(* "no live processes found" is true.                                      *)
THEOREM UnavailableCorrect == Spec => []UnavailableMeansGone
<1>1. IInv => UnavailableMeansGone
  BY DEF IInv, Counted, Moved, UnavailableMeansGone
<1> QED
  BY <1>1, Invariance, PTL

=============================================================================
