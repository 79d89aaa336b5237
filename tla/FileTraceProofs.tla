-------------------------- MODULE FileTraceProofs ---------------------------
(***************************************************************************)
(* Theorems about FileTrace, for any threads, processes, paths and         *)
(* descriptors and every capacity.                                         *)
(***************************************************************************)
EXTENDS FileTrace, SumsAndRings

(* What a call in flight carries: the argument and what sys_exit has found *)
(* are of its kind, a descriptor is the result of an open that succeeded,  *)
(* and only a success with something found reaches the output.             *)
CallOK(t) ==
  pc[t] # "user" =>
    /\ call[t].op = "openat" => call[t].arg \in Paths /\ call[t].got \in Paths \cup {None}
    /\ call[t].op \in FdOps => call[t].arg \in Fds /\ call[t].got \in Fds \cup {None}
    /\ pc[t] \in {"remove", "emit"} => call[t].op # "socket"
    /\ pc[t] # "inside" /\ call[t].op = "openat" => call[t].ret \in Fds \cup {-1}
    /\ pc[t] = "emit" => call[t].got # None /\ Succeeded(call[t].op, call[t].ret)

Shape == \A t \in Threads : CallOK(t)

(* The maps' entries of the process of t are those of its call: none in    *)
(* user mode and once removed, at most its own argument in between.        *)
OwnEntries(t) ==
  /\ pc[t] \in {"user", "emit"} =>
       PENDING_OPEN_PATH[tgid[t]] = None /\ PENDING_FD[tgid[t]] = None
  /\ PENDING_OPEN_PATH[tgid[t]] # None =>
       /\ call[t].op = "openat" /\ call[t].stashed
       /\ PENDING_OPEN_PATH[tgid[t]] = call[t].arg
  /\ PENDING_FD[tgid[t]] # None =>
       /\ call[t].op \in FdOps /\ call[t].stashed
       /\ PENDING_FD[tgid[t]] = call[t].arg
  /\ pc[t] \in {"remove", "emit"} /\ call[t].got # None => call[t].got = call[t].arg

Own == ~dropped => \A t \in Threads : Alone(t) => OwnEntries(t)

(* The inductive invariant.                                                *)
IInv == TypeOK /\ Shape /\ Own /\ NoStaleStash

-----------------------------------------------------------------------------
LEMMA InitIInv == Init => IInv
<1> SUFFICES ASSUME Init PROVE IInv
  OBVIOUS
<1>1. \A c \in Calls : Entered(c, FALSE) \in InFlight
  BY DEF Calls, Entered, InFlight, FdOps
<1>2. call \in [Threads -> InFlight \cup {None}]
  BY <1>1 DEF Init
<1>3. pc \in [Threads -> Phases] /\ \A t \in Threads : call[t] = None <=> pc[t] = "user"
  BY <1>2 DEF Init, Phases
<1>4. made \in 0..MaxCalls
  <2> DEFINE inside == {t \in Threads : call[t] # None}
  <2>1. IsFiniteSet(inside) /\ Cardinality(inside) <= Cardinality(Threads)
    BY FS_Subset, FileTraceAssumption
  <2>2. Cardinality(inside) \in Nat /\ Cardinality(Threads) \in Nat
    BY <2>1, FS_CardinalityType, FileTraceAssumption
  <2>3. made = Cardinality(inside)
    BY DEF Init
  <2> QED
    BY <2>1, <2>2, <2>3, FileTraceAssumption
<1>5. fdtab \in [Tgids -> [Fds -> Paths \cup {Unknown, "socket", None}]]
  BY DEF Init
<1>6. /\ PENDING_OPEN_PATH \in [Tgids -> Paths \cup {None}]
      /\ PENDING_FD \in [Tgids -> Fds \cup {None}]
      /\ files \in [Rows -> FileStats \cup {None}] /\ truth \in [Rows -> FileStats \cup {None}]
  BY DEF Init
<1>7. file_events \in Seq(FileEvent) /\ Len(file_events) <= RingCap
  BY FileTraceAssumption DEF Init
<1>8. moved \in [Tgids -> [read : Nat, write : Nat]]
  BY DEF Init
<1>9. tgid \in [Threads -> Tgids] /\ dropped \in BOOLEAN /\ lost \in BOOLEAN
  BY DEF Init
<1>10. TypeOK
  BY <1>2, <1>3, <1>4, <1>5, <1>6, <1>7, <1>8, <1>9 DEF TypeOK
<1>11. Shape
  <2> SUFFICES ASSUME NEW t \in Threads, pc[t] # "user" PROVE CallOK(t)
    BY DEF Shape, CallOK
  <2>1. pc[t] = "inside" /\ call[t] # None
    BY DEF Init
  <2>2. PICK c \in Calls : call[t] = Entered(c, FALSE)
    BY <2>1 DEF Init
  <2>3. call[t].op = c.op /\ call[t].arg = c.arg /\ call[t].got = None
    BY <2>2 DEF Entered
  <2>4. (c.op = "openat" => c.arg \in Paths) /\ (c.op \in FdOps => c.arg \in Fds)
    BY DEF Calls, FdOps
  <2> QED
    BY <2>1, <2>3, <2>4 DEF CallOK
<1>12. \A p \in Tgids : PENDING_OPEN_PATH[p] = None /\ PENDING_FD[p] = None
  BY DEF Init
<1>13. Own
  BY <1>9, <1>12 DEF Own, OwnEntries, Init
<1>14. NoStaleStash
  BY <1>12 DEF NoStaleStash
<1> QED
  BY <1>10, <1>11, <1>13, <1>14 DEF IInv

-----------------------------------------------------------------------------
(* What a step of thread t leaves of the threads.                          *)
LEMMA MovesFacts ==
  ASSUME TypeOK, NEW t \in Threads, NEW from \in Phases, NEW to \in Phases, NEW c,
         Moves(t, from, to, c), to # "user" => c \in InFlight
  PROVE  /\ pc' \in [Threads -> Phases] /\ call' \in [Threads -> InFlight \cup {None}]
         /\ \A u \in Threads : call'[u] = None <=> pc'[u] = "user"
         /\ pc[t] = from /\ pc'[t] = to
         /\ to # "user" => call'[t] = c
         /\ \A u \in Threads : u # t => pc'[u] = pc[u] /\ call'[u] = call[u]
<1>1. /\ pc' \in [Threads -> Phases] /\ pc[t] = from /\ pc'[t] = to
      /\ \A u \in Threads : u # t => pc'[u] = pc[u]
  BY DEF Moves, TypeOK
<1>2. /\ call' \in [Threads -> InFlight \cup {None}]
      /\ call'[t] = IF to = "user" THEN None ELSE c
      /\ \A u \in Threads : u # t => call'[u] = call[u]
  BY DEF Moves, TypeOK
<1>3. \A u \in Threads : call'[u] = None <=> pc'[u] = "user"
  BY <1>1, <1>2, NoneAssumption DEF TypeOK
<1> QED
  BY <1>1, <1>2, <1>3

(* Of the threads only t has moved, and of the maps only the entries of    *)
(* its process have changed: what is said of other threads alone in their  *)
(* process stays.                                                          *)
LEMMA OthersStay ==
  ASSUME TypeOK, Own, NEW t \in Threads, ~dropped, tgid' = tgid,
         \A u \in Threads : u # t => pc'[u] = pc[u] /\ call'[u] = call[u],
         \A q \in Tgids : q # tgid[t] => /\ PENDING_OPEN_PATH'[q] = PENDING_OPEN_PATH[q]
                                         /\ PENDING_FD'[q] = PENDING_FD[q],
         Alone(t) => OwnEntries(t)'
  PROVE  Own'
<1> SUFFICES ASSUME NEW u \in Threads, Alone(u)' PROVE OwnEntries(u)'
  BY DEF Own
<1>1. Alone(u)
  BY DEF Alone
<1>2. CASE u = t
  BY <1>1, <1>2
<1>3. CASE u # t
  <2>1. tgid[u] # tgid[t] /\ tgid[u] \in Tgids
    BY <1>1, <1>3 DEF Alone, TypeOK
  <2>2. OwnEntries(u)
    BY <1>1 DEF Own
  <2> QED
    BY <1>3, <2>1, <2>2 DEF OwnEntries
<1> QED
  BY <1>2, <1>3

(* The same of a stashed entry and the call that it is for.                *)
Justified(p) ==
  /\ PENDING_OPEN_PATH[p] # None =>
       \E t \in Threads : tgid[t] = p /\ Between(t, {"openat"})
  /\ PENDING_FD[p] # None =>
       \E t \in Threads : tgid[t] = p /\ Between(t, FdOps)

LEMMA JustifiedStay ==
  ASSUME TypeOK, NoStaleStash, NEW t \in Threads, ~dropped, tgid' = tgid,
         \A u \in Threads : u # t => pc'[u] = pc[u] /\ call'[u] = call[u],
         \A q \in Tgids : q # tgid[t] => /\ PENDING_OPEN_PATH'[q] = PENDING_OPEN_PATH[q]
                                         /\ PENDING_FD'[q] = PENDING_FD[q],
         Justified(tgid[t])'
  PROVE  NoStaleStash'
<1> SUFFICES ASSUME NEW p \in Tgids PROVE Justified(p)'
  BY DEF NoStaleStash, Justified
<1>1. CASE p = tgid[t]
  BY <1>1
<1>2. CASE p # tgid[t]
  <2>1. Justified(p)
    BY DEF NoStaleStash, Justified
  <2>2. /\ PENDING_OPEN_PATH'[p] = PENDING_OPEN_PATH[p]
        /\ PENDING_FD'[p] = PENDING_FD[p]
    BY <1>2
  <2>3. \A u \in Threads : \A ops : tgid[u] = p /\ Between(u, ops) => tgid'[u] = p /\ Between(u, ops)'
    BY <1>2 DEF Between
  <2> QED
    BY <2>1, <2>2, <2>3 DEF Justified
<1> QED
  BY <1>1, <1>2

(* A call begins, and leaves the maps' entries of its process as they are  *)
(* or, if it is stashed, puts its own argument into its own map.           *)
LEMMA EntersIInv ==
  ASSUME IInv, NEW t \in Threads, NEW c \in Calls, NEW stashed \in BOOLEAN,
         Enters(t, c, stashed),
         PENDING_OPEN_PATH' \in [Tgids -> Paths \cup {None}],
         PENDING_FD' \in [Tgids -> Fds \cup {None}],
         \/ PENDING_OPEN_PATH'[tgid[t]] = PENDING_OPEN_PATH[tgid[t]]
         \/ c.op = "openat" /\ stashed /\ PENDING_OPEN_PATH'[tgid[t]] = c.arg,
         \/ PENDING_FD'[tgid[t]] = PENDING_FD[tgid[t]]
         \/ c.op \in FdOps /\ stashed /\ PENDING_FD'[tgid[t]] = c.arg,
         \A q \in Tgids : q # tgid[t] => /\ PENDING_OPEN_PATH'[q] = PENDING_OPEN_PATH[q]
                                         /\ PENDING_FD'[q] = PENDING_FD[q],
         lost' \in BOOLEAN, dropped' \in BOOLEAN, dropped => dropped'
  PROVE  IInv'
<1> DEFINE new == Entered(c, stashed)
<1> DEFINE p == tgid[t]
<1> USE DEF IInv
<1>1. /\ new \in InFlight /\ new.op = c.op /\ new.arg = c.arg /\ new.got = None
      /\ new.stashed = stashed
      /\ c.op = "openat" => c.arg \in Paths
      /\ c.op \in FdOps => c.arg \in Fds
  BY DEF Calls, Entered, InFlight, FdOps
<1>2. /\ tgid' = tgid /\ UNCHANGED <<fdtab, file_events, files, truth, moved>>
      /\ Moves(t, "user", "inside", new) /\ made < MaxCalls /\ made' = made + 1
  BY DEF Enters
<1>3. /\ pc' \in [Threads -> Phases] /\ call' \in [Threads -> InFlight \cup {None}]
      /\ \A u \in Threads : call'[u] = None <=> pc'[u] = "user"
      /\ pc[t] = "user" /\ pc'[t] = "inside" /\ call'[t] = new
      /\ \A u \in Threads : u # t => pc'[u] = pc[u] /\ call'[u] = call[u]
  <2> HIDE DEF new
  <2>1. TypeOK /\ new \in InFlight /\ Moves(t, "user", "inside", new)
    BY <1>1, <1>2
  <2>2. {"user", "inside"} \subseteq Phases /\ "inside" # "user"
    BY DEF Phases
  <2> QED
    BY <2>1, <2>2, MovesFacts
<1>4. p \in Tgids
  BY DEF TypeOK
<1>5. TypeOK'
  <2>1. made' \in 0..MaxCalls
    BY <1>2, FileTraceAssumption DEF TypeOK
  <2> QED
    BY <1>2, <1>3, <2>1 DEF TypeOK
<1>6. Shape'
  <2> SUFFICES ASSUME NEW u \in Threads PROVE CallOK(u)'
    BY DEF Shape
  <2>1. CASE u = t
    BY <1>1, <1>3, <2>1 DEF CallOK
  <2>2. CASE u # t
    BY <1>3, <2>2 DEF Shape, CallOK
  <2> QED
    BY <2>1, <2>2
<1>7. ASSUME ~dropped' PROVE Own'
  <2>1. ~dropped
    BY <1>7
  <2>2. ASSUME Alone(t) PROVE OwnEntries(t)'
    <3>1. PENDING_OPEN_PATH[p] = None /\ PENDING_FD[p] = None
      BY <1>3, <2>1, <2>2 DEF Own, OwnEntries
    <3> QED
      BY <1>1, <1>2, <1>3, <3>1 DEF OwnEntries, FdOps
  <2> QED
    BY <1>2, <1>3, <2>1, <2>2, OthersStay
<1>8. ASSUME ~dropped' PROVE NoStaleStash'
  <2>1. ~dropped
    BY <1>8
  <2>2. \A u \in Threads : \A ops : Between(u, ops) => Between(u, ops)'
    BY <1>3 DEF Between
  <2>3. \A ops : stashed /\ c.op \in ops => Between(t, ops)'
    BY <1>1, <1>3 DEF Between
  <2>4. Justified(p)
    BY <1>4, <2>1 DEF NoStaleStash, Justified
  <2>5. Justified(p)'
    BY <1>2, <2>2, <2>3, <2>4 DEF Justified
  <2> QED
    BY <1>2, <1>3, <2>1, <2>5, JustifiedStay
<1> QED
  BY <1>5, <1>6, <1>7, <1>8 DEF Own, NoStaleStash

(* What a call that sys_enter sees does to the maps.                       *)
LEMMA SysEnterFacts ==
  ASSUME IInv, NEW t \in Threads, NEW c \in Calls, SysEnter(t, c)
  PROVE  \E stashed \in BOOLEAN :
           /\ Enters(t, c, stashed)
           /\ PENDING_OPEN_PATH' \in [Tgids -> Paths \cup {None}]
           /\ PENDING_FD' \in [Tgids -> Fds \cup {None}]
           /\ IF stashed /\ c.op = "openat" THEN PENDING_OPEN_PATH'[tgid[t]] = c.arg
              ELSE PENDING_OPEN_PATH'[tgid[t]] = PENDING_OPEN_PATH[tgid[t]]
           /\ IF stashed /\ c.op \in FdOps THEN PENDING_FD'[tgid[t]] = c.arg
              ELSE PENDING_FD'[tgid[t]] = PENDING_FD[tgid[t]]
           /\ \A q \in Tgids : q # tgid[t] => /\ PENDING_OPEN_PATH'[q] = PENDING_OPEN_PATH[q]
                                              /\ PENDING_FD'[q] = PENDING_FD[q]
           /\ lost' \in BOOLEAN /\ dropped' \in BOOLEAN /\ (dropped => dropped')
           /\ ~dropped' /\ ~lost' => ~lost /\ (stashed <=> c.op # "socket")
<1> DEFINE p == tgid[t]
<1>0. /\ PENDING_OPEN_PATH \in [Tgids -> Paths \cup {None}]
      /\ PENDING_FD \in [Tgids -> Fds \cup {None}]
      /\ dropped \in BOOLEAN /\ lost \in BOOLEAN /\ p \in Tgids
  BY DEF IInv, TypeOK
<1>1. /\ c.op = "openat" => c.arg \in Paths /\ c.op \notin FdOps
      /\ c.op \in FdOps => c.arg \in Fds /\ c.op # "openat" /\ c.op # "socket"
  BY DEF Calls, FdOps
<1>2. PICK stashed \in BOOLEAN :
        /\ Enters(t, c, stashed)
        /\ \/ DropRecord /\ ~stashed /\ UNCHANGED <<maps, lost>>
           \/ /\ UNCHANGED dropped
              /\ \/ c.op = "openat" /\ StashPath(p, c.arg, stashed)
                 \/ c.op \in FdOps /\ StashFd(p, c.arg, stashed)
                 \/ c.op = "socket" /\ ~stashed /\ UNCHANGED maps
              /\ lost' = (lost \/ (c.op # "socket" /\ ~stashed))
  BY DEF SysEnter
<1> HIDE DEF p
<1>3. CASE DropRecord /\ ~stashed /\ UNCHANGED <<maps, lost>>
  BY <1>0, <1>2, <1>3 DEF DropRecord, maps, p
<1>4. ASSUME UNCHANGED dropped, lost' = (lost \/ (c.op # "socket" /\ ~stashed)),
             c.op = "openat", StashPath(p, c.arg, stashed)
      PROVE  /\ PENDING_OPEN_PATH' \in [Tgids -> Paths \cup {None}] /\ PENDING_FD' = PENDING_FD
             /\ stashed => PENDING_OPEN_PATH'[p] = c.arg
             /\ ~stashed => PENDING_OPEN_PATH' = PENDING_OPEN_PATH
             /\ \A q \in Tgids : q # p => PENDING_OPEN_PATH'[q] = PENDING_OPEN_PATH[q]
  <2>1. c.arg \in Paths \cup {None}
    BY <1>1, <1>4
  <2>2. CASE /\ stashed = Fits(PENDING_OPEN_PATH, p)
             /\ PENDING_OPEN_PATH' = Insert(PENDING_OPEN_PATH, p, c.arg)
    <3> DEFINE new == Insert(PENDING_OPEN_PATH, p, c.arg)
    <3>1. /\ new \in [Tgids -> Paths \cup {None}]
          /\ Fits(PENDING_OPEN_PATH, p) => new[p] = c.arg
          /\ ~Fits(PENDING_OPEN_PATH, p) => new = PENDING_OPEN_PATH
          /\ \A q \in Tgids : q # p => new[q] = PENDING_OPEN_PATH[q]
      BY <1>0, <2>1 DEF Insert
    <3> HIDE DEF new
    <3> QED
      BY <1>4, <2>2, <3>1 DEF StashPath, new
  <2>3. CASE ~stashed /\ UNCHANGED PENDING_OPEN_PATH
    BY <1>0, <1>4, <2>3 DEF StashPath
  <2> QED
    BY <1>4, <2>2, <2>3 DEF StashPath
<1>5. ASSUME UNCHANGED dropped, lost' = (lost \/ (c.op # "socket" /\ ~stashed)),
             c.op \in FdOps, StashFd(p, c.arg, stashed)
      PROVE  /\ PENDING_FD' \in [Tgids -> Fds \cup {None}]
             /\ PENDING_OPEN_PATH' = PENDING_OPEN_PATH
             /\ stashed => PENDING_FD'[p] = c.arg
             /\ ~stashed => PENDING_FD' = PENDING_FD
             /\ \A q \in Tgids : q # p => PENDING_FD'[q] = PENDING_FD[q]
  <2>1. c.arg \in Fds \cup {None}
    BY <1>1, <1>5
  <2> DEFINE new == Insert(PENDING_FD, p, c.arg)
  <2>2. /\ new \in [Tgids -> Fds \cup {None}]
        /\ Fits(PENDING_FD, p) => new[p] = c.arg
        /\ ~Fits(PENDING_FD, p) => new = PENDING_FD
        /\ \A q \in Tgids : q # p => new[q] = PENDING_FD[q]
    BY <1>0, <2>1 DEF Insert
  <2> HIDE DEF new
  <2> QED
    BY <1>5, <2>2 DEF StashFd, new
<1>6. CASE /\ UNCHANGED dropped /\ lost' = (lost \/ (c.op # "socket" /\ ~stashed))
           /\ c.op = "socket" /\ ~stashed /\ UNCHANGED maps
  BY <1>0, <1>1, <1>2, <1>6 DEF maps, p
<1>7. CASE /\ UNCHANGED dropped /\ lost' = (lost \/ (c.op # "socket" /\ ~stashed))
           /\ c.op = "openat" /\ StashPath(p, c.arg, stashed)
  BY <1>0, <1>1, <1>2, <1>4, <1>7 DEF p
<1>8. CASE /\ UNCHANGED dropped /\ lost' = (lost \/ (c.op # "socket" /\ ~stashed))
           /\ c.op \in FdOps /\ StashFd(p, c.arg, stashed)
  BY <1>0, <1>1, <1>2, <1>5, <1>8 DEF p
<1> QED
  BY <1>2, <1>3, <1>6, <1>7, <1>8

LEMMA SysEnterIInv ==
  ASSUME IInv, NEW t \in Threads, NEW c \in Calls, SysEnter(t, c)
  PROVE  IInv'
BY SysEnterFacts, EntersIInv

LEMMA EnterUnseenIInv ==
  ASSUME IInv, NEW t \in Threads, NEW c \in Calls, EnterUnseen(t, c)
  PROVE  IInv'
<1>1. Enters(t, c, FALSE) /\ UNCHANGED <<PENDING_OPEN_PATH, PENDING_FD, dropped, lost>>
  BY DEF EnterUnseen, maps
<1>2. /\ PENDING_OPEN_PATH \in [Tgids -> Paths \cup {None}]
      /\ PENDING_FD \in [Tgids -> Fds \cup {None}]
      /\ dropped \in BOOLEAN /\ lost \in BOOLEAN
  BY DEF IInv, TypeOK
<1> QED
  BY <1>1, <1>2, EntersIInv

(* The kernel changes what the descriptors refer to and the histories; the *)
(* result of an open that succeeded is a descriptor.                       *)
LEMMA RunFacts ==
  ASSUME IInv, NEW t \in Threads, Run(t)
  PROVE  /\ tgid' = tgid /\ UNCHANGED <<maps, file_events, files, made, dropped>>
         /\ \E r \in Fds \cup {-1, 0, 1} :
              /\ Moves(t, "inside", "returning", [call[t] EXCEPT !.ret = r])
              /\ call[t].op = "openat" => r \in Fds \cup {-1}
         /\ fdtab' \in [Tgids -> [Fds -> Paths \cup {Unknown, "socket", None}]]
         /\ truth' \in [Rows -> FileStats \cup {None}]
         /\ moved' \in [Tgids -> [read : Nat, write : Nat]]
         /\ lost' \in BOOLEAN
<1> DEFINE p == tgid[t]
<1> DEFINE c == call[t]
<1>1. PICK r \in Fds \cup {-1, 0, 1} :
        /\ Moves(t, "inside", "returning", [c EXCEPT !.ret = r])
        /\ Fails(p, c, r) \/ Opens(p, c, r) \/ Transfers(p, c, r) \/ Closes(p, c, r)
  BY DEF Run
<1>2. tgid' = tgid /\ UNCHANGED <<maps, file_events, files, made, dropped>>
  BY DEF Run
<1>3. pc[t] = "inside" /\ p \in Tgids
  BY <1>1 DEF Moves, IInv, TypeOK
<1>4. c \in InFlight /\ CallOK(t)
  BY <1>3 DEF IInv, TypeOK, Shape
<1>5. /\ c.op = "openat" => c.arg \in Paths
      /\ c.op \in FdOps => c.arg \in Fds
      /\ c.stashed \in BOOLEAN
  BY <1>3, <1>4 DEF CallOK, InFlight
<1>6. /\ fdtab \in [Tgids -> [Fds -> Paths \cup {Unknown, "socket", None}]]
      /\ truth \in [Rows -> FileStats \cup {None}]
      /\ moved \in [Tgids -> [read : Nat, write : Nat]]
      /\ lost \in BOOLEAN
  BY DEF IInv, TypeOK
<1>7. \A path \in Paths \cup {Unknown} : Fresh(path) \in FileStats
  BY DEF Fresh, FileStats
<1> HIDE DEF p, c
<1>8. CASE Fails(p, c, r)
  BY <1>1, <1>2, <1>6, <1>8 DEF Fails, c
<1>9. CASE Opens(p, c, r)
  <2>1. r \in Fds /\ c.op \in {"openat", "socket"}
    BY <1>9 DEF Opens
  <2>2. fdtab' \in [Tgids -> [Fds -> Paths \cup {Unknown, "socket", None}]]
    <3>1. PICK v \in Paths \cup {"socket"} : fdtab' = [fdtab EXCEPT ![p][r] = v]
      <4>1. c.op = "socket" => fdtab' = [fdtab EXCEPT ![p][r] = "socket"]
        BY <1>9 DEF Opens
      <4>2. c.op # "socket" => fdtab' = [fdtab EXCEPT ![p][r] = c.arg] /\ c.arg \in Paths
        BY <1>5, <1>9, <2>1 DEF Opens
      <4> QED
        BY <4>1, <4>2
    <3> QED
      BY <1>3, <1>6, <2>1, <3>1
  <2>3. truth' \in [Rows -> FileStats \cup {None}]
    <3>1. \/ truth' = truth
          \/ c.op = "openat" /\ truth' = [truth EXCEPT ![<<p, r>>] = Fresh(c.arg)]
      BY <1>9 DEF Opens
    <3> QED
      BY <1>5, <1>6, <1>7, <3>1
  <2>4. moved' = moved /\ lost' \in BOOLEAN
    BY <1>6, <1>9 DEF Opens
  <2> QED
    BY <1>1, <1>2, <1>6, <2>1, <2>2, <2>3, <2>4 DEF c
<1>10. CASE Transfers(p, c, r)
  <2>1. c.op \in {"read", "write"} /\ r \in 0..1 /\ c.op \in FdOps
    BY <1>10 DEF Transfers, FdOps
  <2>2. moved' = [moved EXCEPT ![p][c.op] = @ + r]
    BY <1>10 DEF Transfers
  <2>3. moved' \in [Tgids -> [read : Nat, write : Nat]]
    <3>1. CASE c.op = "read"
      <4>1. moved' = [moved EXCEPT ![p].read = @ + r]
        BY <2>2, <3>1
      <4> QED
        BY <1>3, <1>6, <2>1, <4>1
    <3>2. CASE c.op = "write"
      <4>1. moved' = [moved EXCEPT ![p].write = @ + r]
        BY <2>2, <3>2
      <4> QED
        BY <1>3, <1>6, <2>1, <4>1
    <3> QED
      BY <2>1, <3>1, <3>2
  <2>4. \A row \in FileStats \cup {None} : Credit(row, c.op, r) \in FileStats
    <3> SUFFICES ASSUME NEW row \in FileStats \cup {None} PROVE Credit(row, c.op, r) \in FileStats
      OBVIOUS
    <3>1. \A x \in FileStats : AddTo(x, c.op, r) \in FileStats
      BY <2>1 DEF AddTo, FileStats
    <3> QED
      BY <1>7, <3>1 DEF Credit
  <2>5. truth' \in [Rows -> FileStats \cup {None}]
    <3>1. \/ truth' = truth
          \/ truth' = [truth EXCEPT ![<<p, c.arg>>] = Credit(truth[<<p, c.arg>>], c.op, r)]
      BY <1>10 DEF Transfers
    <3>2. <<p, c.arg>> \in Rows
      BY <1>3, <1>5, <2>1 DEF Rows
    <3> QED
      BY <1>6, <2>4, <3>1, <3>2
  <2>6. fdtab' = fdtab /\ lost' = lost
    BY <1>10 DEF Transfers
  <2> QED
    BY <1>1, <1>2, <1>6, <2>1, <2>3, <2>5, <2>6 DEF c
<1>11. CASE Closes(p, c, r)
  <2>1. c.op = "close" /\ c.arg \in Fds
    BY <1>5, <1>11 DEF Closes, FdOps
  <2>2. fdtab' = [fdtab EXCEPT ![p][c.arg] = None] /\ lost' \in BOOLEAN /\ moved' = moved
    BY <1>6, <1>11 DEF Closes
  <2>3. fdtab' \in [Tgids -> [Fds -> Paths \cup {Unknown, "socket", None}]]
    BY <1>3, <1>6, <2>1, <2>2
  <2>4. truth' \in [Rows -> FileStats \cup {None}]
    <3>1. <<p, c.arg>> \in Rows
      BY <1>3, <2>1 DEF Rows
    <3>2. \/ truth' = truth
          \/ /\ truth[<<p, c.arg>>] # None
             /\ truth' = [truth EXCEPT ![<<p, c.arg>>].closed = TRUE]
      BY <1>11 DEF Closes
    <3>3. \A row \in FileStats : [row EXCEPT !.closed = TRUE] \in FileStats
      BY DEF FileStats
    <3> QED
      BY <1>6, <3>1, <3>2, <3>3
  <2> QED
    BY <1>1, <1>2, <2>1, <2>2, <2>3, <2>4, <1>6 DEF c
<1> QED
  BY <1>1, <1>8, <1>9, <1>10, <1>11

LEMMA RunIInv == ASSUME IInv, NEW t \in Threads, Run(t) PROVE IInv'
<1>1. PICK r \in Fds \cup {-1, 0, 1} :
        /\ Moves(t, "inside", "returning", [call[t] EXCEPT !.ret = r])
        /\ call[t].op = "openat" => r \in Fds \cup {-1}
  BY RunFacts
<1> DEFINE new == [call[t] EXCEPT !.ret = r]
<1>2. /\ tgid' = tgid /\ UNCHANGED <<PENDING_OPEN_PATH, PENDING_FD>>
      /\ UNCHANGED <<file_events, files, made, dropped>>
  BY RunFacts DEF maps
<1>3. call[t] \in InFlight
  BY <1>1 DEF Moves, IInv, TypeOK
<1>4. /\ new \in InFlight /\ new.op = call[t].op /\ new.arg = call[t].arg
      /\ new.stashed = call[t].stashed /\ new.got = call[t].got /\ new.ret = r
  BY <1>3, FileTraceAssumption DEF InFlight
<1>5. /\ pc' \in [Threads -> Phases] /\ call' \in [Threads -> InFlight \cup {None}]
      /\ \A u \in Threads : call'[u] = None <=> pc'[u] = "user"
      /\ pc[t] = "inside" /\ pc'[t] = "returning" /\ call'[t] = new
      /\ \A u \in Threads : u # t => pc'[u] = pc[u] /\ call'[u] = call[u]
  BY <1>1, <1>4, MovesFacts DEF Phases, IInv
<1> HIDE DEF new
<1>6. TypeOK'
  BY <1>2, <1>5, RunFacts DEF IInv, TypeOK
<1>7. Shape'
  <2> SUFFICES ASSUME NEW u \in Threads PROVE CallOK(u)'
    BY DEF Shape
  <2>1. CallOK(u)
    BY DEF IInv, Shape
  <2>2. CASE u = t
    BY <1>1, <1>4, <1>5, <2>1, <2>2 DEF CallOK
  <2>3. CASE u # t
    BY <1>5, <2>1, <2>3 DEF CallOK
  <2> QED
    BY <2>2, <2>3
<1>8. ASSUME ~dropped PROVE Own'
  <2>1. ASSUME Alone(t) PROVE OwnEntries(t)'
    <3>1. OwnEntries(t)
      BY <1>8, <2>1 DEF IInv, Own
    <3> QED
      BY <1>2, <1>4, <1>5, <3>1 DEF OwnEntries
  <2> QED
    BY <1>2, <1>5, <1>8, <2>1, OthersStay DEF IInv
<1>9. ASSUME ~dropped PROVE NoStaleStash'
  <2>1. \A u \in Threads : \A ops : Between(u, ops) => Between(u, ops)'
    BY <1>4, <1>5 DEF Between
  <2>2. tgid[t] \in Tgids
    BY DEF IInv, TypeOK
  <2>3. Justified(tgid[t])'
    BY <1>2, <1>9, <2>1, <2>2 DEF IInv, NoStaleStash, Justified
  <2> QED
    BY <1>2, <1>5, <1>9, <2>3, JustifiedStay DEF IInv
<1>10. dropped' = dropped
  BY <1>2
<1> QED
  BY <1>6, <1>7, <1>8, <1>9, <1>10 DEF IInv, Own, NoStaleStash

(* sys_exit returns at once, or goes on with what its map holds.           *)
LEMMA SysExitFacts ==
  ASSUME IInv, NEW t \in Threads, SysExit(t)
  PROVE  LET p == tgid[t]
         IN  /\ UNCHANGED <<tgid, fdtab, maps, file_events, files, truth, moved, made, lost>>
             /\ dropped' \in BOOLEAN /\ (dropped => dropped')
             /\ \/ /\ Moves(t, "returning", "user", None)
                   /\ dropped' \/ call[t].op = "socket"
                      \/ (call[t].op \in FdOps /\ PENDING_FD[p] = None)
                \/ /\ Moves(t, "returning", "remove", [call[t] EXCEPT !.got = PENDING_OPEN_PATH[p]])
                   /\ call[t].op = "openat"
                \/ /\ Moves(t, "returning", "remove", [call[t] EXCEPT !.got = PENDING_FD[p]])
                   /\ call[t].op \in FdOps
BY DEF SysExit, DropRecord, history, IInv, TypeOK

(* A call that ends at once leaves no entry of its own behind, unless      *)
(* dropped says so.                                                        *)
LEMMA EndsIInv ==
  ASSUME IInv, NEW t \in Threads, Moves(t, "returning", "user", None),
         UNCHANGED <<tgid, fdtab, maps, file_events, files, truth, moved, made, lost>>,
         dropped' \in BOOLEAN, dropped => dropped',
         \/ dropped' \/ ~call[t].stashed \/ call[t].op = "socket"
         \/ call[t].op \in FdOps /\ PENDING_FD[tgid[t]] = None
  PROVE  IInv'
<1> DEFINE p == tgid[t]
<1>1. /\ pc' \in [Threads -> Phases] /\ call' \in [Threads -> InFlight \cup {None}]
      /\ \A u \in Threads : call'[u] = None <=> pc'[u] = "user"
      /\ pc[t] = "returning" /\ pc'[t] = "user"
      /\ \A u \in Threads : u # t => pc'[u] = pc[u] /\ call'[u] = call[u]
  BY MovesFacts DEF Phases, IInv
<1>2. UNCHANGED <<tgid, PENDING_OPEN_PATH, PENDING_FD>> /\ p \in Tgids
  BY DEF maps, IInv, TypeOK
<1>3. TypeOK'
  BY <1>1, <1>2 DEF IInv, TypeOK
<1>4. Shape'
  BY <1>1 DEF IInv, Shape, CallOK
<1>5. ASSUME ~dropped' PROVE Own'
  <2>1. ASSUME Alone(t) PROVE OwnEntries(t)'
    <3>1. OwnEntries(t)
      BY <1>5, <2>1 DEF IInv, Own
    <3>2. PENDING_OPEN_PATH[p] = None /\ PENDING_FD[p] = None
      BY <1>5, <3>1 DEF OwnEntries, FdOps
    <3> QED
      BY <1>1, <1>2, <3>2 DEF OwnEntries
  <2> QED
    BY <1>1, <1>2, <1>5, <2>1, OthersStay DEF IInv
<1>6. ASSUME ~dropped' PROVE NoStaleStash'
  <2>1. Justified(p)
    BY <1>2, <1>6 DEF IInv, NoStaleStash, Justified
  <2>2. \A u \in Threads : \A ops : u # t /\ Between(u, ops) => Between(u, ops)'
    BY <1>1 DEF Between
  <2>3. PENDING_OPEN_PATH[p] # None =>
          \E u \in Threads : tgid[u] = p /\ Between(u, {"openat"})'
    <3>1. ~Between(t, {"openat"})
      BY <1>6 DEF Between, FdOps
    <3> QED
      BY <2>1, <2>2, <3>1 DEF Justified
  <2>4. PENDING_FD[p] # None => \E u \in Threads : tgid[u] = p /\ Between(u, FdOps)'
    <3>1. PENDING_FD[p] # None => ~Between(t, FdOps)
      BY <1>6 DEF Between, FdOps
    <3> QED
      BY <2>1, <2>2, <3>1 DEF Justified
  <2>5. Justified(p)'
    BY <1>2, <2>3, <2>4 DEF Justified
  <2> QED
    BY <1>1, <1>2, <1>6, <2>5, JustifiedStay DEF IInv
<1> QED
  BY <1>3, <1>4, <1>5, <1>6 DEF IInv, Own, NoStaleStash

LEMMA SysExitIInv == ASSUME IInv, NEW t \in Threads, SysExit(t) PROVE IInv'
<1> DEFINE p == tgid[t]
<1>1. /\ UNCHANGED <<tgid, fdtab, PENDING_OPEN_PATH, PENDING_FD>>
      /\ UNCHANGED <<file_events, files, truth, moved, made, lost>>
      /\ dropped' \in BOOLEAN /\ (dropped => dropped')
  BY SysExitFacts DEF maps
<1>2. pc[t] = "returning"
  BY DEF SysExit
<1>3. call[t] \in InFlight /\ CallOK(t) /\ p \in Tgids
  BY <1>2 DEF IInv, TypeOK, Shape
<1>4. PENDING_OPEN_PATH[p] \in Paths \cup {None} /\ PENDING_FD[p] \in Fds \cup {None}
  BY <1>3 DEF IInv, TypeOK
<1>5. CASE /\ Moves(t, "returning", "user", None)
           /\ dropped' \/ call[t].op = "socket" \/ (call[t].op \in FdOps /\ PENDING_FD[p] = None)
  BY <1>5, SysExitFacts, EndsIInv
<1>6. ASSUME NEW v, Moves(t, "returning", "remove", [call[t] EXCEPT !.got = v]),
             \/ call[t].op = "openat" /\ v = PENDING_OPEN_PATH[p]
             \/ call[t].op \in FdOps /\ v = PENDING_FD[p]
      PROVE  IInv'
  <2> DEFINE new == [call[t] EXCEPT !.got = v]
  <2>1. /\ new \in InFlight /\ new.op = call[t].op /\ new.arg = call[t].arg
        /\ new.stashed = call[t].stashed /\ new.got = v /\ new.ret = call[t].ret
    BY <1>3, <1>4, <1>6 DEF InFlight
  <2>2. /\ pc' \in [Threads -> Phases] /\ call' \in [Threads -> InFlight \cup {None}]
        /\ \A u \in Threads : call'[u] = None <=> pc'[u] = "user"
        /\ pc'[t] = "remove" /\ call'[t] = new
        /\ \A u \in Threads : u # t => pc'[u] = pc[u] /\ call'[u] = call[u]
    BY <1>6, <2>1, MovesFacts DEF Phases, IInv
  <2> HIDE DEF new
  <2>3. TypeOK'
    BY <1>1, <2>2 DEF IInv, TypeOK
  <2>4. Shape'
    <3> SUFFICES ASSUME NEW u \in Threads PROVE CallOK(u)'
      BY DEF Shape
    <3>1. CASE u = t
      BY <1>2, <1>3, <1>4, <1>6, <2>1, <2>2, <3>1 DEF CallOK, FdOps
    <3>2. CASE u # t
      BY <2>2, <3>2 DEF IInv, Shape, CallOK
    <3> QED
      BY <3>1, <3>2
  <2>5. ASSUME ~dropped PROVE Own'
    <3>1. ASSUME Alone(t) PROVE OwnEntries(t)'
      <4>1. OwnEntries(t)
        BY <2>5, <3>1 DEF IInv, Own
      <4> QED
        BY <1>1, <1>2, <1>6, <2>1, <2>2, <4>1 DEF OwnEntries, FdOps
    <3> QED
      BY <1>1, <2>2, <2>5, <3>1, OthersStay DEF IInv
  <2>6. ASSUME ~dropped PROVE NoStaleStash'
    <3>1. \A u \in Threads : \A ops : Between(u, ops) => Between(u, ops)'
      BY <2>1, <2>2 DEF Between
    <3>2. Justified(p)'
      BY <1>1, <1>3, <2>6, <3>1 DEF IInv, NoStaleStash, Justified
    <3> QED
      BY <1>1, <2>2, <2>6, <3>2, JustifiedStay DEF IInv
  <2> QED
    BY <1>1, <2>3, <2>4, <2>5, <2>6 DEF IInv, Own, NoStaleStash
<1> HIDE DEF p
<1> QED
  BY <1>5, <1>6, SysExitFacts DEF p

LEMMA ExitUnseenIInv == ASSUME IInv, NEW t \in Threads, ExitUnseen(t) PROVE IInv'
<1>1. /\ Moves(t, "returning", "user", None) /\ dropped' = (dropped \/ call[t].stashed)
      /\ UNCHANGED <<tgid, fdtab, maps, file_events, files, truth, moved, made, lost>>
  BY DEF ExitUnseen, history
<1>2. dropped \in BOOLEAN /\ call[t].stashed \in BOOLEAN
  BY <1>1 DEF Moves, IInv, TypeOK, InFlight
<1> QED
  BY <1>1, <1>2, EndsIInv

(* What is removed is the entry of the call's own map.                     *)
LEMMA RemoveIInv == ASSUME IInv, NEW t \in Threads, Remove(t) PROVE IInv'
<1> DEFINE p == tgid[t]
<1> DEFINE to == IF call[t].got # None /\ Succeeded(call[t].op, call[t].ret)
                 THEN "emit" ELSE "user"
<1>1. /\ UNCHANGED <<tgid, fdtab, file_events, files, truth, moved, made, dropped, lost>>
      /\ Moves(t, "remove", to, call[t]) /\ pc[t] = "remove"
      /\ \/ /\ call[t].op = "openat" /\ PENDING_FD' = PENDING_FD
            /\ PENDING_OPEN_PATH' = [PENDING_OPEN_PATH EXCEPT ![p] = None]
         \/ /\ call[t].op \in FdOps /\ PENDING_OPEN_PATH' = PENDING_OPEN_PATH
            /\ PENDING_FD' = [PENDING_FD EXCEPT ![p] = None]
  BY DEF Remove, Unstash, history
<1>2. call[t] \in InFlight /\ CallOK(t) /\ p \in Tgids
  BY <1>1 DEF IInv, TypeOK, Shape
<1>3. /\ pc' \in [Threads -> Phases] /\ call' \in [Threads -> InFlight \cup {None}]
      /\ \A u \in Threads : call'[u] = None <=> pc'[u] = "user"
      /\ pc'[t] = to /\ (to # "user" => call'[t] = call[t])
      /\ \A u \in Threads : u # t => pc'[u] = pc[u] /\ call'[u] = call[u]
  BY <1>1, <1>2, MovesFacts DEF Phases, IInv
<1>4. /\ PENDING_OPEN_PATH' \in [Tgids -> Paths \cup {None}]
      /\ PENDING_FD' \in [Tgids -> Fds \cup {None}]
      /\ \A q \in Tgids : q # p => /\ PENDING_OPEN_PATH'[q] = PENDING_OPEN_PATH[q]
                                   /\ PENDING_FD'[q] = PENDING_FD[q]
      /\ call[t].op = "openat" => PENDING_OPEN_PATH'[p] = None /\ PENDING_FD'[p] = PENDING_FD[p]
      /\ call[t].op \in FdOps => PENDING_FD'[p] = None /\ PENDING_OPEN_PATH'[p] = PENDING_OPEN_PATH[p]
  <2>1. /\ PENDING_OPEN_PATH \in [Tgids -> Paths \cup {None}]
        /\ PENDING_FD \in [Tgids -> Fds \cup {None}]
    BY DEF IInv, TypeOK
  <2> HIDE DEF p
  <2> QED
    BY <1>1, <1>2, <2>1 DEF FdOps
<1>5. to \in {"emit", "user"} /\ (to = "emit" => call[t].got # None
                                              /\ Succeeded(call[t].op, call[t].ret))
  OBVIOUS
<1> HIDE DEF to
<1>6. TypeOK'
  BY <1>1, <1>3, <1>4 DEF IInv, TypeOK
<1>7. Shape'
  <2> SUFFICES ASSUME NEW u \in Threads PROVE CallOK(u)'
    BY DEF Shape
  <2>1. CASE u = t
    BY <1>1, <1>2, <1>3, <1>5, <2>1 DEF CallOK
  <2>2. CASE u # t
    BY <1>3, <2>2 DEF IInv, Shape, CallOK
  <2> QED
    BY <2>1, <2>2
<1>8. ASSUME ~dropped PROVE Own'
  <2>1. ASSUME Alone(t) PROVE OwnEntries(t)'
    <3>1. OwnEntries(t)
      BY <1>8, <2>1 DEF IInv, Own
    <3>2. PENDING_OPEN_PATH'[p] = None /\ PENDING_FD'[p] = None
      BY <1>1, <1>4, <3>1 DEF OwnEntries, FdOps
    <3> QED
      BY <1>1, <1>3, <1>5, <3>1, <3>2 DEF OwnEntries
  <2> QED
    BY <1>1, <1>3, <1>4, <1>8, <2>1, OthersStay DEF IInv
<1>9. ASSUME ~dropped PROVE NoStaleStash'
  <2>1. Justified(p)
    BY <1>2, <1>9 DEF IInv, NoStaleStash, Justified
  <2>2. \A u \in Threads : \A ops : u # t /\ Between(u, ops) => Between(u, ops)'
    BY <1>3 DEF Between
  <2>3. PENDING_OPEN_PATH'[p] # None =>
          \E u \in Threads : tgid[u] = p /\ Between(u, {"openat"})'
    <3>1. PENDING_OPEN_PATH'[p] # None =>
            call[t].op # "openat" /\ PENDING_OPEN_PATH'[p] = PENDING_OPEN_PATH[p]
      BY <1>1, <1>4
    <3>2. call[t].op # "openat" => ~Between(t, {"openat"})
      BY DEF Between
    <3> QED
      BY <2>1, <2>2, <3>1, <3>2 DEF Justified
  <2>4. PENDING_FD'[p] # None => \E u \in Threads : tgid[u] = p /\ Between(u, FdOps)'
    <3>1. PENDING_FD'[p] # None =>
            call[t].op \notin FdOps /\ PENDING_FD'[p] = PENDING_FD[p]
      BY <1>1, <1>4 DEF FdOps
    <3>2. call[t].op \notin FdOps => ~Between(t, FdOps)
      BY DEF Between
    <3> QED
      BY <2>1, <2>2, <3>1, <3>2 DEF Justified
  <2>5. Justified(p)'
    BY <1>1, <2>3, <2>4 DEF Justified
  <2> QED
    BY <1>1, <1>3, <1>4, <1>9, <2>5, JustifiedStay DEF IInv
<1> QED
  BY <1>1, <1>6, <1>7, <1>8, <1>9 DEF IInv, Own, NoStaleStash

(* Only a record can be output; that of a read or write carries the bytes  *)
(* the call returned.                                                      *)
LEMMA EventType ==
  ASSUME TypeOK, Shape, NEW t \in Threads, pc[t] = "emit"
  PROVE  LET e == Event(tgid[t], call[t])
         IN  /\ e \in FileEvent /\ e.pid = tgid[t] /\ e.kind = call[t].op
             /\ call[t].op \in {"read", "write"} => e.bytes = call[t].ret /\ call[t].ret \in Nat
<1> DEFINE p == tgid[t]
           c == call[t]
<1>1. c \in InFlight /\ CallOK(t) /\ p \in Tgids
  BY DEF TypeOK, Shape
<1>2. /\ c.op \in {"openat"} \cup FdOps
      /\ c.op = "openat" => c.got \in Paths /\ c.ret \in Fds
      /\ c.op \in FdOps => c.got \in Fds
      /\ c.op \in {"read", "write"} => c.ret \in Nat
  BY <1>1, FileTraceAssumption DEF CallOK, InFlight, Succeeded, FdOps
<1> HIDE DEF p, c
<1>3. Event(p, c) \in FileEvent
  BY <1>1, <1>2 DEF Event, FileEvent, FdOps
<1>4. /\ Event(p, c).pid = p /\ Event(p, c).kind = c.op
      /\ c.op \in {"read", "write"} => Event(p, c).bytes = c.ret
  BY DEF Event
<1> QED
  BY <1>2, <1>3, <1>4 DEF p, c

LEMMA EmitIInv == ASSUME IInv, NEW t \in Threads, Emit(t) PROVE IInv'
<1> DEFINE p == tgid[t]
<1> DEFINE c == call[t]
<1>1. /\ UNCHANGED <<tgid, fdtab, PENDING_OPEN_PATH, PENDING_FD>>
      /\ UNCHANGED <<files, truth, moved, made, dropped>>
      /\ Moves(t, "emit", "user", None) /\ pc[t] = "emit"
  BY DEF Emit, Moves, maps, history
<1>2. c \in InFlight /\ CallOK(t) /\ p \in Tgids
  BY <1>1 DEF IInv, TypeOK, Shape
<1>3. /\ pc' \in [Threads -> Phases] /\ call' \in [Threads -> InFlight \cup {None}]
      /\ \A u \in Threads : call'[u] = None <=> pc'[u] = "user"
      /\ pc'[t] = "user"
      /\ \A u \in Threads : u # t => pc'[u] = pc[u] /\ call'[u] = call[u]
  BY <1>1, MovesFacts DEF Phases, IInv
<1>4. Event(p, c) \in FileEvent
  BY <1>1, EventType DEF IInv
<1>5. file_events' \in Seq(FileEvent) /\ Len(file_events') <= RingCap /\ lost' \in BOOLEAN
  <2>1. file_events \in Seq(FileEvent) /\ Len(file_events) <= RingCap /\ lost \in BOOLEAN
    BY DEF IInv, TypeOK
  <2>2. CASE Len(file_events) < RingCap /\ file_events' = Append(file_events, Event(p, c))
                                        /\ lost' = lost
    <3> HIDE DEF p, c
    <3> QED
      BY <1>4, <2>1, <2>2, FileTraceAssumption
  <2>3. CASE lost' = TRUE /\ file_events' = file_events
    BY <2>1, <2>3
  <2> QED
    BY <2>2, <2>3 DEF Emit
<1>6. TypeOK'
  BY <1>1, <1>3, <1>5 DEF IInv, TypeOK
<1>7. Shape'
  BY <1>3 DEF IInv, Shape, CallOK
<1>8. ASSUME ~dropped PROVE Own'
  <2>1. ASSUME Alone(t) PROVE OwnEntries(t)'
    <3>1. OwnEntries(t)
      BY <1>8, <2>1 DEF IInv, Own
    <3> QED
      BY <1>1, <1>3, <3>1 DEF OwnEntries
  <2> QED
    BY <1>1, <1>3, <1>8, <2>1, OthersStay DEF IInv
<1>9. ASSUME ~dropped PROVE NoStaleStash'
  <2>1. \A u \in Threads : \A ops : Between(u, ops) => Between(u, ops)'
    BY <1>1, <1>3 DEF Between
  <2>2. Justified(p)'
    BY <1>1, <1>2, <1>9, <2>1 DEF IInv, NoStaleStash, Justified
  <2> QED
    BY <1>1, <1>3, <1>9, <2>2, JustifiedStay DEF IInv
<1> QED
  BY <1>1, <1>6, <1>7, <1>8, <1>9 DEF IInv, Own, NoStaleStash

(* A record makes a row of a row.                                          *)
LEMMA AfterType ==
  ASSUME NEW row \in FileStats \cup {None}, NEW e \in FileEvent
  PROVE  After(row, e) \in FileStats \cup {None}
<1>1. \A path \in Paths \cup {Unknown} : Fresh(path) \in FileStats
  BY DEF Fresh, FileStats
<1>2. CASE e.kind = "openat"
  <2>1. e.path \in Paths
    BY <1>2 DEF FileEvent, FdOps
  <2>2. After(row, e) = Fresh(e.path)
    BY <1>2 DEF After
  <2> QED
    BY <1>1, <2>1, <2>2
<1>3. CASE e.kind = "close"
  <2>1. \A x \in FileStats : [x EXCEPT !.closed = TRUE] \in FileStats
    BY DEF FileStats
  <2>2. After(row, e) = IF row = None THEN None ELSE [row EXCEPT !.closed = TRUE]
    BY <1>3 DEF After
  <2> QED
    BY <2>1, <2>2
<1>4. CASE e.kind # "openat" /\ e.kind # "close"
  <2>1. \A x \in FileStats : AddTo(x, e.kind, e.bytes) \in FileStats
    <3>1. e.bytes \in Nat
      BY DEF FileEvent
    <3> QED
      BY <3>1 DEF AddTo, FileStats
  <2>2. After(row, e) = Credit(row, e.kind, e.bytes)
    BY <1>4 DEF After
  <2> QED
    BY <1>1, <2>1, <2>2 DEF Credit
<1> QED
  BY <1>2, <1>3, <1>4

LEMMA DrainFileIInv == ASSUME IInv, DrainFile PROVE IInv'
<1> DEFINE e == Head(file_events)
<1>1. /\ UNCHANGED <<tgid, pc, call, fdtab, PENDING_OPEN_PATH, PENDING_FD>>
      /\ UNCHANGED <<truth, moved, made, dropped, lost>>
      /\ file_events # <<>> /\ file_events' = Tail(file_events)
      /\ files' = [files EXCEPT ![<<e.pid, e.fd>>] = After(files[<<e.pid, e.fd>>], e)]
  BY DEF DrainFile, maps, history
<1>2. e \in FileEvent /\ file_events' \in Seq(FileEvent) /\ Len(file_events') <= RingCap
  <2>1. file_events \in Seq(FileEvent) /\ Len(file_events) <= RingCap /\ file_events # <<>>
    BY <1>1 DEF IInv, TypeOK
  <2>2. e \in FileEvent
    BY <2>1
  <2>3. Tail(file_events) \in Seq(FileEvent) /\ Len(Tail(file_events)) = Len(file_events) - 1
    BY <2>1
  <2> QED
    BY <1>1, <2>1, <2>2, <2>3, FileTraceAssumption
<1> HIDE DEF e
<1>3. \A row \in FileStats \cup {None} : After(row, e) \in FileStats \cup {None}
  BY <1>2, AfterType
<1>4. files' \in [Rows -> FileStats \cup {None}]
  <2>1. <<e.pid, e.fd>> \in Rows
    BY <1>2 DEF FileEvent, Rows
  <2>2. files \in [Rows -> FileStats \cup {None}]
    BY DEF IInv, TypeOK
  <2>3. After(files[<<e.pid, e.fd>>], e) \in FileStats \cup {None}
    BY <1>3, <2>1, <2>2
  <2> QED
    BY <1>1, <2>2, <2>3
<1>5. TypeOK'
  BY <1>1, <1>2, <1>4 DEF IInv, TypeOK
<1>6. Shape' /\ Own' /\ NoStaleStash'
  BY <1>1 DEF IInv, Shape, CallOK, Own, Alone, OwnEntries, NoStaleStash, Between
<1> QED
  BY <1>5, <1>6 DEF IInv

-----------------------------------------------------------------------------
LEMMA StepIInv == IInv /\ [Next]_vars => IInv'
<1> SUFFICES ASSUME IInv, [Next]_vars PROVE IInv'
  OBVIOUS
<1>1. CASE UNCHANGED vars
  <2>1. /\ UNCHANGED <<tgid, pc, call, fdtab, PENDING_OPEN_PATH, PENDING_FD, file_events>>
        /\ UNCHANGED <<files, truth, moved, made, dropped, lost>>
    BY <1>1 DEF vars, maps, history
  <2> QED
    BY <2>1 DEF IInv, TypeOK, Shape, CallOK, Own, Alone, OwnEntries, NoStaleStash, Between
<1>2. ASSUME NEW t \in Threads, NEW c \in Calls, SysEnter(t, c) PROVE IInv'
  BY <1>2, SysEnterIInv
<1>3. ASSUME NEW t \in Threads, Run(t) PROVE IInv'
  BY <1>3, RunIInv
<1>4. ASSUME NEW t \in Threads, SysExit(t) PROVE IInv'
  BY <1>4, SysExitIInv
<1>5. ASSUME NEW t \in Threads, Remove(t) PROVE IInv'
  BY <1>5, RemoveIInv
<1>6. ASSUME NEW t \in Threads, Emit(t) PROVE IInv'
  BY <1>6, EmitIInv
<1>7. CASE DrainFile
  BY <1>7, DrainFileIInv
<1>8. ASSUME NEW t \in Threads, NEW c \in Calls, EnterUnseen(t, c) PROVE IInv'
  BY <1>8, EnterUnseenIInv
<1>9. ASSUME NEW t \in Threads, ExitUnseen(t) PROVE IInv'
  BY <1>9, ExitUnseenIInv
<1> QED
  BY <1>1, <1>2, <1>3, <1>4, <1>5, <1>6, <1>7, <1>8, <1>9 DEF Next

LEMMA Invariance == Spec => []IInv
BY InitIInv, StepIInv, PTL DEF Spec

(* The type invariant; in particular a descriptor is what an Open record   *)
(* carries, and FILE_EVENTS never exceeds its limit.                       *)
THEOREM TypeCorrect == Spec => []TypeOK
<1>1. IInv => TypeOK
  BY DEF IInv
<1> QED
  BY <1>1, Invariance, PTL

-----------------------------------------------------------------------------
(* EmitsOwnCall.  An argument that sys_enter stashed for a call stays in   *)
(* its map until sys_exit has read it, also when older stashes are left    *)
(* there: of a process with one thread nobody else touches the entry.      *)
Keeps(t) ==
  /\ pc[t] \in {"inside", "returning"} =>
       /\ call[t].op = "openat" => PENDING_OPEN_PATH[tgid[t]] = call[t].arg
       /\ call[t].op \in FdOps => PENDING_FD[tgid[t]] = call[t].arg
  /\ pc[t] \in {"remove", "emit"} => call[t].got = call[t].arg

Kept == \A t \in Threads :
  Alone(t) /\ pc[t] # "user" /\ call[t].stashed => Keeps(t)

LEMMA KeptInit == Init => Kept
<1> SUFFICES ASSUME Init, NEW t \in Threads, pc[t] # "user" PROVE ~call[t].stashed
  BY DEF Kept
<1>1. call[t] # None
  BY DEF Init
<1> QED
  BY <1>1 DEF Init, Entered

(* Only thread t has moved and only the entries of its process changed.    *)
LEMMA KeptOthers ==
  ASSUME TypeOK, Kept, NEW t \in Threads, tgid' = tgid,
         \A u \in Threads : u # t => pc'[u] = pc[u] /\ call'[u] = call[u],
         \A q \in Tgids : q # tgid[t] => /\ PENDING_OPEN_PATH'[q] = PENDING_OPEN_PATH[q]
                                         /\ PENDING_FD'[q] = PENDING_FD[q],
         Alone(t) /\ pc'[t] # "user" /\ call'[t].stashed => Keeps(t)'
  PROVE  Kept'
<1> SUFFICES ASSUME NEW u \in Threads, Alone(u)', pc'[u] # "user", call'[u].stashed
             PROVE  Keeps(u)'
  BY DEF Kept
<1>1. Alone(u)
  BY DEF Alone
<1>2. CASE u = t
  BY <1>1, <1>2
<1>3. CASE u # t
  <2>1. tgid[u] # tgid[t] /\ tgid[u] \in Tgids
    BY <1>1, <1>3 DEF Alone, TypeOK
  <2>2. Keeps(u)
    BY <1>1, <1>3 DEF Kept
  <2> QED
    BY <1>3, <2>1, <2>2 DEF Keeps, FdOps
<1> QED
  BY <1>2, <1>3

LEMMA KeptStep == IInv /\ IInv' /\ Kept /\ [Next]_vars => Kept'
<1> SUFFICES ASSUME IInv, IInv', Kept, [Next]_vars PROVE Kept'
  OBVIOUS
<1> USE DEF IInv
<1>1. CASE UNCHANGED <<tgid, pc, call, maps>>
  BY <1>1 DEF Kept, Alone, Keeps, maps, FdOps
<1>2. ASSUME NEW t \in Threads, NEW c \in Calls, SysEnter(t, c) PROVE Kept'
  <2>1. PICK stashed \in BOOLEAN :
          /\ Enters(t, c, stashed)
          /\ stashed /\ c.op = "openat" => PENDING_OPEN_PATH'[tgid[t]] = c.arg
          /\ stashed /\ c.op \in FdOps => PENDING_FD'[tgid[t]] = c.arg
          /\ \A q \in Tgids : q # tgid[t] => /\ PENDING_OPEN_PATH'[q] = PENDING_OPEN_PATH[q]
                                             /\ PENDING_FD'[q] = PENDING_FD[q]
    BY <1>2, SysEnterFacts
  <2>2. /\ tgid' = tgid /\ pc'[t] = "inside" /\ call'[t] = Entered(c, stashed)
        /\ \A u \in Threads : u # t => pc'[u] = pc[u] /\ call'[u] = call[u]
    BY <2>1 DEF Enters, Moves, TypeOK
  <2>3. Alone(t) /\ pc'[t] # "user" /\ call'[t].stashed => Keeps(t)'
    BY <2>1, <2>2 DEF Keeps, Entered, FdOps
  <2> QED
    BY <2>1, <2>2, <2>3, KeptOthers
<1>3. ASSUME NEW t \in Threads, NEW c \in Calls, EnterUnseen(t, c) PROVE Kept'
  <2>1. /\ tgid' = tgid /\ UNCHANGED <<PENDING_OPEN_PATH, PENDING_FD>>
        /\ call'[t] = Entered(c, FALSE)
        /\ \A u \in Threads : u # t => pc'[u] = pc[u] /\ call'[u] = call[u]
    BY <1>3 DEF EnterUnseen, Enters, Moves, maps, TypeOK
  <2>2. ~call'[t].stashed
    BY <2>1 DEF Entered
  <2> QED
    BY <2>1, <2>2, KeptOthers
<1>4. ASSUME NEW t \in Threads, Run(t) PROVE Kept'
  <2>1. PICK r : Moves(t, "inside", "returning", [call[t] EXCEPT !.ret = r])
    BY <1>4 DEF Run
  <2>2. /\ tgid' = tgid /\ UNCHANGED <<PENDING_OPEN_PATH, PENDING_FD>>
        /\ pc[t] = "inside" /\ pc'[t] = "returning"
        /\ call[t] \in InFlight /\ call'[t] = [call[t] EXCEPT !.ret = r]
        /\ \A u \in Threads : u # t => pc'[u] = pc[u] /\ call'[u] = call[u]
    BY <1>4, <2>1 DEF Run, Moves, maps, TypeOK
  <2>3. /\ call'[t].op = call[t].op /\ call'[t].arg = call[t].arg
        /\ call'[t].stashed = call[t].stashed
    BY <2>2 DEF InFlight
  <2>4. Alone(t) /\ pc'[t] # "user" /\ call'[t].stashed => Keeps(t)'
    BY <2>2, <2>3 DEF Kept, Keeps, FdOps
  <2> QED
    BY <2>2, <2>4, KeptOthers
<1>5. ASSUME NEW t \in Threads, UNCHANGED <<tgid, maps>>,
             Moves(t, "returning", "user", None) \/ Moves(t, "emit", "user", None)
      PROVE  Kept'
  <2>1. /\ UNCHANGED <<tgid, PENDING_OPEN_PATH, PENDING_FD>> /\ pc'[t] = "user"
        /\ \A u \in Threads : u # t => pc'[u] = pc[u] /\ call'[u] = call[u]
    BY <1>5 DEF Moves, maps, TypeOK
  <2> QED
    BY <2>1, KeptOthers
<1>6. ASSUME NEW t \in Threads, SysExit(t) PROVE Kept'
  <2>1. UNCHANGED <<tgid, PENDING_OPEN_PATH, PENDING_FD>> /\ UNCHANGED maps
    BY <1>6, SysExitFacts DEF maps
  <2>2. CASE Moves(t, "returning", "user", None)
    BY <1>5, <2>1, <2>2
  <2>3. ASSUME NEW v, Moves(t, "returning", "remove", [call[t] EXCEPT !.got = v]),
               \/ call[t].op = "openat" /\ v = PENDING_OPEN_PATH[tgid[t]]
               \/ call[t].op \in FdOps /\ v = PENDING_FD[tgid[t]]
        PROVE  Kept'
    <3>1. /\ pc[t] = "returning" /\ pc'[t] = "remove"
          /\ call[t] \in InFlight /\ call'[t] = [call[t] EXCEPT !.got = v]
          /\ \A u \in Threads : u # t => pc'[u] = pc[u] /\ call'[u] = call[u]
      BY <2>3 DEF Moves, TypeOK
    <3>2. /\ call'[t].arg = call[t].arg /\ call'[t].got = v
          /\ call'[t].stashed = call[t].stashed
      BY <3>1 DEF InFlight
    <3>3. Alone(t) /\ pc'[t] # "user" /\ call'[t].stashed => Keeps(t)'
      BY <2>3, <3>1, <3>2 DEF Kept, Keeps, FdOps
    <3> QED
      BY <2>1, <3>1, <3>3, KeptOthers
  <2> QED
    BY <1>6, <2>2, <2>3, SysExitFacts
<1>7. ASSUME NEW t \in Threads, ExitUnseen(t) PROVE Kept'
  BY <1>5, <1>7 DEF ExitUnseen
<1>8. ASSUME NEW t \in Threads, Remove(t) PROVE Kept'
  <2>1. PICK to \in {"emit", "user"} : Moves(t, "remove", to, call[t])
    BY <1>8 DEF Remove
  <2>2. /\ tgid' = tgid /\ pc[t] = "remove" /\ pc'[t] = to
        /\ to # "user" => call'[t] = call[t]
        /\ \A u \in Threads : u # t => pc'[u] = pc[u] /\ call'[u] = call[u]
    BY <1>8, <2>1 DEF Remove, Moves, TypeOK
  <2>3. \A q \in Tgids : q # tgid[t] => /\ PENDING_OPEN_PATH'[q] = PENDING_OPEN_PATH[q]
                                        /\ PENDING_FD'[q] = PENDING_FD[q]
    BY <1>8 DEF Remove, Unstash, TypeOK
  <2>4. Alone(t) /\ pc'[t] # "user" /\ call'[t].stashed => Keeps(t)'
    BY <2>2 DEF Kept, Keeps
  <2> QED
    BY <2>2, <2>3, <2>4, KeptOthers
<1>9. ASSUME NEW t \in Threads, Emit(t) PROVE Kept'
  BY <1>5, <1>9 DEF Emit
<1>10. CASE DrainFile
  BY <1>1, <1>10 DEF DrainFile
<1>11. CASE UNCHANGED vars
  BY <1>1, <1>11 DEF vars
<1> QED
  BY <1>2, <1>3, <1>4, <1>6, <1>7, <1>8, <1>9, <1>10, <1>11 DEF Next

(* handle_file_syscall reports for a process with one thread each result   *)
(* with the argument of the same call, whatever other processes do to the  *)
(* maps and their limits, and whatever a call whose sys_exit was not seen  *)
(* has left there.                                                         *)
THEOREM OwnCallCorrect == Spec => []EmitsOwnCall
<1>1. Spec => [](IInv /\ Kept)
  BY KeptInit, KeptStep, Invariance, PTL DEF Spec
<1>2. IInv /\ Kept => EmitsOwnCall
  <2> SUFFICES ASSUME IInv, Kept, NEW t \in Threads, Alone(t), pc[t] = "emit",
                      ~dropped \/ call[t].stashed
               PROVE  call[t].got = call[t].arg
    BY DEF EmitsOwnCall
  <2>1. CASE call[t].stashed
    BY <2>1 DEF Kept, Keeps
  <2>2. CASE ~dropped
    <3>1. call[t].got # None
      BY DEF IInv, Shape, CallOK
    <3> QED
      BY <2>2, <3>1 DEF IInv, Own, OwnEntries
  <2> QED
    BY <2>1, <2>2
<1> QED
  BY <1>1, <1>2, PTL

(* The get and the remove of sys_exit are two steps, any number of threads *)
(* share an entry, and yet none outlives the calls that it can be for.     *)
THEOREM NoStaleCorrect == Spec => []NoStaleStash
<1>1. IInv => NoStaleStash
  BY DEF IInv
<1> QED
  BY <1>1, Invariance, PTL

-----------------------------------------------------------------------------
(* VolumeNeverOverstated.  The bytes a process has moved cover those that  *)
(* its rows show, those of its records in the ring, and the results of its *)
(* calls that are back from the kernel and not yet reported.               *)

Transfer == {"read", "write"}

Field(op) == IF op = "read" THEN "bytes_read" ELSE "bytes_written"

Amount(e, p, op) == IF e.pid = p /\ e.kind = op THEN e.bytes ELSE 0

(* What a record adds to the bytes of process p.                           *)
Counting(p, op) ==
  {x \in Nat \X FileEvent \X Nat : x[3] = x[1] + Amount(x[2], p, op)}

Owed(t, p, op) ==
  IF /\ tgid[t] = p /\ pc[t] \in {"returning", "remove", "emit"}
     /\ call[t].op = op /\ call[t].ret >= 0
  THEN call[t].ret ELSE 0

Owing(p, op) == SumFunction([t \in Threads |-> Owed(t, p, op)])

(* s bounds what is shown, n what will be once the ring is drained.        *)
Booked(p, op, s, n) ==
  /\ s \in Nat /\ n \in Nat
  /\ Shown(p, Field(op)) <= s
  /\ LeadsTo(Counting(p, op), file_events, s, n)
  /\ n + Owing(p, op) <= moved[p][op]

Covered == \A p \in Tgids, op \in Transfer : \E s, n : Booked(p, op, s, n)

LEMMA OwedType ==
  ASSUME TypeOK, NEW p, NEW op
  PROVE  /\ [t \in Threads |-> Owed(t, p, op)] \in [Threads -> Nat]
         /\ Owing(p, op) \in Nat
<1>1. ASSUME NEW t \in Threads PROVE Owed(t, p, op) \in Nat
  <2>1. pc[t] \in {"returning", "remove", "emit"} => call[t].ret \in Nat \cup {-1}
    BY DEF TypeOK, InFlight
  <2> QED
    BY <2>1 DEF Owed
<1>2. [t \in Threads |-> Owed(t, p, op)] \in [Threads -> Nat]
  BY <1>1
<1>3. Owing(p, op) \in Nat
  <2> DEFINE f == [t \in Threads |-> Owed(t, p, op)]
  <2> HIDE DEF f
  <2> QED
    BY <1>2, SumType, FileTraceAssumption DEF Owing, f
<1> QED
  BY <1>2, <1>3

(* A step of thread t alone.                                               *)
LEMMA OwingStep ==
  ASSUME TypeOK, TypeOK', NEW t \in Threads, NEW p, NEW op, tgid' = tgid,
         \A u \in Threads : u # t => pc'[u] = pc[u] /\ call'[u] = call[u]
  PROVE  /\ Owing(p, op)' = Owing(p, op) + (Owed(t, p, op)' - Owed(t, p, op))
         /\ Owed(t, p, op) \in Nat /\ Owed(t, p, op)' \in Nat
         /\ Owing(p, op) \in Nat /\ Owing(p, op)' \in Nat
<1> DEFINE f == [u \in Threads |-> Owed(u, p, op)]
           h == [u \in Threads |-> Owed(u, p, op)']
<1>1. f \in [Threads -> Nat] /\ Owing(p, op) \in Nat
  BY OwedType
<1>2. h \in [Threads -> Nat]
  <2> SUFFICES ASSUME NEW u \in Threads PROVE Owed(u, p, op)' \in Nat
    OBVIOUS
  <2>1. pc'[u] \in {"returning", "remove", "emit"} => call'[u].ret \in Nat \cup {-1}
    BY DEF TypeOK, InFlight
  <2> QED
    BY <2>1 DEF Owed
<1>3. \A u \in Threads : u # t => h[u] = f[u]
  BY DEF Owed
<1>4. f[t] = Owed(t, p, op) /\ h[t] = Owed(t, p, op)'
  OBVIOUS
<1>5. Owing(p, op) = SumFunction(f) /\ Owing(p, op)' = SumFunction(h)
  BY DEF Owing
<1> HIDE DEF f, h
<1>6. f \in [Threads -> Int] /\ h \in [Threads -> Int]
  BY <1>1, <1>2
<1>7. SumFunction(h) = SumFunction(f) + (h[t] - f[t])
  BY <1>3, <1>6, SumUpdate, FileTraceAssumption
<1>8. SumFunction(h) \in Nat
  BY <1>2, SumType, FileTraceAssumption
<1> QED
  BY <1>1, <1>2, <1>4, <1>5, <1>7, <1>8

LEMMA ShownType ==
  ASSUME TypeOK, NEW p \in Tgids, NEW op \in Transfer
  PROVE  /\ [d \in Fds |-> IF files[<<p, d>>] = None THEN 0 ELSE files[<<p, d>>][Field(op)]]
              \in [Fds -> Nat]
         /\ Shown(p, Field(op)) \in Nat
<1> DEFINE f == [d \in Fds |-> IF files[<<p, d>>] = None THEN 0 ELSE files[<<p, d>>][Field(op)]]
<1>1. ASSUME NEW d \in Fds PROVE f[d] \in Nat
  <2>1. files[<<p, d>>] \in FileStats \cup {None}
    BY DEF TypeOK, Rows
  <2>2. \A x \in FileStats : x[Field(op)] \in Nat
    BY DEF FileStats, Field
  <2> QED
    BY <2>1, <2>2
<1>2. f \in [Fds -> Nat]
  BY <1>1
<1> HIDE DEF f
<1>3. SumFunction(f) \in Nat
  BY <1>2, SumType, FileTraceAssumption
<1> QED
  BY <1>2, <1>3 DEF Shown, f

(* A step of one thread that neither outputs nor drains, and that credits  *)
(* the process with what the thread owes from now on.                      *)
LEMMA BookedQuiet ==
  ASSUME TypeOK, TypeOK', NEW t \in Threads, tgid' = tgid,
         \A u \in Threads : u # t => pc'[u] = pc[u] /\ call'[u] = call[u],
         UNCHANGED <<file_events, files>>,
         NEW p \in Tgids, NEW op \in Transfer,
         moved'[p][op] >= moved[p][op] + (Owed(t, p, op)' - Owed(t, p, op)),
         NEW s, NEW n, Booked(p, op, s, n)
  PROVE  Booked(p, op, s, n)'
<1>1. /\ Owing(p, op)' = Owing(p, op) + (Owed(t, p, op)' - Owed(t, p, op))
      /\ Owed(t, p, op) \in Nat /\ Owed(t, p, op)' \in Nat
      /\ Owing(p, op) \in Nat /\ Owing(p, op)' \in Nat
  BY OwingStep
<1>2. moved[p][op] \in Nat /\ moved'[p][op] \in Nat
  BY DEF TypeOK, Transfer
<1>3. s \in Nat /\ n \in Nat /\ n + Owing(p, op) <= moved[p][op]
  BY DEF Booked
<1>4. n + Owing(p, op)' <= moved'[p][op]
  BY <1>1, <1>2, <1>3
<1>5. Shown(p, Field(op))' = Shown(p, Field(op))
  BY DEF Shown, Field
<1>6. Shown(p, Field(op))' <= s
  BY <1>5 DEF Booked
<1>7. LeadsTo(Counting(p, op), file_events', s, n)
  BY DEF Booked
<1>8. Counting(p, op)' = Counting(p, op)
  BY DEF Counting, FileEvent, Amount
<1> QED
  BY <1>3, <1>4, <1>6, <1>7, <1>8 DEF Booked

LEMMA EntersCovered ==
  ASSUME IInv, IInv', Covered, NEW t \in Threads, NEW c, NEW stashed, Enters(t, c, stashed)
  PROVE  Covered'
<1> SUFFICES ASSUME NEW p \in Tgids, NEW op \in Transfer PROVE \E s, n : Booked(p, op, s, n)'
  BY DEF Covered
<1>1. PICK s, n : Booked(p, op, s, n)
  BY DEF Covered
<1>2. /\ UNCHANGED <<tgid, file_events, files, moved>>
      /\ pc[t] = "user" /\ pc'[t] = "inside"
      /\ \A u \in Threads : u # t => pc'[u] = pc[u] /\ call'[u] = call[u]
  BY DEF Enters, Moves, IInv, TypeOK
<1>3. Owed(t, p, op) = 0 /\ Owed(t, p, op)' = 0
  BY <1>2 DEF Owed
<1>4. moved[p][op] \in Nat
  BY DEF IInv, TypeOK, Transfer
<1>5. Booked(p, op, s, n)'
  BY <1>1, <1>2, <1>3, <1>4, BookedQuiet DEF IInv
<1> QED
  BY <1>5

(* The kernel moves the bytes before the result can be reported.           *)
LEMMA RunCovered ==
  ASSUME IInv, IInv', Covered, NEW t \in Threads, Run(t)
  PROVE  Covered'
<1> SUFFICES ASSUME NEW p \in Tgids, NEW op \in Transfer PROVE \E s, n : Booked(p, op, s, n)'
  BY DEF Covered
<1>1. PICK s, n : Booked(p, op, s, n)
  BY DEF Covered
<1>2. UNCHANGED <<tgid, file_events, files>>
  BY DEF Run
<1>3. PICK r \in Fds \cup {-1, 0, 1} :
        /\ Moves(t, "inside", "returning", [call[t] EXCEPT !.ret = r])
        /\ \/ Fails(tgid[t], call[t], r)
           \/ Opens(tgid[t], call[t], r)
           \/ Transfers(tgid[t], call[t], r)
           \/ Closes(tgid[t], call[t], r)
  BY DEF Run
<1>4. /\ pc[t] = "inside" /\ pc'[t] = "returning" /\ call[t] \in InFlight
      /\ call'[t] = [call[t] EXCEPT !.ret = r]
      /\ \A u \in Threads : u # t => pc'[u] = pc[u] /\ call'[u] = call[u]
  BY <1>3 DEF Moves, IInv, TypeOK
<1>5. call'[t].op = call[t].op /\ call'[t].ret = r
  BY <1>4 DEF InFlight
<1>6. /\ Owed(t, p, op) = 0
      /\ Owed(t, p, op)' = IF tgid[t] = p /\ call[t].op = op /\ r >= 0 THEN r ELSE 0
  BY <1>2, <1>4, <1>5 DEF Owed
<1>7. /\ moved \in [Tgids -> [read : Nat, write : Nat]] /\ moved[p][op] \in Nat
      /\ tgid[t] \in Tgids
  BY DEF IInv, TypeOK, Transfer
<1>8. moved'[p][op] >= moved[p][op] + Owed(t, p, op)'
  <2>1. CASE Fails(tgid[t], call[t], r)
    BY <1>6, <1>7, <2>1 DEF Fails
  <2>2. CASE Opens(tgid[t], call[t], r) \/ Closes(tgid[t], call[t], r)
    BY <1>6, <1>7, <2>2 DEF Opens, Closes, Transfer
  <2>3. CASE Transfers(tgid[t], call[t], r)
    <3>1. /\ moved' = [moved EXCEPT ![tgid[t]][call[t].op] = @ + r]
          /\ call[t].op \in Transfer /\ r \in 0..1
      BY <2>3 DEF Transfers, Transfer
    <3>2. CASE tgid[t] = p /\ call[t].op = op
      <4>1. moved' = [moved EXCEPT ![p][op] = @ + r] /\ Owed(t, p, op)' = r
        BY <1>6, <3>1, <3>2
      <4>2. moved'[p][op] = moved[p][op] + r
        BY <1>7, <4>1 DEF Transfer
      <4> QED
        BY <1>7, <3>1, <4>1, <4>2
    <3>3. CASE tgid[t] # p \/ call[t].op # op
      <4>1. Owed(t, p, op)' = 0
        BY <1>6, <3>3
      <4>2. moved'[p][op] = moved[p][op]
        BY <1>7, <3>1, <3>3 DEF Transfer
      <4> QED
        BY <1>7, <4>1, <4>2
    <3> QED
      BY <3>2, <3>3
  <2> QED
    BY <1>3, <2>1, <2>2, <2>3
<1>9. Booked(p, op, s, n)'
  <2>1. Owed(t, p, op)' \in Nat /\ Owed(t, p, op)' - 0 = Owed(t, p, op)'
    BY <1>2, <1>4, OwingStep DEF IInv
  <2>2. moved'[p][op] >= moved[p][op] + (Owed(t, p, op)' - Owed(t, p, op))
    BY <1>6, <1>8, <2>1
  <2> QED
    BY <1>1, <1>2, <1>4, <2>2, BookedQuiet DEF IInv
<1> QED
  BY <1>9

(* A thread that gets to its next step in sys_exit owes what it owed, one  *)
(* that goes back to user mode nothing.                                    *)
LEMMA ForwardCovered ==
  ASSUME IInv, IInv', Covered, NEW t \in Threads, UNCHANGED <<tgid, file_events, files, moved>>,
         pc[t] \in {"returning", "remove", "emit"},
         \/ pc'[t] = "user"
         \/ /\ pc'[t] \in {"remove", "emit"}
            /\ call'[t].op = call[t].op /\ call'[t].ret = call[t].ret,
         \A u \in Threads : u # t => pc'[u] = pc[u] /\ call'[u] = call[u]
  PROVE  Covered'
<1> SUFFICES ASSUME NEW p \in Tgids, NEW op \in Transfer PROVE \E s, n : Booked(p, op, s, n)'
  BY DEF Covered
<1>1. PICK s, n : Booked(p, op, s, n)
  BY DEF Covered
<1>2. Owed(t, p, op) \in Nat /\ Owed(t, p, op)' \in Nat
  BY OwingStep DEF IInv
<1>3. Owed(t, p, op)' = Owed(t, p, op) \/ Owed(t, p, op)' = 0
  BY DEF Owed
<1>4. moved[p][op] \in Nat
  BY DEF IInv, TypeOK, Transfer
<1>5. moved'[p][op] >= moved[p][op] + (Owed(t, p, op)' - Owed(t, p, op))
  BY <1>2, <1>3, <1>4
<1>6. Booked(p, op, s, n)'
  BY <1>1, <1>5, BookedQuiet DEF IInv
<1> QED
  BY <1>6

(* What the thread owed is now in its record, or lost.                     *)
LEMMA EmitCovered ==
  ASSUME IInv, IInv', Covered, NEW t \in Threads, Emit(t)
  PROVE  Covered'
<1> DEFINE e == Event(tgid[t], call[t])
<1>1. /\ UNCHANGED <<tgid, files, moved>> /\ pc[t] = "emit" /\ pc'[t] = "user"
      /\ \A u \in Threads : u # t => pc'[u] = pc[u] /\ call'[u] = call[u]
  BY DEF Emit, Moves, history, IInv, TypeOK
<1>2. CASE file_events' = file_events
  BY <1>1, <1>2, ForwardCovered
<1>3. CASE file_events' = Append(file_events, e)
  <2> SUFFICES ASSUME NEW p \in Tgids, NEW op \in Transfer PROVE \E s, n : Booked(p, op, s, n)'
    BY DEF Covered
  <2>1. PICK s, n : Booked(p, op, s, n)
    BY DEF Covered
  <2>2. /\ e \in FileEvent /\ e.pid = tgid[t] /\ e.kind = call[t].op
        /\ call[t].op \in Transfer => e.bytes = call[t].ret /\ call[t].ret \in Nat
    BY <1>1, EventType DEF IInv, Transfer
  <2> HIDE DEF e
  <2>3. Owed(t, p, op) = Amount(e, p, op) /\ Owed(t, p, op)' = 0
    BY <1>1, <2>2 DEF Owed, Amount
  <2>4. /\ Owing(p, op)' = Owing(p, op) + (Owed(t, p, op)' - Owed(t, p, op))
        /\ Owed(t, p, op) \in Nat /\ Owing(p, op) \in Nat /\ Owing(p, op)' \in Nat
    BY <1>1, OwingStep DEF IInv
  <2> DEFINE m == n + Amount(e, p, op)
  <2>5. n \in Nat /\ s \in Nat /\ n + Owing(p, op) <= moved[p][op] /\ moved[p][op] \in Nat
    BY <2>1 DEF Booked, IInv, TypeOK, Transfer
  <2>6. m \in Nat /\ m + Owing(p, op)' <= moved'[p][op]
    BY <1>1, <2>3, <2>4, <2>5
  <2>7. <<n, e, m>> \in Counting(p, op)
    BY <2>2, <2>5, <2>6 DEF Counting
  <2> HIDE DEF m
  <2>8. LeadsTo(Counting(p, op), file_events', s, m)
    <3>1. file_events \in Seq(FileEvent)
      BY DEF IInv, TypeOK
    <3> QED
      BY <1>3, <2>1, <2>2, <2>7, <3>1, LeadsToAppend DEF Booked
  <2>9. Shown(p, Field(op))' <= s
    BY <1>1, <2>1 DEF Booked, Shown, Field
  <2>10. Counting(p, op)' = Counting(p, op)
    BY DEF Counting, FileEvent, Amount
  <2> QED
    BY <2>5, <2>6, <2>8, <2>9, <2>10 DEF Booked
<1> QED
  BY <1>2, <1>3 DEF Emit

(* A record raises the bytes that its row shows by what it carries at most. *)
LEMMA AfterShown ==
  ASSUME NEW row \in FileStats \cup {None}, NEW e \in FileEvent, NEW op \in Transfer
  PROVE  LET v(x) == IF x = None THEN 0 ELSE x[Field(op)]
         IN  /\ v(row) \in Nat /\ v(After(row, e)) \in Nat
             /\ v(After(row, e)) <= v(row) + (IF e.kind = op THEN e.bytes ELSE 0)
<1> DEFINE v(x) == IF x = None THEN 0 ELSE x[Field(op)]
           d == IF e.kind = op THEN e.bytes ELSE 0
<1>1. d \in Nat /\ e.kind \in {"openat"} \cup FdOps /\ e.bytes \in Nat
  BY DEF FileEvent
<1>2. \A x \in FileStats : x[Field(op)] \in Nat
  BY DEF FileStats, Field
<1>3. \A x \in FileStats \cup {None} : v(x) \in Nat
  BY <1>2
<1>4. After(row, e) \in FileStats \cup {None}
  BY AfterType
<1>5. \A path \in Paths \cup {Unknown} : Fresh(path) \in FileStats /\ Fresh(path)[Field(op)] = 0
  BY DEF Fresh, FileStats, Field
<1>6. CASE e.kind = "openat"
  <2>1. After(row, e) = Fresh(e.path) /\ e.path \in Paths
    BY <1>6 DEF After, FileEvent, FdOps
  <2>2. v(After(row, e)) = 0
    BY <1>5, <2>1
  <2> QED
    BY <1>1, <1>3, <1>4, <2>2
<1>7. CASE e.kind = "close"
  <2>1. \A x \in FileStats : [x EXCEPT !.closed = TRUE][Field(op)] = x[Field(op)]
    BY DEF FileStats, Field
  <2>2. After(row, e) = IF row = None THEN None ELSE [row EXCEPT !.closed = TRUE]
    BY <1>7 DEF After
  <2>3. v(After(row, e)) = v(row) \/ v(After(row, e)) = 0
    BY <2>1, <2>2
  <2> QED
    BY <1>1, <1>3, <1>4, <2>3
<1>8. CASE e.kind \in Transfer
  <2> DEFINE x == IF row = None THEN Fresh(Unknown) ELSE row
  <2>1. x \in FileStats /\ x[Field(op)] \in Nat /\ (row = None => x[Field(op)] = 0)
    BY <1>2, <1>5
  <2>2. After(row, e) = AddTo(x, e.kind, e.bytes)
    BY <1>8 DEF After, Credit, Transfer
  <2> HIDE DEF x
  <2>3. AddTo(x, e.kind, e.bytes)[Field(op)] = x[Field(op)] + d
    BY <1>1, <1>8, <2>1 DEF AddTo, Field, Transfer, FileStats
  <2>4. x[Field(op)] = v(row)
    BY <2>1 DEF x
  <2>5. v(After(row, e)) = v(row) + d \/ v(After(row, e)) = 0
    BY <2>2, <2>3, <2>4
  <2> QED
    BY <1>1, <1>3, <1>4, <2>5
<1> QED
  BY <1>1, <1>6, <1>7, <1>8 DEF FdOps, Transfer

LEMMA DrainFileCovered ==
  ASSUME IInv, IInv', Covered, DrainFile
  PROVE  Covered'
<1> SUFFICES ASSUME NEW p \in Tgids, NEW op \in Transfer PROVE \E s, n : Booked(p, op, s, n)'
  BY DEF Covered
<1> DEFINE e == Head(file_events)
           k == <<e.pid, e.fd>>
           v(row) == IF row = None THEN 0 ELSE row[Field(op)]
           f == [d \in Fds |-> v(files[<<p, d>>])]
           h == [d \in Fds |-> v(files'[<<p, d>>])]
<1>1. PICK s, n : Booked(p, op, s, n)
  BY DEF Covered
<1>2. /\ UNCHANGED <<tgid, pc, call, moved>>
      /\ file_events # << >> /\ file_events' = Tail(file_events)
      /\ files' = [files EXCEPT ![k] = After(files[k], e)]
  BY DEF DrainFile, history
<1>3. /\ file_events \in Seq(FileEvent) /\ files \in [Rows -> FileStats \cup {None}]
      /\ moved[p][op] \in Nat
  BY DEF IInv, TypeOK, Transfer
<1>4. e \in FileEvent /\ k \in Rows /\ e.fd \in Fds
  BY <1>2, <1>3 DEF FileEvent, Rows
<1>5. PICK u : <<s, e, u>> \in Counting(p, op) /\ LeadsTo(Counting(p, op), file_events', u, n)
  BY <1>1, <1>2, <1>3, LeadsToDrain DEF Booked
<1> HIDE DEF e
<1>6. u \in Nat /\ u = s + Amount(e, p, op) /\ Amount(e, p, op) \in Nat
  BY <1>4, <1>5 DEF Counting, Amount, FileEvent
<1>7. f \in [Fds -> Nat] /\ Shown(p, Field(op)) = SumFunction(f) /\ SumFunction(f) \in Nat
  BY ShownType DEF IInv, Shown
<1>8. Shown(p, Field(op))' = SumFunction(h)
  BY DEF Shown, Field
<1>9. SumFunction(h) <= u
  <2>1. CASE e.pid # p
    <3>1. \A d \in Fds : files'[<<p, d>>] = files[<<p, d>>]
      BY <1>2, <1>3, <2>1 DEF Rows
    <3>2. h = f
      BY <3>1
    <3> HIDE DEF f, h
    <3>3. SumFunction(h) <= s /\ s \in Nat
      BY <1>1, <1>7, <3>2 DEF Booked
    <3> QED
      BY <1>6, <1>7, <3>2, <3>3
  <2>2. CASE e.pid = p
    <3> DEFINE x == e.fd
    <3>1. /\ files'[<<p, x>>] = After(files[<<p, x>>], e)
          /\ \A d \in Fds : d # x => files'[<<p, d>>] = files[<<p, d>>]
          /\ files[<<p, x>>] \in FileStats \cup {None} /\ x \in Fds
      BY <1>2, <1>3, <1>4, <2>2 DEF Rows
    <3>2. /\ h[x] = v(After(files[<<p, x>>], e)) /\ f[x] = v(files[<<p, x>>])
          /\ \A d \in Fds : d # x => h[d] = f[d]
      BY <3>1
    <3>3. h[x] \in Nat /\ h[x] <= f[x] + Amount(e, p, op)
      BY <1>4, <2>2, <3>1, <3>2, AfterShown DEF Amount
    <3>4. h \in [Fds -> Nat]
      <4>1. \A d \in Fds : h[d] \in Nat
        BY <1>7, <3>2, <3>3
      <4>2. h = [d \in Fds |-> h[d]]
        OBVIOUS
      <4> HIDE DEF h
      <4> QED
        BY <4>1, <4>2
    <3>5. x \in Fds /\ f[x] \in Nat
      BY <1>7, <3>1
    <3> HIDE DEF f, h, x
    <3>6. SumFunction(h) = SumFunction(f) + (h[x] - f[x])
      <4>1. f \in [Fds -> Int] /\ h \in [Fds -> Int]
        BY <1>7, <3>4
      <4> QED
        BY <3>2, <3>5, <4>1, SumUpdate, FileTraceAssumption
    <3>7. SumFunction(f) <= s /\ s \in Nat
      BY <1>1, <1>7 DEF Booked
    <3> QED
      BY <1>6, <1>7, <3>3, <3>5, <3>6, <3>7
  <2> QED
    BY <2>1, <2>2
<1>10. Owing(p, op)' = Owing(p, op)
  BY <1>2 DEF Owing, Owed
<1>11. n \in Nat /\ n + Owing(p, op)' <= moved'[p][op]
  BY <1>1, <1>2, <1>10 DEF Booked
<1>12. Counting(p, op)' = Counting(p, op)
  BY DEF Counting, FileEvent, Amount
<1>13. Booked(p, op, u, n)'
  BY <1>5, <1>6, <1>8, <1>9, <1>11, <1>12 DEF Booked
<1> QED
  BY <1>13

LEMMA CoveredStep == IInv /\ IInv' /\ Covered /\ [Next]_vars => Covered'
<1> SUFFICES ASSUME IInv, IInv', Covered, [Next]_vars PROVE Covered'
  OBVIOUS
<1>1. CASE UNCHANGED vars
  <2>1. UNCHANGED <<tgid, pc, call, file_events, files, moved>>
    BY <1>1 DEF vars, history
  <2>2. \A p \in Tgids, op \in Transfer : \A s, n : Booked(p, op, s, n) => Booked(p, op, s, n)'
    BY <2>1 DEF Booked, Shown, Field, Owing, Owed, Counting, FileEvent, Amount
  <2> QED
    BY <2>2 DEF Covered
<1>2. ASSUME NEW t \in Threads, NEW c \in Calls, SysEnter(t, c) PROVE Covered'
  BY <1>2, EntersCovered DEF SysEnter
<1>3. ASSUME NEW t \in Threads, Run(t) PROVE Covered'
  BY <1>3, RunCovered
<1>4. ASSUME NEW t \in Threads, SysExit(t) PROVE Covered'
  <2>1. /\ UNCHANGED <<tgid, file_events, files, moved>>
        /\ pc[t] = "returning" /\ call[t] \in InFlight
    BY <1>4 DEF SysExit, history, IInv, TypeOK
  <2>2. \/ Moves(t, "returning", "user", None)
        \/ \E v : Moves(t, "returning", "remove", [call[t] EXCEPT !.got = v])
    BY <1>4 DEF SysExit
  <2>3. /\ \/ pc'[t] = "user"
           \/ pc'[t] = "remove" /\ call'[t].op = call[t].op /\ call'[t].ret = call[t].ret
        /\ \A u \in Threads : u # t => pc'[u] = pc[u] /\ call'[u] = call[u]
    BY <2>1, <2>2 DEF Moves, InFlight, IInv, TypeOK
  <2> QED
    BY <2>1, <2>3, ForwardCovered
<1>5. ASSUME NEW t \in Threads, Remove(t) PROVE Covered'
  <2>1. UNCHANGED <<tgid, file_events, files, moved>> /\ pc[t] = "remove"
    BY <1>5 DEF Remove, history
  <2>2. PICK to \in {"emit", "user"} : Moves(t, "remove", to, call[t])
    BY <1>5 DEF Remove
  <2>3. /\ pc'[t] = "user" \/ (pc'[t] = "emit" /\ call'[t] = call[t])
        /\ \A u \in Threads : u # t => pc'[u] = pc[u] /\ call'[u] = call[u]
    BY <2>2 DEF Moves, IInv, TypeOK
  <2> QED
    BY <2>1, <2>3, ForwardCovered
<1>6. ASSUME NEW t \in Threads, Emit(t) PROVE Covered'
  BY <1>6, EmitCovered
<1>7. CASE DrainFile
  BY <1>7, DrainFileCovered
<1>8. ASSUME NEW t \in Threads, NEW c \in Calls, EnterUnseen(t, c) PROVE Covered'
  BY <1>8, EntersCovered DEF EnterUnseen
<1>9. ASSUME NEW t \in Threads, ExitUnseen(t) PROVE Covered'
  <2>1. UNCHANGED <<tgid, file_events, files, moved>>
    BY <1>9 DEF ExitUnseen, history
  <2>2. /\ pc[t] = "returning" /\ pc'[t] = "user"
        /\ \A u \in Threads : u # t => pc'[u] = pc[u] /\ call'[u] = call[u]
    BY <1>9 DEF ExitUnseen, Moves, IInv, TypeOK
  <2> QED
    BY <2>1, <2>2, ForwardCovered
<1> QED
  BY <1>1, <1>2, <1>3, <1>4, <1>5, <1>6, <1>7, <1>8, <1>9 DEF Next

LEMMA CoveredInit == Init => Covered
<1> SUFFICES ASSUME Init, NEW p \in Tgids, NEW op \in Transfer PROVE \E s, n : Booked(p, op, s, n)
  BY DEF Covered
<1>1. IInv
  BY InitIInv
<1>2. Owing(p, op) = 0
  <2> DEFINE f == [t \in Threads |-> Owed(t, p, op)]
             z == [t \in Threads |-> 0]
  <2>1. \A t \in Threads : Owed(t, p, op) = 0
    BY DEF Init, Owed
  <2>2. f = z
    BY <2>1
  <2>3. SumFunction(z) = 0
    BY SumZero, FileTraceAssumption
  <2> QED
    BY <2>2, <2>3 DEF Owing
<1>3. Shown(p, Field(op)) = 0
  <2> DEFINE f == [d \in Fds |-> IF files[<<p, d>>] = None THEN 0 ELSE files[<<p, d>>][Field(op)]]
             z == [d \in Fds |-> 0]
  <2>1. \A d \in Fds : files[<<p, d>>] = None
    BY DEF Init, Rows
  <2>2. f = z
    BY <2>1
  <2>3. SumFunction(z) = 0
    BY SumZero, FileTraceAssumption
  <2> QED
    BY <2>2, <2>3 DEF Shown
<1>4. LeadsTo(Counting(p, op), file_events, 0, 0)
  BY LeadsToEmpty DEF Init
<1>5. moved[p][op] = 0
  BY DEF Init, Transfer
<1>6. Booked(p, op, 0, 0)
  BY <1>2, <1>3, <1>4, <1>5 DEF Booked
<1> QED
  BY <1>6

(* The volumes of a process' rows never exceed the bytes that it moved,    *)
(* whichever calls its threads mix up and whatever is dropped or lost.     *)
THEOREM VolumeCorrect == Spec => []VolumeNeverOverstated
<1>1. Spec => [](IInv /\ Covered)
  BY CoveredInit, CoveredStep, Invariance, PTL DEF Spec
<1>2. IInv /\ Covered => VolumeNeverOverstated
  <2> SUFFICES ASSUME IInv, Covered, NEW p \in Tgids, NEW op \in Transfer
               PROVE  Shown(p, Field(op)) <= moved[p][op]
    BY DEF VolumeNeverOverstated, Field, Transfer
  <2>1. PICK s, n : Booked(p, op, s, n)
    BY DEF Covered
  <2> DEFINE order == {x \in Nat \X Nat : x[1] <= x[2]}
  <2>2. Climbs(Counting(p, op), Nat, FileEvent, order)
    <3>1. \A e \in FileEvent : Amount(e, p, op) \in Nat
      BY DEF Amount, FileEvent
    <3>2. \A a, b \in Nat : <<a, b>> \in order <=> a <= b
      OBVIOUS
    <3> HIDE DEF order
    <3>3. \A a, b \in Nat : \A e \in FileEvent : <<a, e, b>> \in Counting(p, op) => <<a, b>> \in order
      BY <3>1, <3>2 DEF Counting
    <3> QED
      BY <3>2, <3>3 DEF Climbs, Counting
  <2>3. s <= n /\ s \in Nat /\ n \in Nat
    <3>1. file_events \in Seq(FileEvent)
      BY DEF IInv, TypeOK
    <3>2. <<s, n>> \in order
      <4> HIDE DEF order
      <4> QED
        BY <2>1, <2>2, <3>1, LeadsToGrows DEF Booked
    <3> QED
      BY <2>1, <3>2 DEF Booked
  <2>4. Owing(p, op) \in Nat /\ moved[p][op] \in Nat /\ Shown(p, Field(op)) \in Nat
    BY OwedType, ShownType DEF IInv, TypeOK, Transfer
  <2> QED
    BY <2>1, <2>3, <2>4 DEF Booked
<1> QED
  BY <1>1, <1>2, PTL

-----------------------------------------------------------------------------
(* PanelMatchesTruth.  The rows that the records in the ring will make of  *)
(* the table are those of the calls, but for a call that is back from the  *)
(* kernel: its record is yet to come, with the argument that it stashed.   *)

Tables == [Rows -> FileStats \cup {None}]

Apply(f, e) == [f EXCEPT ![<<e.pid, e.fd>>] = After(f[<<e.pid, e.fd>>], e)]

DrainStep == {x \in Tables \X FileEvent \X Tables : x[3] = Apply(x[1], x[2])}

(* Once the ring is drained, the table will be f.                          *)
Ahead(f) == LeadsTo(DrainStep, file_events, files, f)

(* sys_exit finds the argument of the call, or nothing when sys_enter did  *)
(* not see it.                                                             *)
Stashed(t) ==
  LET c == call[t]
      arg == IF c.stashed THEN c.arg ELSE None
  IN  /\ pc[t] \in {"inside", "returning"} =>
           /\ c.op = "openat" => PENDING_OPEN_PATH[tgid[t]] = arg
           /\ c.op \in FdOps => PENDING_FD[tgid[t]] = arg
      /\ pc[t] \in {"remove", "emit"} => c.got = arg

(* A record of the call is yet to come, and which.                         *)
Due(t) ==
  /\ pc[t] \in {"returning", "remove", "emit"}
  /\ call[t].op # "socket" /\ call[t].stashed /\ Succeeded(call[t].op, call[t].ret)

Expected(t) ==
  Event(tgid[t], [op |-> call[t].op, ret |-> call[t].ret, got |-> call[t].arg])

Follows(f, t) ==
  \A d \in Fds :
    LET k == <<tgid[t], d>>
    IN  truth[k] = IF Due(t) /\ d = Expected(t).fd THEN After(f[k], Expected(t)) ELSE f[k]

Panel(f, t) == Stashed(t) /\ Follows(f, t)

Followed ==
  ~dropped /\ ~lost =>
    \E f \in Tables : Ahead(f) /\ \A t \in Threads : Alone(t) => Panel(f, t)

(* Only thread t has moved: what it did stays within its process.          *)
Within(t) ==
  /\ tgid' = tgid
  /\ \A u \in Threads : u # t => pc'[u] = pc[u] /\ call'[u] = call[u]
  /\ \A q \in Tgids : q # tgid[t] =>
       /\ PENDING_OPEN_PATH'[q] = PENDING_OPEN_PATH[q] /\ PENDING_FD'[q] = PENDING_FD[q]
       /\ \A d \in Fds : truth'[<<q, d>>] = truth[<<q, d>>]

Differ(f, g, p) ==
  \A q \in Tgids, d \in Fds : q # p => g[<<q, d>>] = f[<<q, d>>]

LEMMA FollowedWithin ==
  ASSUME TypeOK, NEW t \in Threads, Within(t),
         NEW f, \A u \in Threads : Alone(u) => Panel(f, u),
         NEW g \in Tables, Differ(f, g, tgid[t]), Ahead(g)',
         Alone(t) => Panel(g, t)'
  PROVE  Followed'
<1> SUFFICES ASSUME NEW u \in Threads, Alone(u)' PROVE Panel(g, u)'
  BY DEF Followed, Tables, Rows, FileStats
<1>1. Alone(u)
  BY DEF Alone, Within
<1>2. CASE u = t
  BY <1>1, <1>2
<1>3. CASE u # t
  <2>1. tgid[u] # tgid[t] /\ tgid[u] \in Tgids /\ tgid'[u] = tgid[u]
    BY <1>1, <1>3 DEF Alone, TypeOK, Within
  <2>2. Stashed(u) /\ Follows(f, u)
    BY <1>1 DEF Panel
  <2>3. /\ pc'[u] = pc[u] /\ call'[u] = call[u]
        /\ PENDING_OPEN_PATH'[tgid[u]] = PENDING_OPEN_PATH[tgid[u]]
        /\ PENDING_FD'[tgid[u]] = PENDING_FD[tgid[u]]
        /\ \A d \in Fds : truth'[<<tgid[u], d>>] = truth[<<tgid[u], d>>]
    BY <1>3, <2>1 DEF Within
  <2>4. Stashed(u)'
    BY <2>1, <2>2, <2>3 DEF Stashed, FdOps
  <2>5. Due(u)' = Due(u) /\ Expected(u)' = Expected(u)
    BY <2>1, <2>3 DEF Due, Expected, Event, Succeeded
  <2>6. \A d \in Fds : g[<<tgid[u], d>>] = f[<<tgid[u], d>>]
    BY <2>1 DEF Differ
  <2>7. Follows(g, u)'
    <3> SUFFICES ASSUME NEW d \in Fds
                 PROVE  truth'[<<tgid'[u], d>>] =
                          IF Due(u)' /\ d = Expected(u)'.fd
                          THEN After(g[<<tgid'[u], d>>], Expected(u)')
                          ELSE g[<<tgid'[u], d>>]
      BY DEF Follows, After, Credit, AddTo, Fresh
    <3>1. truth[<<tgid[u], d>>] = IF Due(u) /\ d = Expected(u).fd
                                  THEN After(f[<<tgid[u], d>>], Expected(u))
                                  ELSE f[<<tgid[u], d>>]
      BY <2>2 DEF Follows
    <3> QED
      BY <2>1, <2>3, <2>5, <2>6, <3>1
  <2> QED
    BY <2>4, <2>7 DEF Panel
<1> QED
  BY <1>2, <1>3

(* A step within sys_exit leaves the record that is due.                   *)
SameRecord(t) ==
  /\ pc[t] \in {"returning", "remove"} /\ pc'[t] \in {"remove", "emit"}
  /\ call'[t].op = call[t].op /\ call'[t].arg = call[t].arg
  /\ call'[t].stashed = call[t].stashed /\ call'[t].ret = call[t].ret

LEMMA StillFollows ==
  ASSUME NEW t \in Threads, SameRecord(t), tgid' = tgid, truth' = truth,
         NEW f \in Tables, Follows(f, t)
  PROVE  Follows(f, t)'
<1>1. Due(t)' = Due(t)
  BY DEF Due, SameRecord, Succeeded
<1>2. Expected(t)' = Expected(t)
  BY DEF Expected, SameRecord, Event
<1> SUFFICES ASSUME NEW d \in Fds
             PROVE  truth'[<<tgid'[t], d>>] =
                      IF Due(t)' /\ d = Expected(t)'.fd
                      THEN After(f[<<tgid'[t], d>>], Expected(t)')
                      ELSE f[<<tgid'[t], d>>]
  BY DEF Follows, After, Credit, AddTo, Fresh
<1>3. truth[<<tgid[t], d>>] = IF Due(t) /\ d = Expected(t).fd
                              THEN After(f[<<tgid[t], d>>], Expected(t))
                              ELSE f[<<tgid[t], d>>]
  BY DEF Follows
<1> QED
  BY <1>1, <1>2, <1>3

(* A step that neither outputs nor drains.                                 *)
LEMMA FollowedQuiet ==
  ASSUME IInv, Followed, ~dropped, ~lost, NEW t \in Threads, Within(t),
         UNCHANGED <<file_events, files>>,
         \A f \in Tables : Alone(t) /\ Panel(f, t) => Panel(f, t)'
  PROVE  Followed'
<1>1. PICK f \in Tables : Ahead(f) /\ \A u \in Threads : Alone(u) => Panel(f, u)
  BY DEF Followed
<1>2. Ahead(f)'
  <2>1. DrainStep' = DrainStep
    BY DEF DrainStep, Tables, Rows, FileStats, FileEvent, FdOps, Apply, After, Credit, AddTo, Fresh
  <2> QED
    BY <1>1, <2>1 DEF Ahead
<1>3. Differ(f, f, tgid[t])
  BY DEF Differ
<1>4. Alone(t) => Panel(f, t)'
  BY <1>1
<1> QED
  BY <1>1, <1>2, <1>3, <1>4, FollowedWithin DEF IInv

(* A call begins, and its argument is in the map if it was stashed, and    *)
(* nothing is in the map otherwise.                                        *)
LEMMA EntersFollowed ==
  ASSUME IInv, Followed, ~dropped, ~lost, NEW t \in Threads, NEW c \in Calls,
         NEW stashed \in BOOLEAN, Enters(t, c, stashed),
         \A q \in Tgids : q # tgid[t] => /\ PENDING_OPEN_PATH'[q] = PENDING_OPEN_PATH[q]
                                         /\ PENDING_FD'[q] = PENDING_FD[q],
         LET arg == IF stashed THEN c.arg ELSE None
         IN  /\ Alone(t) /\ c.op = "openat" => PENDING_OPEN_PATH'[tgid[t]] = arg
             /\ Alone(t) /\ c.op \in FdOps => PENDING_FD'[tgid[t]] = arg
  PROVE  Followed'
<1> DEFINE new == Entered(c, stashed)
<1>1. /\ UNCHANGED <<tgid, file_events, files, truth>>
      /\ pc[t] = "user" /\ pc'[t] = "inside" /\ call'[t] = new
      /\ \A u \in Threads : u # t => pc'[u] = pc[u] /\ call'[u] = call[u]
  BY DEF Enters, Moves, IInv, TypeOK
<1>2. new.op = c.op /\ new.arg = c.arg /\ new.stashed = stashed
  BY DEF Entered
<1>3. Within(t)
  BY <1>1 DEF Within
<1>4. ASSUME NEW f \in Tables, Alone(t), Panel(f, t) PROVE Panel(f, t)'
  <2>1. Stashed(t)'
    BY <1>1, <1>2, <1>4 DEF Stashed, FdOps
  <2>2. ~Due(t) /\ ~Due(t)'
    BY <1>1 DEF Due
  <2>3. Follows(f, t)'
    <3> SUFFICES ASSUME NEW d \in Fds PROVE truth'[<<tgid'[t], d>>] = f[<<tgid'[t], d>>]
      BY <2>2 DEF Follows
    <3> QED
      BY <1>1, <1>4, <2>2 DEF Panel, Follows
  <2> QED
    BY <2>1, <2>3 DEF Panel
<1> QED
  BY <1>1, <1>3, <1>4, FollowedQuiet

LEMMA SysEnterFollowed ==
  ASSUME IInv, Followed, NEW t \in Threads, NEW c \in Calls, SysEnter(t, c)
  PROVE  Followed'
<1> SUFFICES ASSUME ~dropped', ~lost' PROVE Followed'
  BY DEF Followed
<1>1. PICK stashed \in BOOLEAN :
        /\ Enters(t, c, stashed)
        /\ stashed /\ c.op = "openat" => PENDING_OPEN_PATH'[tgid[t]] = c.arg
        /\ stashed /\ c.op \in FdOps => PENDING_FD'[tgid[t]] = c.arg
        /\ \A q \in Tgids : q # tgid[t] => /\ PENDING_OPEN_PATH'[q] = PENDING_OPEN_PATH[q]
                                           /\ PENDING_FD'[q] = PENDING_FD[q]
        /\ dropped => dropped'
        /\ ~dropped' /\ ~lost' => ~lost /\ (stashed <=> c.op # "socket")
  BY SysEnterFacts
<1>2. ~dropped /\ ~lost /\ (stashed <=> c.op # "socket")
  BY <1>1
<1>3. c.op \in {"openat"} \cup FdOps => c.op # "socket"
  BY DEF FdOps
<1> QED
  BY <1>1, <1>2, <1>3, EntersFollowed

LEMMA EnterUnseenFollowed ==
  ASSUME IInv, Followed, NEW t \in Threads, NEW c \in Calls, EnterUnseen(t, c)
  PROVE  Followed'
<1> SUFFICES ASSUME ~dropped', ~lost' PROVE Followed'
  BY DEF Followed
<1>1. /\ Enters(t, c, FALSE) /\ UNCHANGED <<PENDING_OPEN_PATH, PENDING_FD>>
      /\ ~dropped /\ ~lost /\ pc[t] = "user"
  BY DEF EnterUnseen, Enters, Moves, maps
<1>2. Alone(t) => PENDING_OPEN_PATH[tgid[t]] = None /\ PENDING_FD[tgid[t]] = None
  BY <1>1 DEF IInv, Own, OwnEntries
<1> QED
  BY <1>1, <1>2, EntersFollowed

LEMMA SysExitFollowed ==
  ASSUME IInv, Followed, NEW t \in Threads, SysExit(t)
  PROVE  Followed'
<1> DEFINE c == call[t]
           p == tgid[t]
<1> SUFFICES ASSUME ~dropped', ~lost' PROVE Followed'
  BY DEF Followed
<1>1. /\ UNCHANGED <<tgid, PENDING_OPEN_PATH, PENDING_FD, file_events, files>>
      /\ UNCHANGED <<truth, dropped, lost>>
      /\ pc[t] = "returning" /\ c \in InFlight /\ p \in Tgids /\ CallOK(t)
  BY DEF SysExit, DropRecord, maps, history, IInv, TypeOK, Shape
<1>2. \/ /\ \/ c.op = "socket"
            \/ c.op \in FdOps /\ PENDING_FD[p] = None
         /\ Moves(t, "returning", "user", None)
      \/ \E v : /\ \/ c.op = "openat" /\ v = PENDING_OPEN_PATH[p]
                   \/ c.op \in FdOps /\ v = PENDING_FD[p]
                /\ Moves(t, "returning", "remove", [c EXCEPT !.got = v])
  BY <1>1 DEF SysExit, DropRecord
<1>3. \A u \in Threads : u # t => pc'[u] = pc[u] /\ call'[u] = call[u]
  BY <1>2 DEF Moves, IInv, TypeOK
<1>4. Within(t)
  BY <1>1, <1>3 DEF Within
<1>5. ASSUME NEW f \in Tables, Panel(f, t), Moves(t, "returning", "user", None),
             \/ c.op = "socket"
             \/ c.op \in FdOps /\ PENDING_FD[p] = None
      PROVE  Panel(f, t)'
  <2>1. pc'[t] = "user"
    BY <1>5 DEF Moves, IInv, TypeOK
  <2>2. ~Due(t)
    <3>1. CASE c.op = "socket"
      BY <3>1 DEF Due
    <3>2. CASE c.op \in FdOps /\ PENDING_FD[p] = None
      <4>1. c.arg # None
        BY <1>1, <3>2, FileTraceAssumption DEF CallOK
      <4>2. ~c.stashed
        BY <1>1, <1>5, <3>2, <4>1 DEF Panel, Stashed
      <4> QED
        BY <4>2 DEF Due
    <3> QED
      BY <1>5, <3>1, <3>2
  <2>3. Stashed(t)' /\ ~Due(t)'
    BY <2>1 DEF Stashed, Due
  <2>4. Follows(f, t)'
    <3> SUFFICES ASSUME NEW d \in Fds PROVE truth'[<<tgid'[t], d>>] = f[<<tgid'[t], d>>]
      BY <2>3 DEF Follows
    <3> QED
      BY <1>1, <1>5, <2>2 DEF Panel, Follows
  <2> QED
    BY <2>3, <2>4 DEF Panel
<1>6. ASSUME NEW f \in Tables, Panel(f, t), NEW v,
             \/ c.op = "openat" /\ v = PENDING_OPEN_PATH[p]
             \/ c.op \in FdOps /\ v = PENDING_FD[p],
             Moves(t, "returning", "remove", [c EXCEPT !.got = v])
      PROVE  Panel(f, t)'
  <2>1. pc'[t] = "remove" /\ call'[t] = [c EXCEPT !.got = v]
    BY <1>6 DEF Moves, IInv, TypeOK
  <2>2. /\ call'[t].op = c.op /\ call'[t].arg = c.arg /\ call'[t].stashed = c.stashed
        /\ call'[t].ret = c.ret /\ call'[t].got = v
    BY <1>1, <2>1 DEF InFlight
  <2>3. Stashed(t)'
    BY <1>1, <1>6, <2>1, <2>2 DEF Panel, Stashed, FdOps
  <2>4. SameRecord(t)
    BY <1>1, <2>1, <2>2 DEF SameRecord
  <2>5. Follows(f, t)'
    BY <1>1, <1>6, <2>4, StillFollows DEF Panel, IInv
  <2> QED
    BY <2>3, <2>5 DEF Panel
<1>7. \A f \in Tables : Alone(t) /\ Panel(f, t) => Panel(f, t)'
  BY <1>2, <1>5, <1>6
<1> QED
  BY <1>1, <1>4, <1>7, FollowedQuiet

LEMMA ExitUnseenFollowed ==
  ASSUME IInv, Followed, NEW t \in Threads, ExitUnseen(t)
  PROVE  Followed'
<1> SUFFICES ASSUME ~dropped', ~lost' PROVE Followed'
  BY DEF Followed
<1>1. /\ UNCHANGED <<tgid, PENDING_OPEN_PATH, PENDING_FD, file_events, files, truth>>
      /\ ~dropped /\ ~lost /\ ~call[t].stashed
      /\ pc'[t] = "user"
      /\ \A u \in Threads : u # t => pc'[u] = pc[u] /\ call'[u] = call[u]
  BY DEF ExitUnseen, Moves, maps, history, IInv, TypeOK
<1>2. Within(t)
  BY <1>1 DEF Within
<1>3. ASSUME NEW f \in Tables, Panel(f, t) PROVE Panel(f, t)'
  <2>1. Stashed(t)' /\ ~Due(t) /\ ~Due(t)'
    BY <1>1 DEF Stashed, Due
  <2>2. Follows(f, t)'
    <3> SUFFICES ASSUME NEW d \in Fds PROVE truth'[<<tgid'[t], d>>] = f[<<tgid'[t], d>>]
      BY <2>1 DEF Follows
    <3> QED
      BY <1>1, <1>3, <2>1 DEF Panel, Follows
  <2> QED
    BY <2>1, <2>2 DEF Panel
<1> QED
  BY <1>1, <1>2, <1>3, FollowedQuiet

(* The kernel's work makes the record due that tells of it.                *)
LEMMA RunFollowed ==
  ASSUME IInv, Followed, NEW t \in Threads, Run(t)
  PROVE  Followed'
<1> DEFINE c == call[t]
           p == tgid[t]
<1> SUFFICES ASSUME ~dropped', ~lost' PROVE Followed'
  BY DEF Followed
<1>1. /\ UNCHANGED <<tgid, PENDING_OPEN_PATH, PENDING_FD, file_events, files, dropped>>
      /\ tgid[t] \in Tgids
  BY DEF Run, maps, IInv, TypeOK
<1>2. PICK r \in Fds \cup {-1, 0, 1} :
        /\ Moves(t, "inside", "returning", [c EXCEPT !.ret = r])
        /\ Fails(p, c, r) \/ Opens(p, c, r) \/ Transfers(p, c, r) \/ Closes(p, c, r)
  BY DEF Run
<1>3. /\ pc[t] = "inside" /\ pc'[t] = "returning" /\ c \in InFlight /\ CallOK(t)
      /\ call'[t] = [c EXCEPT !.ret = r]
      /\ \A u \in Threads : u # t => pc'[u] = pc[u] /\ call'[u] = call[u]
  BY <1>2 DEF Moves, IInv, TypeOK, Shape
<1>4. /\ call'[t].op = c.op /\ call'[t].arg = c.arg /\ call'[t].stashed = c.stashed
      /\ call'[t].ret = r /\ c.stashed \in BOOLEAN
      /\ c.op \in FdOps => c.arg \in Fds
  BY <1>3 DEF InFlight, CallOK
<1>5. truth \in [Rows -> FileStats \cup {None}] /\ \A d \in Fds : <<p, d>> \in Rows
  BY <1>1 DEF IInv, TypeOK, Rows
<1> HIDE DEF c, p
<1>6. ~lost /\ ~dropped
  <2>1. \/ lost' = lost
        \/ lost' = (lost \/ c.op = "socket")
        \/ lost' = TRUE
    BY <1>2, Zenon DEF Fails, Opens, Transfers, Closes
  <2>2. ~lost
    BY <2>1, Zenon
  <2>3. ~dropped
    BY <1>1
  <2> QED
    BY <2>2, <2>3
<1>7. \/ truth' = truth
      \/ \E d \in Fds : \E row : truth' = [truth EXCEPT ![<<p, d>>] = row]
  <2>1. CASE Fails(p, c, r)
    BY <2>1 DEF Fails
  <2>2. CASE Opens(p, c, r)
    <3>1. r \in Fds /\ (truth' = truth \/ truth' = [truth EXCEPT ![<<p, r>>] = Fresh(c.arg)])
      BY <2>2 DEF Opens
    <3> QED
      BY <3>1
  <2>3. CASE Transfers(p, c, r)
    <3>1. c.arg \in Fds
      BY <1>4, <2>3 DEF Transfers, FdOps
    <3>2. \/ truth' = truth
          \/ truth' = [truth EXCEPT ![<<p, c.arg>>] = Credit(truth[<<p, c.arg>>], c.op, r)]
      BY <2>3 DEF Transfers
    <3> QED
      BY <3>1, <3>2
  <2>4. CASE Closes(p, c, r)
    <3>1. c.arg \in Fds
      BY <1>4, <2>4 DEF Closes, FdOps
    <3>2. \/ truth' = truth
          \/ truth' = [truth EXCEPT ![<<p, c.arg>>].closed = TRUE]
      BY <2>4 DEF Closes
    <3>3. \/ truth' = truth
          \/ truth' = [truth EXCEPT ![<<p, c.arg>>] = [truth[<<p, c.arg>>] EXCEPT !.closed = TRUE]]
      BY <3>2
    <3> QED
      BY <3>1, <3>3
  <2> QED
    BY <1>2, <2>1, <2>2, <2>3, <2>4
<1>8. \A q \in Tgids : q # p => \A d \in Fds : truth'[<<q, d>>] = truth[<<q, d>>]
  BY <1>5, <1>7 DEF Rows
<1>9. Within(t)
  BY <1>1, <1>3, <1>8 DEF Within, p
<1>10. ASSUME NEW f \in Tables, Panel(f, t) PROVE Panel(f, t)'
  <2>1. Stashed(t)'
    BY <1>1, <1>3, <1>4, <1>10 DEF Panel, Stashed, FdOps, c
  <2>2. \A d \in Fds : truth[<<p, d>>] = f[<<p, d>>]
    BY <1>3, <1>10 DEF Panel, Follows, Due, p
  <2>3. /\ Due(t)' <=> (c.op # "socket" /\ c.stashed /\ Succeeded(c.op, r))
        /\ Expected(t)' = Event(p, [op |-> c.op, ret |-> r, got |-> c.arg])
    BY <1>1, <1>3, <1>4 DEF Due, Expected, Event, Succeeded, p
  <2> DEFINE e == Event(p, [op |-> c.op, ret |-> r, got |-> c.arg])
             due == c.op # "socket" /\ c.stashed /\ Succeeded(c.op, r)
  <2>4. SUFFICES ASSUME NEW d \in Fds
                 PROVE  truth'[<<p, d>>] = IF due /\ d = e.fd THEN After(truth[<<p, d>>], e)
                                           ELSE truth[<<p, d>>]
    <3> HIDE DEF e, due
    <3>1. \A d \in Fds : truth'[<<p, d>>] = IF due /\ d = e.fd THEN After(f[<<p, d>>], e)
                                            ELSE f[<<p, d>>]
      BY <2>2, <2>4
    <3>2. (Due(t)' <=> due) /\ Expected(t)' = e
      BY <2>3 DEF e, due
    <3>3. Follows(f, t)'
      BY <1>1, <3>1, <3>2 DEF Follows, After, Credit, AddTo, Fresh, p
    <3> QED
      BY <2>1, <3>3 DEF Panel
  <2>5. CASE Fails(p, c, r)
    BY <2>5 DEF Fails, Succeeded
  <2>6. CASE Opens(p, c, r)
    <3>1. c.op = "openat" /\ r \in Fds
      <4>1. c.op \in {"openat", "socket"} /\ lost' = (lost \/ c.op = "socket") /\ r \in Fds
        BY <2>6 DEF Opens
      <4> QED
        BY <4>1
    <3>2. Succeeded(c.op, r) /\ e.fd = r /\ \A row : After(row, e) = Fresh(c.arg)
      BY <3>1, FileTraceAssumption DEF Succeeded, Event, After
    <3>3. truth' = IF c.stashed THEN [truth EXCEPT ![<<p, r>>] = Fresh(c.arg)] ELSE truth
      BY <2>6, <3>1 DEF Opens
    <3> HIDE DEF e
    <3> QED
      BY <1>4, <1>5, <3>1, <3>2, <3>3
  <2>7. CASE Transfers(p, c, r)
    <3>1. c.op \in {"read", "write"} /\ r \in 0..1 /\ c.arg \in Fds
      BY <1>4, <2>7 DEF Transfers, FdOps
    <3>2. /\ Succeeded(c.op, r) /\ e.fd = c.arg
          /\ \A row : After(row, e) = Credit(row, c.op, r)
      BY <3>1 DEF Succeeded, Event, After
    <3>3. truth' = IF c.stashed
                   THEN [truth EXCEPT ![<<p, c.arg>>] = Credit(truth[<<p, c.arg>>], c.op, r)]
                   ELSE truth
      BY <2>7 DEF Transfers
    <3> HIDE DEF e
    <3> QED
      BY <1>4, <1>5, <3>1, <3>2, <3>3
  <2>8. CASE Closes(p, c, r)
    <3>1. c.op = "close" /\ r = 0 /\ c.arg \in Fds
      BY <1>4, <2>8 DEF Closes, FdOps
    <3>2. /\ Succeeded(c.op, r) /\ e.fd = c.arg
          /\ \A row : After(row, e) = IF row = None THEN None ELSE [row EXCEPT !.closed = TRUE]
      BY <3>1 DEF Succeeded, Event, After
    <3> DEFINE old == truth[<<p, c.arg>>]
    <3>3. truth' = IF c.stashed /\ old # None
                   THEN [truth EXCEPT ![<<p, c.arg>>] = [old EXCEPT !.closed = TRUE]]
                   ELSE truth
      BY <2>8 DEF Closes
    <3>4. due <=> c.stashed
      BY <3>1, <3>2
    <3>5. After(old, e) = IF old = None THEN None ELSE [old EXCEPT !.closed = TRUE]
      BY <3>2
    <3> HIDE DEF e, due
    <3>6. CASE c.stashed /\ old # None
      <4> DEFINE new == [old EXCEPT !.closed = TRUE]
      <4>1. truth' = [truth EXCEPT ![<<p, c.arg>>] = new] /\ After(old, e) = new
        BY <3>3, <3>5, <3>6
      <4> HIDE DEF new
      <4> QED
        BY <1>5, <3>1, <3>2, <3>4, <3>6, <4>1
    <3>7. CASE ~(c.stashed /\ old # None)
      <4>1. truth' = truth /\ (c.stashed => old = None /\ After(old, e) = None)
        BY <3>3, <3>5, <3>7
      <4> QED
        BY <3>2, <3>4, <4>1
    <3> QED
      BY <3>6, <3>7
  <2> QED
    BY <1>2, <2>5, <2>6, <2>7, <2>8
<1> QED
  BY <1>1, <1>6, <1>9, <1>10, FollowedQuiet

LEMMA RemoveFollowed ==
  ASSUME IInv, Followed, NEW t \in Threads, Remove(t)
  PROVE  Followed'
<1> DEFINE c == call[t]
           p == tgid[t]
           report == c.got # None /\ Succeeded(c.op, c.ret)
<1> SUFFICES ASSUME ~dropped', ~lost' PROVE Followed'
  BY DEF Followed
<1>1. /\ UNCHANGED <<tgid, file_events, files, truth, dropped, lost>>
      /\ pc[t] = "remove" /\ c \in InFlight /\ p \in Tgids /\ CallOK(t)
      /\ Moves(t, "remove", IF report THEN "emit" ELSE "user", c)
  BY DEF Remove, history, IInv, TypeOK, Shape
<1>2. /\ pc'[t] = IF report THEN "emit" ELSE "user"
      /\ report => call'[t] = c
      /\ \A u \in Threads : u # t => pc'[u] = pc[u] /\ call'[u] = call[u]
  BY <1>1 DEF Moves, IInv, TypeOK
<1>3. \A q \in Tgids : q # p => /\ PENDING_OPEN_PATH'[q] = PENDING_OPEN_PATH[q]
                                /\ PENDING_FD'[q] = PENDING_FD[q]
  BY <1>1 DEF Remove, Unstash, IInv, TypeOK
<1>4. Within(t)
  BY <1>1, <1>2, <1>3 DEF Within
<1>5. ASSUME NEW f \in Tables, Panel(f, t), report PROVE Panel(f, t)'
  <2>1. pc'[t] = "emit" /\ call'[t] = c
    BY <1>2, <1>5
  <2>2. Stashed(t)'
    BY <1>1, <1>5, <2>1 DEF Panel, Stashed
  <2>3. Follows(f, t)'
    <3>1. SameRecord(t)
      BY <1>1, <2>1 DEF SameRecord
    <3> QED
      BY <1>1, <1>5, <3>1, StillFollows DEF Panel
  <2> QED
    BY <2>2, <2>3 DEF Panel
<1>6. ASSUME NEW f \in Tables, Panel(f, t), ~report PROVE Panel(f, t)'
  <2>1. pc'[t] = "user"
    BY <1>2, <1>6
  <2>2. ~Due(t)
    <3>1. CASE ~Succeeded(c.op, c.ret)
      BY <3>1 DEF Due
    <3>2. CASE c.got = None
      <4>1. c.arg # None
        BY <1>1, FileTraceAssumption DEF CallOK, InFlight, FdOps
      <4>2. ~c.stashed
        BY <1>1, <1>6, <3>2, <4>1 DEF Panel, Stashed
      <4> QED
        BY <4>2 DEF Due
    <3> QED
      BY <1>6, <3>1, <3>2
  <2>3. Stashed(t)' /\ ~Due(t)'
    BY <2>1 DEF Stashed, Due
  <2>4. Follows(f, t)'
    <3> SUFFICES ASSUME NEW d \in Fds PROVE truth'[<<tgid'[t], d>>] = f[<<tgid'[t], d>>]
      BY <2>3 DEF Follows
    <3> QED
      BY <1>1, <1>6, <2>2 DEF Panel, Follows
  <2> QED
    BY <2>3, <2>4 DEF Panel
<1>7. \A f \in Tables : Alone(t) /\ Panel(f, t) => Panel(f, t)'
  <2> HIDE DEF report
  <2> QED
    BY <1>5, <1>6
<1> QED
  BY <1>1, <1>4, <1>7, FollowedQuiet

(* A record of FileEvent is applied to a table.                            *)
LEMMA ApplyFacts ==
  ASSUME NEW f \in Tables, NEW e \in FileEvent
  PROVE  /\ Apply(f, e) \in Tables /\ <<f, e, Apply(f, e)>> \in DrainStep
         /\ \A q \in Tgids, d \in Fds :
              Apply(f, e)[<<q, d>>] = IF q = e.pid /\ d = e.fd THEN After(f[<<q, d>>], e)
                                      ELSE f[<<q, d>>]
<1> DEFINE k == <<e.pid, e.fd>>
<1>1. k \in Rows /\ f \in [Rows -> FileStats \cup {None}]
  BY DEF FileEvent, Rows, Tables
<1>2. After(f[k], e) \in FileStats \cup {None}
  BY <1>1, AfterType
<1>3. PICK v \in FileStats \cup {None} : v = After(f[k], e) /\ Apply(f, e) = [f EXCEPT ![k] = v]
  BY <1>2 DEF Apply
<1>4. Apply(f, e) \in Tables
  BY <1>1, <1>3 DEF Tables
<1>5. ASSUME NEW q \in Tgids, NEW d \in Fds
      PROVE  Apply(f, e)[<<q, d>>] = IF q = e.pid /\ d = e.fd THEN After(f[<<q, d>>], e)
                                     ELSE f[<<q, d>>]
  <2>1. <<q, d>> \in Rows
    BY DEF Rows
  <2>2. CASE q = e.pid /\ d = e.fd
    BY <1>1, <1>3, <2>2
  <2>3. CASE ~(q = e.pid /\ d = e.fd)
    BY <1>1, <1>3, <2>1, <2>3
  <2> QED
    BY <2>2, <2>3
<1> QED
  BY <1>4, <1>5 DEF DrainStep

(* The record that was due is output.                                      *)
LEMMA EmitFollowed ==
  ASSUME IInv, Followed, NEW t \in Threads, Emit(t)
  PROVE  Followed'
<1> DEFINE c == call[t]
           p == tgid[t]
           e == Event(p, c)
<1> SUFFICES ASSUME ~dropped', ~lost' PROVE Followed'
  BY DEF Followed
<1>1. /\ UNCHANGED <<tgid, PENDING_OPEN_PATH, PENDING_FD, files, truth, dropped, lost>>
      /\ file_events' = Append(file_events, e)
      /\ pc[t] = "emit" /\ pc'[t] = "user"
      /\ \A u \in Threads : u # t => pc'[u] = pc[u] /\ call'[u] = call[u]
  BY DEF Emit, Moves, maps, history, IInv, TypeOK
<1>2. PICK f \in Tables : Ahead(f) /\ \A u \in Threads : Alone(u) => Panel(f, u)
  BY <1>1 DEF Followed
<1>3. /\ e \in FileEvent /\ e.pid = p /\ p \in Tgids
      /\ c \in InFlight /\ CallOK(t)
  BY <1>1, EventType DEF IInv, TypeOK, Shape
<1>g. PICK g : g = Apply(f, e)
  OBVIOUS
<1>4. /\ g \in Tables /\ <<f, e, g>> \in DrainStep
      /\ \A q \in Tgids, d \in Fds :
           g[<<q, d>>] = IF q = p /\ d = e.fd THEN After(f[<<q, d>>], e) ELSE f[<<q, d>>]
  BY <1>3, <1>g, ApplyFacts
<1>5. Ahead(g)'
  <2>1. LeadsTo(DrainStep, file_events', files', g)
    <3>1. file_events \in Seq(FileEvent)
      BY DEF IInv, TypeOK
    <3> HIDE DEF e
    <3> QED
      BY <1>1, <1>2, <1>3, <1>4, <3>1, LeadsToAppend DEF Ahead
  <2>2. DrainStep' = DrainStep
    BY DEF DrainStep, Tables, Rows, FileStats, FileEvent, FdOps, Apply, After, Credit, AddTo, Fresh
  <2> QED
    BY <2>1, <2>2 DEF Ahead
<1>6. Within(t)
  BY <1>1 DEF Within
<1>7. Differ(f, g, p)
  BY <1>4 DEF Differ
<1>8. ASSUME Alone(t) PROVE Panel(g, t)'
  <2>1. Stashed(t) /\ Follows(f, t)
    BY <1>2, <1>8 DEF Panel
  <2>2. c.got # None /\ Succeeded(c.op, c.ret) /\ c.op # "socket"
    BY <1>1, <1>3 DEF CallOK
  <2>3. c.stashed /\ c.got = c.arg
    BY <1>1, <2>1, <2>2 DEF Stashed
  <2>4. Due(t) /\ Expected(t) = e
    BY <1>1, <2>2, <2>3 DEF Due, Expected, Event
  <2>5. Stashed(t)' /\ ~Due(t)'
    BY <1>1 DEF Stashed, Due
  <2>6. \A d \in Fds : truth'[<<p, d>>] = g[<<p, d>>]
    <3> HIDE DEF e, c
    <3>1. \A d \in Fds : truth[<<p, d>>] = IF d = e.fd THEN After(f[<<p, d>>], e) ELSE f[<<p, d>>]
      BY <2>1, <2>4 DEF Follows
    <3> QED
      BY <1>1, <1>3, <1>4, <3>1
  <2>7. Follows(g, t)'
    BY <1>1, <2>5, <2>6 DEF Follows
  <2> QED
    BY <2>5, <2>7 DEF Panel
<1> QED
  BY <1>2, <1>4, <1>5, <1>6, <1>7, <1>8, FollowedWithin DEF IInv

LEMMA DrainFileFollowed ==
  ASSUME IInv, Followed, DrainFile
  PROVE  Followed'
<1> DEFINE e == Head(file_events)
<1> SUFFICES ASSUME ~dropped', ~lost' PROVE Followed'
  BY DEF Followed
<1>1. /\ UNCHANGED <<tgid, pc, call, PENDING_OPEN_PATH, PENDING_FD, truth, dropped, lost>>
      /\ file_events # << >> /\ file_events' = Tail(file_events)
      /\ files' = Apply(files, e)
  BY DEF DrainFile, maps, history, Apply
<1>2. PICK f \in Tables : Ahead(f) /\ \A u \in Threads : Alone(u) => Panel(f, u)
  BY <1>1 DEF Followed
<1>3. PICK g : <<files, e, g>> \in DrainStep /\ LeadsTo(DrainStep, Tail(file_events), g, f)
  <2>1. file_events \in Seq(FileEvent)
    BY DEF IInv, TypeOK
  <2> QED
    BY <1>1, <1>2, <2>1, LeadsToDrain DEF Ahead
<1>4. g = files'
  BY <1>1, <1>3 DEF DrainStep
<1>5. Ahead(f)'
  <2>1. DrainStep' = DrainStep
    BY DEF DrainStep, Tables, Rows, FileStats, FileEvent, FdOps, Apply, After, Credit, AddTo, Fresh
  <2> QED
    BY <1>1, <1>3, <1>4, <2>1 DEF Ahead
<1>6. \A u \in Threads : Alone(u)' => Panel(f, u)'
  BY <1>1, <1>2 DEF Alone, Panel, Stashed, Follows, Due, Expected
<1> QED
  BY <1>5, <1>6 DEF Followed

LEMMA FollowedStep == IInv /\ Followed /\ [Next]_vars => Followed'
<1> SUFFICES ASSUME IInv, Followed, [Next]_vars PROVE Followed'
  OBVIOUS
<1>1. CASE UNCHANGED vars
  <2>1. /\ UNCHANGED <<tgid, pc, call, PENDING_OPEN_PATH, PENDING_FD, truth>>
        /\ UNCHANGED <<file_events, files, dropped, lost>>
    BY <1>1 DEF vars, maps, history
  <2>2. \A f : (Ahead(f)' <=> Ahead(f))
    BY <2>1 DEF Ahead
  <2>3. \A f : \A u \in Threads : Alone(u)' <=> Alone(u)
    BY <2>1 DEF Alone
  <2>4. \A f : \A u \in Threads : Panel(f, u) => Panel(f, u)'
    BY <2>1 DEF Panel, Stashed, Follows, Due, Expected
  <2> QED
    BY <2>1, <2>2, <2>3, <2>4 DEF Followed
<1>2. ASSUME NEW t \in Threads, NEW c \in Calls, SysEnter(t, c) PROVE Followed'
  BY <1>2, SysEnterFollowed
<1>3. ASSUME NEW t \in Threads, Run(t) PROVE Followed'
  BY <1>3, RunFollowed
<1>4. ASSUME NEW t \in Threads, SysExit(t) PROVE Followed'
  BY <1>4, SysExitFollowed
<1>5. ASSUME NEW t \in Threads, Remove(t) PROVE Followed'
  BY <1>5, RemoveFollowed
<1>6. ASSUME NEW t \in Threads, Emit(t) PROVE Followed'
  BY <1>6, EmitFollowed
<1>7. CASE DrainFile
  BY <1>7, DrainFileFollowed
<1>8. ASSUME NEW t \in Threads, NEW c \in Calls, EnterUnseen(t, c) PROVE Followed'
  BY <1>8, EnterUnseenFollowed
<1>9. ASSUME NEW t \in Threads, ExitUnseen(t) PROVE Followed'
  BY <1>9, ExitUnseenFollowed
<1> QED
  BY <1>1, <1>2, <1>3, <1>4, <1>5, <1>6, <1>7, <1>8, <1>9 DEF Next

LEMMA FollowedInit == Init => Followed
<1> SUFFICES ASSUME Init PROVE Followed
  OBVIOUS
<1>1. Ahead(files) /\ files \in Tables
  BY LeadsToEmpty DEF Init, Ahead, Tables
<1>2. ASSUME NEW t \in Threads PROVE Panel(files, t)
  <2>1. tgid[t] \in Tgids /\ (pc[t] = "user" \/ (pc[t] = "inside" /\ call[t] # None))
    BY DEF Init
  <2>2. pc[t] = "inside" => call[t].stashed = FALSE
    BY <2>1 DEF Init, Entered
  <2>3. Stashed(t)
    BY <2>1, <2>2 DEF Init, Stashed
  <2>4. Follows(files, t)
    BY <2>1 DEF Init, Follows, Due, Rows
  <2> QED
    BY <2>3, <2>4 DEF Panel
<1> QED
  BY <1>1, <1>2 DEF Followed

(* While nothing is dropped or lost, the Files panel has the rows that the *)
(* calls of a process with one thread have made: path, bytes and closed.   *)
THEOREM PanelCorrect == Spec => []PanelMatchesTruth
<1>1. Spec => [](IInv /\ Followed)
  BY FollowedInit, FollowedStep, Invariance, PTL DEF Spec
<1>2. IInv /\ Followed => PanelMatchesTruth
  <2> SUFFICES ASSUME Followed, ~dropped, ~lost, file_events = << >>,
                      NEW t \in Threads, NEW d \in Fds, Alone(t), pc[t] = "user"
               PROVE  files[<<tgid[t], d>>] = truth[<<tgid[t], d>>]
    BY DEF PanelMatchesTruth
  <2>1. PICK f \in Tables : Ahead(f) /\ Panel(f, t)
    BY DEF Followed
  <2>2. f = files
    BY <2>1, LeadsToEmpty DEF Ahead
  <2>3. ~Due(t)
    BY DEF Due
  <2> QED
    BY <2>1, <2>2, <2>3 DEF Panel, Follows
<1> QED
  BY <1>1, <1>2, PTL

=============================================================================
