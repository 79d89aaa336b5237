------------------------- MODULE SyscallTraceProofs -------------------------
(***************************************************************************)
(* Theorems about SyscallTrace, for every set of threads, every assignment *)
(* of threads to processes, every ring capacity and every clock bound.     *)
(*                                                                         *)
(* The ring is a FIFO between two processes, so what pending will hold     *)
(* when a record is reached is decided by pending now and by the records   *)
(* before it.  Holds says what that is; the invariants relate it to where  *)
(* the threads are.                                                        *)
(***************************************************************************)
EXTENDS SyscallTrace, TLAPS, SequenceTheorems

(* Processing record r leaves this value in pending[Key(r)].               *)
Effect(r) == IF r.kind = "Enter" THEN r.ts ELSE None

(* Processing the first i records of ring q, starting from map p, leaves v *)
(* under key k.                                                            *)
Holds(q, p, i, k, v) ==
  \/ \E j \in 1..i : /\ Key(q[j]) = k
                     /\ v = Effect(q[j])
                     /\ \A m \in (j+1)..i : Key(q[m]) # k
  \/ /\ \A j \in 1..i : Key(q[j]) # k
     /\ v = p[k]

CallKey(t) == <<Tgid[t], nr[t]>>

Start(s) == IF s = 0 THEN None ELSE s

(* A handler that has stamped an Enter record entered its call then, and   *)
(* one that has stamped an Exit record entered it no later.                *)
StampsInOrder ==
  \A t \in Threads :
    /\ since[t] <= clock
    /\ pc[t] = "entering" => stamp[t] = since[t] /\ since[t] > 0
    /\ pc[t] = "exiting" => since[t] <= stamp[t]

(* Only a target thread runs a handler.                                    *)
HandlersOfTarget ==
  \A t \in Threads : pc[t] \in {"entering", "exiting"} => matches_target(t)

(* Once the ring is drained, an entry of pending is absent or the entry    *)
(* time of a call that is in flight.                                       *)
StartsInFlight ==
  ~lost =>
    \A k \in Keys :
      \/ Holds(events, pending, Len(events), k, None)
      \/ \E t \in Threads :
           /\ CallKey(t) = k
           /\ since[t] # 0
           /\ pc[t] \in {"inside", "exiting", "gone"}
           /\ Holds(events, pending, Len(events), k, since[t])

(* With one thread per process: when the drain reaches an Exit record of a *)
(* process all of whose calls are matched, or will reach the one a thread  *)
(* still has to output, it finds that call's own start.                    *)
ExitsFindStart ==
  OneThreadEach =>
    /\ \A i \in 1..Len(events) :
         events[i].kind = "Exit" /\ Matched(events[i].pid) =>
           Holds(events, pending, i - 1, Key(events[i]), Start(events[i].own))
    /\ \A t \in Threads :
         matches_target(t) /\ pc[t] \in {"inside", "exiting"} /\ Matched(Tgid[t]) =>
           Holds(events, pending, Len(events), CallKey(t), Start(since[t]))

DropsAreLosses == dropped => lost

(* The inductive invariant.                                                *)
IInv ==
  /\ TypeOK
  /\ StampsInOrder
  /\ HandlersOfTarget
  /\ DropsAreLosses
  /\ StartsInFlight
  /\ ExitsFindStart

-----------------------------------------------------------------------------
(* A record output behind the others decides its own key, no other.        *)
LEMMA HoldsAppend ==
  ASSUME NEW q \in Seq(Record), NEW p \in [Keys -> Nat \cup {None}],
         NEW r \in Record, NEW k, NEW v
  PROVE  /\ \A i \in 0..Len(q) :
              Holds(Append(q, r), p, i, k, v) <=> Holds(q, p, i, k, v)
         /\ Key(r) = k /\ v = Effect(r) =>
              Holds(Append(q, r), p, Len(q) + 1, k, v)
         /\ Key(r) # k /\ Holds(q, p, Len(q), k, v) =>
              Holds(Append(q, r), p, Len(q) + 1, k, v)
<1> DEFINE qr == Append(q, r)
<1>1. /\ Len(q) \in Nat
      /\ Len(qr) = Len(q) + 1
      /\ \A j \in 1..Len(q) : qr[j] = q[j]
      /\ qr[Len(q) + 1] = r
  OBVIOUS
<1> HIDE DEF qr
<1>2. ASSUME NEW i \in 0..Len(q)
      PROVE  Holds(qr, p, i, k, v) <=> Holds(q, p, i, k, v)
  <2>1. \A j \in 1..i : qr[j] = q[j]
    BY <1>1
  <2>2. \A j \in 1..i : \A m \in (j+1)..i : qr[m] = q[m]
    BY <1>1
  <2> QED
    BY <2>1, <2>2 DEF Holds
<1>3. ASSUME Key(r) = k, v = Effect(r)
      PROVE  Holds(qr, p, Len(q) + 1, k, v)
  <2>1. /\ Len(q) + 1 \in 1..(Len(q) + 1)
        /\ \A m \in (Len(q) + 1 + 1)..(Len(q) + 1) : Key(qr[m]) # k
    BY <1>1
  <2> QED
    BY <1>1, <1>3, <2>1 DEF Holds
<1>4. ASSUME Key(r) # k, Holds(q, p, Len(q), k, v)
      PROVE  Holds(qr, p, Len(q) + 1, k, v)
  <2>1. CASE \A j \in 1..Len(q) : Key(q[j]) # k
    <3>1. v = p[k]
      BY <1>4, <2>1 DEF Holds
    <3>2. \A j \in 1..(Len(q) + 1) : Key(qr[j]) # k
      BY <1>1, <1>4, <2>1
    <3> QED
      BY <3>1, <3>2 DEF Holds
  <2>2. CASE ~ \A j \in 1..Len(q) : Key(q[j]) # k
    <3>1. PICK j \in 1..Len(q) : /\ Key(q[j]) = k
                                /\ v = Effect(q[j])
                                /\ \A m \in (j+1)..Len(q) : Key(q[m]) # k
      BY <1>4, <2>2 DEF Holds
    <3>2. j \in 1..(Len(q) + 1) /\ Key(qr[j]) = k /\ v = Effect(qr[j])
      BY <1>1, <3>1
    <3>3. \A m \in (j+1)..(Len(q) + 1) : Key(qr[m]) # k
      BY <1>1, <1>4, <3>1
    <3> QED
      BY <3>2, <3>3 DEF Holds
  <2> QED
    BY <2>1, <2>2
<1> QED
  BY <1>2, <1>3, <1>4 DEF qr

(* Processing the first record changes what is in pending, and nothing     *)
(* about what will be there when a later record is reached.                *)
LEMMA HoldsDrain ==
  ASSUME NEW q \in Seq(Record), q # <<>>,
         NEW p \in [Keys -> Nat \cup {None}],
         NEW k \in Keys, NEW v, NEW i \in 0..(Len(q) - 1),
         Holds(q, p, i + 1, k, v)
  PROVE  Holds(Tail(q), [p EXCEPT ![Key(Head(q))] = Effect(Head(q))], i, k, v)
<1> DEFINE t == Tail(q)
           e == q[1]
           p2 == [p EXCEPT ![Key(e)] = Effect(e)]
<1>1. /\ Len(q) \in Nat \ {0}
      /\ Head(q) = e
      /\ \A j \in 1..(Len(q) - 1) : t[j] = q[j + 1]
  BY HeadTailProperties, EmptySeq
<1>2. p2[k] = IF Key(e) = k THEN Effect(e) ELSE p[k]
  OBVIOUS
<1> HIDE DEF t, e, p2
<1>3. CASE \E j \in 1..(i + 1) : /\ Key(q[j]) = k
                               /\ v = Effect(q[j])
                               /\ \A m \in (j+1)..(i + 1) : Key(q[m]) # k
  <2>1. PICK j \in 1..(i + 1) : /\ Key(q[j]) = k
                               /\ v = Effect(q[j])
                               /\ \A m \in (j+1)..(i + 1) : Key(q[m]) # k
    BY <1>3
  <2>2. CASE j = 1
    <3>1. v = p2[k]
      BY <1>2, <2>1, <2>2 DEF e
    <3>2. \A m \in 1..i : Key(t[m]) # k
      BY <1>1, <2>1, <2>2
    <3> QED
      BY <3>1, <3>2, <1>1 DEF Holds, p2, t
  <2>3. CASE j # 1
    <3>1. j - 1 \in 1..i /\ t[j - 1] = q[j]
      BY <1>1, <2>3
    <3>2. \A m \in ((j - 1) + 1)..i : Key(t[m]) # k
      BY <1>1, <2>1, <2>3
    <3> QED
      BY <3>1, <3>2, <2>1, <1>1 DEF Holds, p2, t
  <2> QED
    BY <2>2, <2>3
<1>4. CASE v = p[k] /\ \A j \in 1..(i + 1) : Key(q[j]) # k
  <2>1. v = p2[k]
    BY <1>1, <1>2, <1>4 DEF e
  <2>2. \A m \in 1..i : Key(t[m]) # k
    BY <1>1, <1>4
  <2> QED
    BY <2>1, <2>2, <1>1 DEF Holds, p2, t
<1> QED
  BY <1>3, <1>4 DEF Holds

-----------------------------------------------------------------------------
LEMMA InitIInv == Init => IInv
<1> SUFFICES ASSUME Init PROVE IInv
  OBVIOUS
<1> USE SyscallTraceAssumption
<1>1. TypeOK
  <2>1. pc \in [Threads -> Phases] /\ nr \in [Threads -> Sysnos]
    BY DEF Init, Phases
  <2>2. since \in [Threads -> Nat] /\ stamp \in [Threads -> Nat] /\ clock \in Nat
    BY DEF Init
  <2>3. events \in Seq(Record) /\ Len(events) <= RingCap
    BY EmptySeq DEF Init
  <2>5. attached \in BOOLEAN /\ dropped \in BOOLEAN /\ lost \in BOOLEAN
    BY DEF Init
  <2>4. /\ pending \in [Keys -> Nat \cup {None}]
        /\ stats \in [Sysnos -> SyscallStats]
        /\ done \in [Sysnos -> SyscallStats]
    BY DEF Init, SyscallStats
  <2> QED
    BY <2>1, <2>2, <2>3, <2>4, <2>5 DEF TypeOK
<1>2. StampsInOrder /\ HandlersOfTarget
  BY DEF Init, StampsInOrder, HandlersOfTarget
<1>d. DropsAreLosses
  BY DEF Init, DropsAreLosses
<1>3. \A k \in Keys : Holds(events, pending, Len(events), k, None)
  BY DEF Init, Holds
<1>4. StartsInFlight
  BY <1>3 DEF StartsInFlight
<1>5. ExitsFindStart
  <2>1. \A t \in Threads : matches_target(t) => CallKey(t) \in Keys
    BY <1>1 DEF TypeOK, matches_target, CallKey, Keys
  <2>2. \A t \in Threads : Start(since[t]) = None
    BY DEF Init, Start
  <2> QED
    BY <1>3, <2>1, <2>2 DEF Init, ExitsFindStart
<1> QED
  BY <1>1, <1>2, <1>d, <1>4, <1>5 DEF IInv

LEMMA OutputType ==
  ASSUME TypeOK, NEW t \in Threads, NEW kind, Output(kind, t),
         [kind |-> kind, pid |-> Tgid[t], nr |-> nr[t],
          ts |-> stamp[t], own |-> since[t]] \in Record
  PROVE  /\ events' \in Seq(Record)
         /\ Len(events') <= RingCap
         /\ dropped' \in BOOLEAN /\ lost' \in BOOLEAN
<1> DEFINE rec == [kind |-> kind, pid |-> Tgid[t], nr |-> nr[t],
                   ts |-> stamp[t], own |-> since[t]]
<1>0. rec \in Record /\ events \in Seq(Record) /\ Len(events) <= RingCap
  BY DEF TypeOK
<1>3. \/ Len(events) < RingCap /\ events' = Append(events, rec)
      \/ events' = events
  BY Zenon DEF Output
<1> HIDE DEF rec
<1>1. events' \in Seq(Record) /\ Len(events') <= RingCap
  BY <1>0, <1>3, SyscallTraceAssumption
<1>2. dropped' \in BOOLEAN /\ lost' \in BOOLEAN
  BY DEF TypeOK, Output, losses
<1> QED
  BY <1>1, <1>2

LEMMA TallyType ==
  ASSUME NEW sums \in [Sysnos -> SyscallStats], NEW n \in Sysnos, NEW ns \in Nat
  PROVE  Tally(sums, n, ns) \in [Sysnos -> SyscallStats]
BY DEF Tally, SyscallStats

(* What the two handlers and the drain do to the types, action by action.  *)
LEMMA TypeStep ==
  IInv /\ [Next]_vars => TypeOK' /\ StampsInOrder' /\ HandlersOfTarget'
<1> SUFFICES ASSUME IInv, [Next]_vars
             PROVE  TypeOK' /\ StampsInOrder' /\ HandlersOfTarget'
  OBVIOUS
<1> USE SyscallTraceAssumption
<1>t. TypeOK /\ StampsInOrder /\ HandlersOfTarget
  BY DEF IInv
<1>1. ASSUME NEW t \in Threads, NEW n \in Sysnos, SysEnter(t, n)
      PROVE  TypeOK' /\ StampsInOrder' /\ HandlersOfTarget'
  <2>1. TypeOK'
    BY <1>t, <1>1 DEF TypeOK, SysEnter, Moves, ReadClock, userVars, losses, Phases
  <2>2. StampsInOrder'
    BY <1>t, <1>1 DEF TypeOK, StampsInOrder, SysEnter, Moves, ReadClock, Phases
  <2>3. HandlersOfTarget'
    BY <1>t, <1>1 DEF TypeOK, HandlersOfTarget, SysEnter, Moves, matches_target
  <2> QED
    BY <2>1, <2>2, <2>3
<1>2. ASSUME NEW t \in Threads, EmitEnter(t)
      PROVE  TypeOK' /\ StampsInOrder' /\ HandlersOfTarget'
  <2>1. [kind |-> "Enter", pid |-> Tgid[t], nr |-> nr[t],
         ts |-> stamp[t], own |-> since[t]] \in Record
    BY <1>t, <1>2 DEF TypeOK, HandlersOfTarget, EmitEnter, Moves, matches_target, Record
  <2>2. /\ events' \in Seq(Record)
        /\ Len(events') <= RingCap
        /\ dropped' \in BOOLEAN /\ lost' \in BOOLEAN
    BY <1>t, <1>2, <2>1, OutputType DEF EmitEnter
  <2>3. TypeOK'
    BY <1>t, <1>2, <2>2 DEF TypeOK, EmitEnter, Moves, userVars, losses, Phases
  <2>4. StampsInOrder' /\ HandlersOfTarget'
    BY <1>t, <1>2 DEF TypeOK, StampsInOrder, HandlersOfTarget, EmitEnter, Moves, matches_target
  <2> QED
    BY <2>3, <2>4
<1>3. ASSUME NEW t \in Threads, SysExit(t)
      PROVE  TypeOK' /\ StampsInOrder' /\ HandlersOfTarget'
  <2>1. TypeOK'
    BY <1>t, <1>3 DEF TypeOK, SysExit, Moves, ReadClock, userVars, losses, Phases
  <2>2. StampsInOrder' /\ HandlersOfTarget'
    BY <1>t, <1>3 DEF TypeOK, StampsInOrder, HandlersOfTarget, SysExit, Moves, ReadClock, matches_target
  <2> QED
    BY <2>1, <2>2
<1>4. ASSUME NEW t \in Threads, EmitExit(t)
      PROVE  TypeOK' /\ StampsInOrder' /\ HandlersOfTarget'
  <2>1. [kind |-> "Exit", pid |-> Tgid[t], nr |-> nr[t],
         ts |-> stamp[t], own |-> since[t]] \in Record
    BY <1>t, <1>4 DEF TypeOK, HandlersOfTarget, EmitExit, Moves, matches_target, Record
  <2>2. /\ events' \in Seq(Record)
        /\ Len(events') <= RingCap
        /\ dropped' \in BOOLEAN /\ lost' \in BOOLEAN
    BY <1>t, <1>4, <2>1, OutputType DEF EmitExit
  <2>3. stamp[t] - since[t] \in Nat
    BY <1>t, <1>4 DEF TypeOK, StampsInOrder, EmitExit, Moves
  <2>4. done' \in [Sysnos -> SyscallStats]
    BY <1>t, <1>4, <2>3, TallyType DEF TypeOK, EmitExit
  <2>5. TypeOK'
    BY <1>t, <1>4, <2>2, <2>4 DEF TypeOK, EmitExit, Moves, userVars, losses, Phases
  <2>6. StampsInOrder' /\ HandlersOfTarget'
    BY <1>t, <1>4 DEF TypeOK, StampsInOrder, HandlersOfTarget, EmitExit, Moves, matches_target
  <2> QED
    BY <2>5, <2>6
<1>5. ASSUME NEW t \in Threads, ThreadGone(t)
      PROVE  TypeOK' /\ StampsInOrder' /\ HandlersOfTarget'
  <2>1. TypeOK'
    BY <1>t, <1>5 DEF TypeOK, ThreadGone, Moves, userVars, losses, Phases
  <2>2. StampsInOrder' /\ HandlersOfTarget'
    BY <1>t, <1>5 DEF TypeOK, StampsInOrder, HandlersOfTarget, ThreadGone, Moves,
                      matches_target
  <2> QED
    BY <2>1, <2>2
<1>6. ASSUME NEW t \in Threads, NEW n \in Sysnos, EnterUnseen(t, n)
      PROVE  TypeOK' /\ StampsInOrder' /\ HandlersOfTarget'
  <2>1. TypeOK'
    BY <1>t, <1>6 DEF TypeOK, EnterUnseen, Moves, userVars, losses, Phases
  <2>2. StampsInOrder' /\ HandlersOfTarget'
    BY <1>t, <1>6 DEF TypeOK, StampsInOrder, HandlersOfTarget, EnterUnseen, Moves,
                      matches_target
  <2> QED
    BY <2>1, <2>2
<1>7. ASSUME DrainEnter
      PROVE  TypeOK' /\ StampsInOrder' /\ HandlersOfTarget'
  <2>1. /\ Head(events) \in Record
        /\ events' \in Seq(Record)
        /\ Len(events') <= RingCap
    BY <1>t, <1>7, HeadTailProperties, EmptySeq DEF TypeOK, DrainEnter
  <2>2. pending' \in [Keys -> Nat \cup {None}]
    BY <1>t, <1>7, <2>1 DEF TypeOK, DrainEnter, Remember, Record
  <2> QED
    BY <1>t, <1>7, <2>1, <2>2
       DEF TypeOK, StampsInOrder, HandlersOfTarget, DrainEnter, matches_target, kernelVars, losses
<1>8. ASSUME DrainExit
      PROVE  TypeOK' /\ StampsInOrder' /\ HandlersOfTarget'
  <2>1. /\ Head(events) \in Record
        /\ events' \in Seq(Record)
        /\ Len(events') <= RingCap
    BY <1>t, <1>8, HeadTailProperties, EmptySeq DEF TypeOK, DrainExit
  <2>2. Key(Head(events)) \in Keys /\ Head(events).nr \in Sysnos /\ Head(events).ts \in Nat
    BY <2>1 DEF Record, Key, Keys
  <2>3. pending' \in [Keys -> Nat \cup {None}]
    BY <1>t, <1>8 DEF TypeOK, DrainExit, Forget
  <2>4. ASSUME pending[Key(Head(events))] # None
        PROVE  SatSub(Head(events).ts, pending[Key(Head(events))]) \in Nat
    BY <1>t, <2>2, <2>4 DEF TypeOK, SatSub
  <2>5. stats' \in [Sysnos -> SyscallStats]
    BY <1>t, <1>8, <2>2, <2>4, TallyType DEF TypeOK, DrainExit, Account
  <2> QED
    BY <1>t, <1>8, <2>1, <2>3, <2>5
       DEF TypeOK, StampsInOrder, HandlersOfTarget, DrainExit, matches_target, kernelVars, losses
<1>9. CASE UNCHANGED vars
  BY <1>t, <1>9 DEF TypeOK, StampsInOrder, HandlersOfTarget, matches_target,
                    vars, kernelVars, userVars, losses
<1>10. ASSUME NEW t \in Threads, ExitUnseen(t)
       PROVE  TypeOK' /\ StampsInOrder' /\ HandlersOfTarget'
  <2>1. lost' \in BOOLEAN
    BY <1>10 DEF ExitUnseen
  <2>2. TypeOK'
    BY <1>t, <1>10, <2>1 DEF TypeOK, ExitUnseen, Moves, userVars, losses, Phases
  <2>3. StampsInOrder' /\ HandlersOfTarget'
    BY <1>t, <1>10 DEF TypeOK, StampsInOrder, HandlersOfTarget, ExitUnseen, Moves, matches_target
  <2> QED
    BY <2>2, <2>3
<1>11. ASSUME AttachExit
       PROVE  TypeOK' /\ StampsInOrder' /\ HandlersOfTarget'
  BY <1>t, <1>11 DEF TypeOK, StampsInOrder, HandlersOfTarget, matches_target,
                     AttachExit, kernelVars, userVars, losses
<1> QED
  BY <1>1, <1>2, <1>3, <1>4, <1>5, <1>6, <1>7, <1>8, <1>9, <1>10, <1>11
     DEF Next, ThreadStep

(***************************************************************************)
(* The steps that matter to what pending will hold: the two that output a  *)
(* record and the two that take one out.                                   *)
(***************************************************************************)

(* What is missing stays missing, and a dropped record is missing.         *)
LEMMA LossStep ==
  ASSUME IInv, [Next]_vars
  PROVE  /\ DropsAreLosses' /\ (~lost' => ~lost)
         /\ \A p : Matched(p)' => Matched(p)
<1> DEFINE Kept == /\ dropped => dropped'
                   /\ lost => lost'
                   /\ dropped' => dropped \/ lost'
<1>1. ASSUME NEW t \in Threads, NEW n \in Sysnos, SysEnter(t, n) \/ EnterUnseen(t, n)
      PROVE  Kept
  BY <1>1 DEF SysEnter, EnterUnseen, losses
<1>2. ASSUME NEW t \in Threads, EmitEnter(t) \/ EmitExit(t)
      PROVE  Kept
  BY <1>2 DEF EmitEnter, EmitExit, Output, losses
<1>3. ASSUME NEW t \in Threads, SysExit(t) \/ ThreadGone(t)
      PROVE  Kept
  BY <1>3 DEF SysExit, ThreadGone, losses
<1>4. ASSUME NEW t \in Threads, ExitUnseen(t)
      PROVE  Kept
  <2>1. UNCHANGED dropped /\ lost' = (lost \/ since[t] # 0)
    BY <1>4 DEF ExitUnseen
  <2> QED
    BY <2>1, Zenon
<1>5. ASSUME AttachExit \/ DrainEnter \/ DrainExit \/ UNCHANGED vars
      PROVE  Kept
  BY <1>5 DEF AttachExit, DrainEnter, DrainExit, vars, losses
<1>6. Kept
  BY <1>1, <1>2, <1>3, <1>4, <1>5 DEF Next, ThreadStep
<1> QED
  BY <1>6 DEF IInv, DropsAreLosses, Matched

(* A successful output, seen through Holds.                                *)
LEMMA OutputHolds ==
  ASSUME TypeOK, NEW t \in Threads, NEW kind, Output(kind, t), ~lost' \/ ~dropped',
         UNCHANGED pending,
         [kind |-> kind, pid |-> Tgid[t], nr |-> nr[t],
          ts |-> stamp[t], own |-> since[t]] \in Record
  PROVE  LET r == [kind |-> kind, pid |-> Tgid[t], nr |-> nr[t],
                   ts |-> stamp[t], own |-> since[t]]
         IN  /\ UNCHANGED <<dropped, lost>>
             /\ events' = Append(events, r)
             /\ Len(events') = Len(events) + 1
             /\ \A k, v : \A i \in 0..Len(events) :
                  Holds(events, pending, i, k, v) =>
                    Holds(events', pending', i, k, v)
             /\ Holds(events', pending', Len(events'), CallKey(t), Effect(r))
             /\ \A k, v : k # CallKey(t) /\ Holds(events, pending, Len(events), k, v) =>
                  Holds(events', pending', Len(events'), k, v)
<1> DEFINE r == [kind |-> kind, pid |-> Tgid[t], nr |-> nr[t],
                 ts |-> stamp[t], own |-> since[t]]
<1>1. UNCHANGED <<dropped, lost>> /\ events' = Append(events, r)
  BY DEF Output, losses
<1>2. r \in Record /\ events \in Seq(Record) /\ pending \in [Keys -> Nat \cup {None}]
  BY DEF TypeOK
<1>3. Key(r) = CallKey(t)
  BY DEF Key, CallKey
<1> HIDE DEF r
<1>4. Len(events') = Len(events) + 1
  BY <1>1, <1>2
<1>5. ASSUME NEW k, NEW v
      PROVE  /\ \A i \in 0..Len(events) :
                  Holds(events, pending, i, k, v) =>
                    Holds(events', pending', i, k, v)
             /\ Key(r) = k /\ v = Effect(r) =>
                  Holds(events', pending', Len(events'), k, v)
             /\ Key(r) # k /\ Holds(events, pending, Len(events), k, v) =>
                  Holds(events', pending', Len(events'), k, v)
  BY <1>1, <1>2, <1>4, HoldsAppend
<1> QED
  BY <1>1, <1>3, <1>4, <1>5 DEF r

(* Taking out the oldest record, seen through Holds.                       *)
LEMMA DrainHolds ==
  ASSUME TypeOK, DrainEnter \/ DrainExit
  PROVE  /\ events # <<>>
         /\ Len(events') = Len(events) - 1
         /\ \A i \in 1..Len(events') : events'[i] = events[i + 1]
         /\ \A k \in Keys : \A v : \A i \in 0..Len(events') :
              Holds(events, pending, i + 1, k, v) =>
                Holds(events', pending', i, k, v)
<1>1. /\ events # <<>>
      /\ events' = Tail(events)
      /\ pending' = [pending EXCEPT ![Key(Head(events))] = Effect(Head(events))]
  <2>1. CASE DrainEnter
    BY <2>1 DEF DrainEnter, Remember, Effect
  <2>2. CASE DrainExit
    BY <2>2 DEF DrainExit, Effect, Forget
  <2> QED
    BY <2>1, <2>2
<1>2. events \in Seq(Record) /\ pending \in [Keys -> Nat \cup {None}]
  BY DEF TypeOK
<1>3. /\ Len(events) \in Nat
      /\ Len(events') = Len(events) - 1
      /\ \A i \in 1..Len(events') : events'[i] = events[i + 1]
  BY <1>1, <1>2, HeadTailProperties
<1>4. ASSUME NEW k \in Keys, NEW v, NEW i \in 0..Len(events'),
             Holds(events, pending, i + 1, k, v)
      PROVE  Holds(events', pending', i, k, v)
  BY <1>1, <1>2, <1>3, <1>4, HoldsDrain
<1> QED
  BY <1>1, <1>3, <1>4

(* Each handler's record is of the type the ring holds.                    *)
LEMMA RecordType ==
  ASSUME IInv, NEW t \in Threads, pc[t] \in {"entering", "exiting"},
         NEW kind \in {"Enter", "Exit"}
  PROVE  [kind |-> kind, pid |-> Tgid[t], nr |-> nr[t],
          ts |-> stamp[t], own |-> since[t]] \in Record
BY DEF IInv, TypeOK, HandlersOfTarget, matches_target, Record

LEMMA StartsInFlightStep == IInv /\ [Next]_vars => StartsInFlight'
<1> SUFFICES ASSUME IInv, [Next]_vars, ~lost',
                    NEW k \in Keys
             PROVE  \/ Holds(events', pending', Len(events'), k, None)
                    \/ \E u \in Threads :
                         /\ CallKey(u)' = k
                         /\ since'[u] # 0
                         /\ pc'[u] \in {"inside", "exiting", "gone"}
                         /\ Holds(events', pending', Len(events'), k, since'[u])
  BY DEF StartsInFlight
<1>t. TypeOK /\ StartsInFlight
  BY DEF IInv
<1> DEFINE Witness(u) == /\ CallKey(u) = k
                         /\ since[u] # 0
                         /\ pc[u] \in {"inside", "exiting", "gone"}
                         /\ Holds(events, pending, Len(events), k, since[u])
           Goal == \/ Holds(events', pending', Len(events'), k, None)
                   \/ \E u \in Threads :
                         /\ CallKey(u)' = k
                         /\ since'[u] # 0
                         /\ pc'[u] \in {"inside", "exiting", "gone"}
                         /\ Holds(events', pending', Len(events'), k, since'[u])
<1>0. ~lost => \/ Holds(events, pending, Len(events), k, None)
               \/ \E u \in Threads : Witness(u)
  BY <1>t DEF StartsInFlight
(* A step that outputs and drains nothing keeps the witness in flight.     *)
<1>q. ASSUME UNCHANGED <<events, pending, lost>>,
             \A u \in Threads : Witness(u) =>
               /\ CallKey(u)' = CallKey(u)
               /\ since'[u] = since[u]
               /\ pc'[u] \in {"inside", "exiting", "gone"}
      PROVE  Goal
  BY <1>0, <1>q
<1>1. ASSUME NEW t \in Threads, NEW n \in Sysnos, SysEnter(t, n)
      PROVE  Goal
  <2>1. \A u \in Threads : Witness(u) =>
          /\ CallKey(u)' = CallKey(u)
          /\ since'[u] = since[u]
          /\ pc'[u] \in {"inside", "exiting", "gone"}
    BY <1>t, <1>1 DEF TypeOK, SysEnter, Moves, CallKey
  <2> QED
    BY <1>1, <1>q, <2>1 DEF SysEnter, userVars, losses
<1>2. ASSUME NEW t \in Threads, EmitEnter(t)
      PROVE  Goal
  <2> DEFINE r == [kind |-> "Enter", pid |-> Tgid[t], nr |-> nr[t],
                   ts |-> stamp[t], own |-> since[t]]
  <2>1. r \in Record
    BY <1>2, RecordType DEF EmitEnter, Moves
  <2>2. /\ ~lost
        /\ Holds(events', pending', Len(events'), CallKey(t), Effect(r))
        /\ \A v : k # CallKey(t) /\ Holds(events, pending, Len(events), k, v) =>
                 Holds(events', pending', Len(events'), k, v)
    BY <1>t, <1>2, <2>1, OutputHolds DEF EmitEnter, userVars
  <2>3. Effect(r) = since[t] /\ since[t] # 0
    BY <1>t, <1>2 DEF TypeOK, IInv, StampsInOrder, EmitEnter, Moves, Effect
  <2>4. /\ pc'[t] = "inside"
        /\ \A u \in Threads : u # t => pc'[u] = pc[u]
        /\ \A u \in Threads : CallKey(u)' = CallKey(u) /\ since'[u] = since[u]
    BY <1>t, <1>2 DEF TypeOK, EmitEnter, Moves, CallKey
  <2>5. CASE k = CallKey(t)
    BY <2>2, <2>3, <2>4, <2>5
  <2>6. CASE k # CallKey(t)
    BY <1>0, <2>2, <2>4, <2>6
  <2> QED
    BY <2>5, <2>6
<1>3. ASSUME NEW t \in Threads, SysExit(t)
      PROVE  Goal
  <2>1. \A u \in Threads : Witness(u) =>
          /\ CallKey(u)' = CallKey(u)
          /\ since'[u] = since[u]
          /\ pc'[u] \in {"inside", "exiting", "gone"}
    BY <1>t, <1>3 DEF TypeOK, SysExit, Moves, CallKey
  <2> QED
    BY <1>3, <1>q, <2>1 DEF SysExit, userVars, losses
<1>4. ASSUME NEW t \in Threads, EmitExit(t)
      PROVE  Goal
  <2> DEFINE r == [kind |-> "Exit", pid |-> Tgid[t], nr |-> nr[t],
                   ts |-> stamp[t], own |-> since[t]]
  <2>1. r \in Record
    BY <1>4, RecordType DEF EmitExit, Moves
  <2>2. /\ ~lost
        /\ Holds(events', pending', Len(events'), CallKey(t), Effect(r))
        /\ \A v : k # CallKey(t) /\ Holds(events, pending, Len(events), k, v) =>
                 Holds(events', pending', Len(events'), k, v)
    BY <1>t, <1>4, <2>1, OutputHolds DEF EmitExit, userVars
  <2>3. Effect(r) = None
    BY DEF Effect
  <2>4. /\ \A u \in Threads : u # t => pc'[u] = pc[u]
        /\ \A u \in Threads : CallKey(u)' = CallKey(u) /\ since'[u] = since[u]
    BY <1>t, <1>4 DEF TypeOK, EmitExit, Moves, CallKey
  <2>5. CASE k = CallKey(t)
    BY <2>2, <2>3, <2>5
  <2>6. CASE k # CallKey(t)
    BY <1>0, <2>2, <2>4, <2>6
  <2> QED
    BY <2>5, <2>6
<1>5. ASSUME NEW t \in Threads, ThreadGone(t)
      PROVE  Goal
  <2>1. \A u \in Threads : Witness(u) =>
          /\ CallKey(u)' = CallKey(u)
          /\ since'[u] = since[u]
          /\ pc'[u] \in {"inside", "exiting", "gone"}
    BY <1>t, <1>5 DEF TypeOK, ThreadGone, Moves, CallKey
  <2> QED
    BY <1>5, <1>q, <2>1 DEF ThreadGone, userVars, losses
(* A thread in user mode is not the witness.                               *)
<1>6. ASSUME NEW t \in Threads, NEW n \in Sysnos, EnterUnseen(t, n)
      PROVE  Goal
  <2>1. \A u \in Threads : Witness(u) => u # t
    BY <1>6 DEF EnterUnseen, Moves
  <2>2. \A u \in Threads : Witness(u) =>
          /\ CallKey(u)' = CallKey(u)
          /\ since'[u] = since[u]
          /\ pc'[u] \in {"inside", "exiting", "gone"}
    BY <1>t, <1>6, <2>1 DEF TypeOK, EnterUnseen, Moves, CallKey
  <2> QED
    BY <1>6, <1>q, <2>2 DEF EnterUnseen, userVars, losses
<1>7. ASSUME DrainEnter \/ DrainExit
      PROVE  Goal
  <2>1. /\ ~lost
        /\ \A u \in Threads : /\ CallKey(u)' = CallKey(u)
                              /\ since'[u] = since[u]
                              /\ pc'[u] = pc[u]
    BY <1>7 DEF DrainEnter, DrainExit, kernelVars, losses, CallKey
  <2>2. \A v : Holds(events, pending, Len(events), k, v) =>
               Holds(events', pending', Len(events'), k, v)
    <3>1. /\ Len(events') + 1 = Len(events)
          /\ Len(events') \in 0..Len(events')
      BY <1>t, <1>7, DrainHolds, LenProperties, EmptySeq DEF TypeOK
    <3> QED
      BY <1>t, <1>7, <3>1, DrainHolds
  <2> QED
    BY <1>0, <2>1, <2>2
<1>8. CASE UNCHANGED vars
  BY <1>8, <1>q DEF vars, kernelVars, userVars, losses, CallKey
<1>9. CASE AttachExit
  BY <1>9, <1>q DEF AttachExit, kernelVars, userVars, losses, CallKey
(* Its entry was not seen either, so it is not the witness.                *)
<1>10. ASSUME NEW t \in Threads, ExitUnseen(t)
       PROVE  Goal
  <2>1. /\ ~lost /\ since[t] = 0
        /\ \A u \in Threads : u # t => pc'[u] = pc[u]
        /\ \A u \in Threads : CallKey(u)' = CallKey(u) /\ since'[u] = since[u]
        /\ UNCHANGED <<events, pending>>
    BY <1>t, <1>10 DEF TypeOK, ExitUnseen, Moves, CallKey, userVars
  <2>2. ~Witness(t)
    BY <2>1
  <2> QED
    BY <1>0, <2>1, <2>2
<1> QED
  BY <1>1, <1>2, <1>3, <1>4, <1>5, <1>6, <1>7, <1>8, <1>9, <1>10
     DEF Next, ThreadStep

LEMMA ExitsFindStartStep == IInv /\ [Next]_vars => ExitsFindStart'
<1> DEFINE
      Queued == \A i \in 1..Len(events) :
                  events[i].kind = "Exit" /\ Matched(events[i].pid) =>
                    Holds(events, pending, i - 1, Key(events[i]), Start(events[i].own))
      Running == \A t \in Threads :
                   matches_target(t) /\ pc[t] \in {"inside", "exiting"} /\ Matched(Tgid[t]) =>
                     Holds(events, pending, Len(events), CallKey(t), Start(since[t]))
<1> SUFFICES ASSUME IInv, [Next]_vars, OneThreadEach
             PROVE  Queued' /\ Running'
  BY DEF ExitsFindStart, OneThreadEach
<1>t. TypeOK
  BY DEF IInv
<1>m. DropsAreLosses' /\ \A p : Matched(p)' => Matched(p)
  BY LossStep
<1>d. CASE dropped'
  BY <1>d, <1>m DEF Queued, Running, Matched, DropsAreLosses
<1> SUFFICES ASSUME ~dropped' PROVE Queued' /\ Running'
  BY <1>d
<1>0. Queued /\ Running
  BY DEF IInv, ExitsFindStart
<1>k. \A t, u \in Threads : t # u => CallKey(t) # CallKey(u)
  BY SyscallTraceAssumption DEF OneThreadEach, IsInjective, CallKey
<1> HIDE DEF Queued, Running
(* A step of a thread that outputs nothing.                                *)
<1>q. ASSUME UNCHANGED <<events, pending>>,
             \A u \in Threads :
               matches_target(u) /\ pc'[u] \in {"inside", "exiting"} =>
                 /\ pc[u] \in {"inside", "exiting"}
                 /\ CallKey(u)' = CallKey(u)
                 /\ since'[u] = since[u]
      PROVE  Queued' /\ Running'
  BY <1>0, <1>m, <1>q DEF Queued, Running, matches_target
<1>1. ASSUME NEW t \in Threads, NEW n \in Sysnos, SysEnter(t, n)
      PROVE  Queued' /\ Running'
  <2>1. \A u \in Threads :
          matches_target(u) /\ pc'[u] \in {"inside", "exiting"} =>
            /\ pc[u] \in {"inside", "exiting"}
            /\ CallKey(u)' = CallKey(u)
            /\ since'[u] = since[u]
    BY <1>t, <1>1 DEF TypeOK, SysEnter, Moves, CallKey
  <2> QED
    BY <1>1, <1>q, <2>1 DEF SysEnter, userVars, losses
<1>2. ASSUME NEW t \in Threads, EmitEnter(t)
      PROVE  Queued' /\ Running'
  <2> DEFINE r == [kind |-> "Enter", pid |-> Tgid[t], nr |-> nr[t],
                   ts |-> stamp[t], own |-> since[t]]
  <2>1. r \in Record
    BY <1>2, RecordType DEF EmitEnter, Moves
  <2>2. /\ events' = Append(events, r)
        /\ \A k, v : \A i \in 0..Len(events) :
             Holds(events, pending, i, k, v) => Holds(events', pending', i, k, v)
        /\ Holds(events', pending', Len(events'), CallKey(t), Effect(r))
        /\ \A k, v : k # CallKey(t) /\ Holds(events, pending, Len(events), k, v) =>
                 Holds(events', pending', Len(events'), k, v)
    BY <1>t, <1>2, <2>1, OutputHolds DEF EmitEnter, userVars
  <2>3. Effect(r) = Start(since[t])
    BY <1>2 DEF IInv, StampsInOrder, EmitEnter, Moves, Effect, Start
  <2>4. /\ \A u \in Threads : u # t => pc'[u] = pc[u]
        /\ \A u \in Threads : CallKey(u)' = CallKey(u) /\ since'[u] = since[u]
    BY <1>t, <1>2 DEF TypeOK, EmitEnter, Moves, CallKey
  <2>5. Queued'
    <3>1. /\ Len(events) \in Nat
          /\ Len(events') = Len(events) + 1
          /\ \A i \in 1..Len(events) : events'[i] = events[i]
          /\ events'[Len(events) + 1].kind = "Enter"
      BY <1>t, <2>2 DEF TypeOK
    <3> QED
      BY <1>0, <1>m, <2>2, <3>1 DEF Queued
  <2>6. Running'
    BY <1>0, <1>k, <1>m, <2>2, <2>3, <2>4 DEF Running, matches_target
  <2> QED
    BY <2>5, <2>6
<1>3. ASSUME NEW t \in Threads, SysExit(t)
      PROVE  Queued' /\ Running'
  <2>1. \A u \in Threads :
          matches_target(u) /\ pc'[u] \in {"inside", "exiting"} =>
            /\ pc[u] \in {"inside", "exiting"}
            /\ CallKey(u)' = CallKey(u)
            /\ since'[u] = since[u]
    BY <1>t, <1>3 DEF TypeOK, SysExit, Moves, CallKey
  <2> QED
    BY <1>3, <1>q, <2>1 DEF SysExit, userVars, losses
<1>4. ASSUME NEW t \in Threads, EmitExit(t)
      PROVE  Queued' /\ Running'
  <2> DEFINE r == [kind |-> "Exit", pid |-> Tgid[t], nr |-> nr[t],
                   ts |-> stamp[t], own |-> since[t]]
  <2>1. r \in Record
    BY <1>4, RecordType DEF EmitExit, Moves
  <2>2. /\ events' = Append(events, r)
        /\ \A k, v : \A i \in 0..Len(events) :
             Holds(events, pending, i, k, v) => Holds(events', pending', i, k, v)
        /\ \A k, v : k # CallKey(t) /\ Holds(events, pending, Len(events), k, v) =>
                 Holds(events', pending', Len(events'), k, v)
    BY <1>t, <1>4, <2>1, OutputHolds DEF EmitExit, userVars
  <2>4. /\ pc'[t] = "user"
        /\ \A u \in Threads : u # t => pc'[u] = pc[u]
        /\ \A u \in Threads : CallKey(u)' = CallKey(u) /\ since'[u] = since[u]
    BY <1>t, <1>4 DEF TypeOK, EmitExit, Moves, CallKey
  <2>5. Queued'
    <3>1. /\ Len(events) \in Nat
          /\ Len(events') = Len(events) + 1
          /\ \A i \in 1..Len(events) : events'[i] = events[i]
          /\ events'[Len(events) + 1] = r
      BY <1>t, <2>2 DEF TypeOK
    <3>2. Key(r) = CallKey(t) /\ r.own = since[t]
      BY DEF Key, CallKey
    <3>3. Matched(Tgid[t]) => Holds(events, pending, Len(events), CallKey(t), Start(since[t]))
      BY <1>0, <1>4 DEF Running, IInv, HandlersOfTarget, EmitExit, Moves
    <3>4. Matched(Tgid[t]) => Holds(events', pending', Len(events), Key(r), Start(r.own))
      BY <2>2, <3>1, <3>2, <3>3
    <3>5. r.pid = Tgid[t]
      OBVIOUS
    <3> QED
      BY <1>0, <1>m, <2>2, <3>1, <3>4, <3>5 DEF Queued
  <2>6. Running'
    BY <1>0, <1>k, <1>m, <2>2, <2>4 DEF Running, matches_target
  <2> QED
    BY <2>5, <2>6
<1>5. ASSUME NEW t \in Threads, ThreadGone(t)
      PROVE  Queued' /\ Running'
  <2>1. \A u \in Threads :
          matches_target(u) /\ pc'[u] \in {"inside", "exiting"} =>
            /\ pc[u] \in {"inside", "exiting"}
            /\ CallKey(u)' = CallKey(u)
            /\ since'[u] = since[u]
    BY <1>t, <1>5 DEF TypeOK, ThreadGone, Moves, CallKey
  <2> QED
    BY <1>5, <1>q, <2>1 DEF ThreadGone, userVars, losses
(* pending holds nothing of a movable process that is not in a call.       *)
<1>6. ASSUME NEW t \in Threads, NEW n \in Sysnos, EnterUnseen(t, n)
      PROVE  Queued' /\ Running'
  <2>1. /\ UNCHANGED <<events, pending, dropped, lost>> /\ pc[t] = "user"
        /\ since'[t] = 0
        /\ \A u \in Threads : u # t => CallKey(u)' = CallKey(u) /\ since'[u] = since[u]
                                      /\ pc'[u] = pc[u]
    BY <1>t, <1>6 DEF TypeOK, EnterUnseen, Moves, CallKey, userVars, losses
  <2>2. Queued'
    BY <1>0, <1>m, <2>1 DEF Queued
  <2>3. ASSUME matches_target(t), Matched(Tgid[t])'
        PROVE  Holds(events, pending, Len(events), CallKey(t)', None)
    <3>1. ~lost
      BY <1>6, <2>1, <2>3 DEF EnterUnseen, turned_away, matches_target, Matched
    <3>2. CallKey(t)' \in Keys /\ CallKey(t)'[1] = Tgid[t]
      BY <1>t, <1>6, <2>3 DEF TypeOK, EnterUnseen, matches_target, CallKey, Keys
    <3>3. \A u \in Threads : CallKey(u)[1] = Tgid[t] => u = t
      BY SyscallTraceAssumption DEF OneThreadEach, IsInjective, CallKey
    <3>4. \A u \in Threads : CallKey(u) = CallKey(t)' => pc[u] = "user"
      BY <2>1, <3>2, <3>3
    <3> QED
      BY <3>1, <3>2, <3>4 DEF IInv, StartsInFlight
  <2>4. Running'
    BY <1>0, <1>m, <2>1, <2>3 DEF Running, matches_target, Start
  <2> QED
    BY <2>2, <2>4
<1>7. ASSUME DrainEnter \/ DrainExit
      PROVE  Queued' /\ Running'
  <2>1. \A u \in Threads : /\ CallKey(u)' = CallKey(u)
                           /\ since'[u] = since[u]
                           /\ pc'[u] = pc[u]
    BY <1>7 DEF DrainEnter, DrainExit, kernelVars, CallKey
  <2>2. /\ Len(events') \in Nat
        /\ Len(events) = Len(events') + 1
        /\ \A i \in 1..Len(events') : events'[i] = events[i + 1]
        /\ \A k \in Keys : \A v : \A i \in 0..Len(events') :
             Holds(events, pending, i + 1, k, v) =>
               Holds(events', pending', i, k, v)
    BY <1>t, <1>7, DrainHolds, LenProperties, EmptySeq DEF TypeOK
  <2>3. ASSUME NEW i \in 1..Len(events'), events'[i].kind = "Exit", Matched(events[i].pid)'
        PROVE  Holds(events', pending', i - 1, Key(events'[i]), Start(events'[i].own))
    <3>1. i + 1 \in 1..Len(events) /\ i - 1 \in 0..Len(events')
      BY <2>2
    <3>2. Key(events[i + 1]) \in Keys
      <4>1. events[i + 1] \in Record
        BY <1>t, <3>1, ElementOfSeq DEF TypeOK
      <4> QED
        BY <4>1 DEF Record, Key, Keys
    <3>3. Holds(events, pending, (i - 1) + 1, Key(events[i + 1]), Start(events[i + 1].own))
      <4>1. events[i + 1].kind = "Exit" /\ Matched(events[i + 1].pid)
        BY <1>m, <2>2, <2>3
      <4>2. (i + 1) - 1 = (i - 1) + 1
        OBVIOUS
      <4> QED
        BY <1>0, <3>1, <4>1, <4>2 DEF Queued
    <3> QED
      BY <2>2, <3>1, <3>2, <3>3
  <2>4. Queued'
    BY <2>3 DEF Queued
  <2>5. ASSUME NEW u \in Threads, matches_target(u)', pc'[u] \in {"inside", "exiting"},
               Matched(Tgid[u])'
        PROVE  Holds(events', pending', Len(events'), CallKey(u)', Start(since'[u]))
    <3>1. CallKey(u) \in Keys
      BY <1>t, <2>5 DEF TypeOK, matches_target, CallKey, Keys
    <3>2. Holds(events, pending, Len(events') + 1, CallKey(u), Start(since[u]))
      BY <1>0, <1>m, <2>1, <2>2, <2>5 DEF Running, matches_target
    <3> QED
      BY <2>1, <2>2, <3>1, <3>2
  <2>6. Running'
    BY <2>5 DEF Running
  <2> QED
    BY <2>4, <2>6
<1>8. CASE UNCHANGED vars
  BY <1>8, <1>q DEF vars, kernelVars, userVars, losses, CallKey
<1>9. CASE AttachExit
  BY <1>9, <1>q DEF AttachExit, kernelVars, userVars, losses, CallKey
<1>10. ASSUME NEW t \in Threads, ExitUnseen(t)
       PROVE  Queued' /\ Running'
  <2>1. \A u \in Threads :
          matches_target(u) /\ pc'[u] \in {"inside", "exiting"} =>
            /\ pc[u] \in {"inside", "exiting"}
            /\ CallKey(u)' = CallKey(u)
            /\ since'[u] = since[u]
    BY <1>t, <1>10 DEF TypeOK, ExitUnseen, Moves, CallKey
  <2>3. UNCHANGED <<events, pending>>
    BY <1>10 DEF ExitUnseen, userVars
  <2> QED
    BY <1>q, <2>1, <2>3
<1> QED
  BY <1>1, <1>2, <1>3, <1>4, <1>5, <1>6, <1>7, <1>8, <1>9, <1>10
     DEF Next, ThreadStep

-----------------------------------------------------------------------------
THEOREM Invariance == Spec => []IInv
<1>1. IInv /\ [Next]_vars => IInv'
  BY TypeStep, LossStep, StartsInFlightStep, ExitsFindStartStep DEF IInv
<1> QED
  BY InitIInv, <1>1, PTL DEF Spec

(* What handlers output and the drain accumulates is of the declared type  *)
(* in every state: in particular no duration is ever negative, in whatever *)
(* order the records of concurrent handlers enter the ring.                *)
THEOREM TypeCorrect == Spec => []TypeOK
<1>1. IInv => TypeOK
  BY DEF IInv
<1> QED
  BY <1>1, Invariance, PTL

(* drain_syscalls' pending map holds no leftovers, for any number of       *)
(* threads per process, as long as EVENTS has not overflowed.              *)
THEOREM PendingCorrect == Spec => []PendingIsInFlight
<1>1. IInv => PendingIsInFlight
  <2> SUFFICES ASSUME IInv, ~lost, events = <<>>,
                      NEW k \in Keys, pending[k] # None
               PROVE  \E t \in Threads : /\ <<Tgid[t], nr[t]>> = k
                                         /\ since[t] = pending[k]
                                         /\ pc[t] \in {"inside", "exiting", "gone"}
    BY DEF PendingIsInFlight
  <2>1. \A v : Holds(events, pending, Len(events), k, v) <=> v = pending[k]
    BY DEF Holds
  <2> QED
    BY <2>1 DEF IInv, StartsInFlight, CallKey
<1> QED
  BY <1>1, Invariance, PTL

(* With one thread per process, drain_syscalls measures each Exit record   *)
(* from its own call's entry, or not at all, as long as EVENTS has not     *)
(* overflowed; of a process that can be moved, as long as no other record  *)
(* is missing either.                                                      *)
THEOREM OwnCallCorrect == Spec => []MeasuresOwnCall
<1>1. IInv => MeasuresOwnCall
  <2> SUFFICES ASSUME IInv, OneThreadEach, events # <<>>,
                      Head(events).kind = "Exit", Matched(Head(events).pid)
               PROVE  pending[Key(Head(events))] = Start(Head(events).own)
    BY DEF MeasuresOwnCall, Start
  <2>1. 1 \in 1..Len(events) /\ Head(events) = events[1]
    BY EmptySeq DEF IInv, TypeOK
  <2>2. Holds(events, pending, 0, Key(events[1]), Start(events[1].own))
    BY <2>1 DEF IInv, ExitsFindStart
  <2> QED
    BY <2>1, <2>2 DEF Holds
<1> QED
  BY <1>1, Invariance, PTL

=============================================================================
