------------------------- MODULE SyscallTotalsProofs -------------------------
(***************************************************************************)
(* Theorems about what SyscallTrace accumulates: with one thread per       *)
(* process it implements SyscallLedger, and with any threads the totals    *)
(* are bounded by the time really spent.                                   *)
(***************************************************************************)
EXTENDS SyscallTraceProofs, SumsAndRings

-----------------------------------------------------------------------------
(* The backlog.  Its definition is recursive over the ring; the lemmas say *)
(* what it becomes when a record is output and when one is drained.        *)

Seen(e) == e.kind = "Exit" /\ e.own # 0

Entry(e) == [nr |-> e.nr, ns |-> e.ts - e.own]

Finished == [nr : Sysnos, ns : Int]

(* g[i] is the backlog of the first i records of q.                        *)
Gathers(q, n, g) ==
  g = [i \in 0..n |-> IF i = 0 THEN << >>
                      ELSE IF q[i].kind = "Exit" /\ q[i].own # 0
                           THEN Append(g[i - 1], [nr |-> q[i].nr, ns |-> q[i].ts - q[i].own])
                           ELSE g[i - 1]]

LEMMA GathersStep ==
  ASSUME NEW q, NEW n \in Nat, NEW g, Gathers(q, n, g)
  PROVE  /\ g[0] = << >>
         /\ \A i \in 1..n : g[i] = IF Seen(q[i]) THEN Append(g[i - 1], Entry(q[i])) ELSE g[i - 1]
<1>1. g[0] = << >>
  <2>1. 0 \in 0..n
    OBVIOUS
  <2> QED
    BY <2>1, Zenon DEF Gathers
<1>2. ASSUME NEW i \in 1..n
      PROVE  g[i] = IF Seen(q[i]) THEN Append(g[i - 1], Entry(q[i])) ELSE g[i - 1]
  <2>1. i \in 0..n /\ i # 0
    OBVIOUS
  <2> QED
    BY <2>1, Zenon DEF Gathers, Seen, Entry
<1> QED
  BY <1>1, <1>2

LEMMA GathersUnique ==
  ASSUME NEW q, NEW n \in Nat, NEW g, Gathers(q, n, g),
         NEW p, NEW m \in Nat, NEW h, Gathers(p, m, h),
         NEW k \in Nat, k <= n, k <= m, \A i \in 1..k : q[i] = p[i]
  PROVE  g[k] = h[k]
<1> DEFINE B == {i \in 0..k : g[i] # h[i]}
<1> SUFFICES ASSUME B # {} PROVE FALSE
  OBVIOUS
<1>1. PICK i \in B : \A j \in B : i <= j
  <2>1. B \in SUBSET Nat
    OBVIOUS
  <2> HIDE DEF B
  <2> QED
    BY <2>1, LeastNumber
<1>2. i # 0
  BY <1>1, GathersStep
<1>3. i - 1 \in 0..k /\ i - 1 \notin B /\ i \in 1..k /\ i \in 1..n /\ i \in 1..m
  BY <1>1, <1>2
<1>4. g[i - 1] = h[i - 1] /\ q[i] = p[i]
  BY <1>3
<1>5. g[i] = h[i]
  BY <1>3, <1>4, GathersStep
<1> QED
  BY <1>1, <1>5

LEMMA GathersExists ==
  ASSUME NEW q, NEW n \in Nat
  PROVE  \E g : Gathers(q, n, g)
<1> DEFINE B == {m \in Nat : ~ \E g : Gathers(q, m, g)}
<1> SUFFICES ASSUME B # {} PROVE FALSE
  OBVIOUS
<1>1. PICK m \in B : \A j \in B : m <= j
  <2>1. B \in SUBSET Nat
    OBVIOUS
  <2> HIDE DEF B
  <2> QED
    BY <2>1, LeastNumber
<1>2. CASE m = 0
  <2> DEFINE g == [i \in 0..0 |-> << >>]
  <2>1. Gathers(q, 0, g)
    BY DEF Gathers
  <2> QED
    BY <1>1, <1>2, <2>1
<1>3. CASE m # 0
  <2>1. m \in Nat \ {0} /\ m - 1 \in Nat /\ m - 1 \notin B
    BY <1>1, <1>3
  <2>2. PICK g : Gathers(q, m - 1, g)
    BY <2>1
  <2> DEFINE last == IF Seen(q[m]) THEN Append(g[m - 1], Entry(q[m])) ELSE g[m - 1]
             h == [i \in 0..m |-> IF i = m THEN last ELSE g[i]]
             F(i) == IF i = 0 THEN << >>
                     ELSE IF Seen(q[i]) THEN Append(h[i - 1], Entry(q[i])) ELSE h[i - 1]
  <2>3. h[m] = last /\ \A i \in 0..(m - 1) : h[i] = g[i]
    BY <2>1
  <2>4. DOMAIN h = 0..m /\ h = [i \in 0..m |-> h[i]]
    OBVIOUS
  <2> HIDE DEF h
  <2>5. ASSUME NEW i \in 0..m PROVE h[i] = F(i)
    <3>1. CASE i = 0
      BY <2>1, <2>2, <2>3, <3>1, GathersStep
    <3>2. CASE i # 0 /\ i # m
      <4>1. i \in 1..(m - 1) /\ i \in 0..(m - 1) /\ i - 1 \in 0..(m - 1)
        BY <2>1, <3>2
      <4> QED
        BY <2>1, <2>2, <2>3, <3>2, <4>1, GathersStep
    <3>3. CASE i = m
      <4>1. m - 1 \in 0..(m - 1)
        BY <2>1
      <4> QED
        BY <2>1, <2>3, <3>3, <4>1
    <3> QED
      BY <3>1, <3>2, <3>3
  <2>6. h = [i \in 0..m |-> F(i)]
    BY <2>4, <2>5
  <2>7. Gathers(q, m, h)
    BY <2>6 DEF Gathers, Seen, Entry
  <2> QED
    BY <1>1, <2>7
<1> QED
  BY <1>2, <1>3

LEMMA BacklogIs ==
  ASSUME NEW q, Len(q) \in Nat, NEW g, Gathers(q, Len(q), g)
  PROVE  Backlog(q) = g[Len(q)]
<1> DEFINE h == CHOOSE h : Gathers(q, Len(q), h)
<1>1. Gathers(q, Len(q), h)
  OBVIOUS
<1>2. Backlog(q) = h[Len(q)]
  BY DEF Backlog, Gathers
<1> HIDE DEF h
<1>3. h[Len(q)] = g[Len(q)]
  BY <1>1, GathersUnique
<1> QED
  BY <1>2, <1>3

LEMMA EntryType ==
  ASSUME NEW e \in Record
  PROVE  Entry(e) \in Finished
BY DEF Entry, Finished, Record

LEMMA GathersType ==
  ASSUME NEW q \in Seq(Record), NEW n \in 0..Len(q), NEW g, Gathers(q, n, g)
  PROVE  \A i \in 0..n : g[i] \in Seq(Finished)
<1> DEFINE B == {i \in 0..n : g[i] \notin Seq(Finished)}
<1> SUFFICES ASSUME B # {} PROVE FALSE
  OBVIOUS
<1>1. PICK i \in B : \A j \in B : i <= j
  <2>1. B \in SUBSET Nat
    OBVIOUS
  <2> HIDE DEF B
  <2> QED
    BY <2>1, LeastNumber
<1>0. n \in Nat /\ g[0] \in Seq(Finished)
  <2>1. n \in Nat
    OBVIOUS
  <2>2. g[0] = << >>
    BY <2>1, GathersStep
  <2> QED
    BY <2>1, <2>2, EmptySeq
<1>2. i # 0
  BY <1>0, <1>1
<1>3. i - 1 \in 0..n /\ i - 1 \notin B /\ i \in 1..n
  BY <1>1, <1>2
<1>4. g[i - 1] \in Seq(Finished)
  BY <1>3
<1>5. g[i] = IF Seen(q[i]) THEN Append(g[i - 1], Entry(q[i])) ELSE g[i - 1]
  BY <1>3, GathersStep
<1>6. Entry(q[i]) \in Finished
  <2>1. q[i] \in Record
    BY <1>3, ElementOfSeq
  <2> QED
    BY <2>1, EntryType
<1>7. g[i] \in Seq(Finished)
  BY <1>4, <1>5, <1>6
<1> QED
  BY <1>1, <1>7

LEMMA BacklogAppend ==
  ASSUME NEW q \in Seq(Record), NEW e \in Record
  PROVE  Backlog(Append(q, e)) = IF Seen(e) THEN Append(Backlog(q), Entry(e)) ELSE Backlog(q)
<1> DEFINE n == Len(q)
           qe == Append(q, e)
<1>1. n \in Nat /\ Len(qe) = n + 1 /\ qe[n + 1] = e /\ \A i \in 1..n : qe[i] = q[i]
  OBVIOUS
<1> HIDE DEF qe
<1>2. PICK g : Gathers(q, n, g)
  BY <1>1, GathersExists
<1>3. PICK h : Gathers(qe, n + 1, h)
  BY <1>1, GathersExists
<1>4. h[n] = g[n]
  BY <1>1, <1>2, <1>3, GathersUnique
<1>5. h[n + 1] = IF Seen(e) THEN Append(h[n], Entry(e)) ELSE h[n]
  <2>1. n + 1 \in 1..(n + 1) /\ (n + 1) - 1 = n /\ n + 1 \in Nat
    BY <1>1
  <2> QED
    BY <1>1, <1>3, <2>1, GathersStep
<1>6. Backlog(q) = g[n]
  BY <1>1, <1>2, BacklogIs
<1>7. Backlog(qe) = h[n + 1]
  BY <1>1, <1>3, BacklogIs
<1> QED
  BY <1>4, <1>5, <1>6, <1>7 DEF qe

LEMMA BacklogDrain ==
  ASSUME NEW q \in Seq(Record), q # << >>
  PROVE  Backlog(q) = IF Seen(Head(q)) THEN << Entry(Head(q)) >> \o Backlog(Tail(q))
                                       ELSE Backlog(Tail(q))
<1> DEFINE n == Len(q)
           r == Tail(q)
           first == IF Seen(Head(q)) THEN << Entry(Head(q)) >> ELSE << >>
<1>1. /\ n \in Nat /\ n >= 1 /\ r \in Seq(Record) /\ Len(r) = n - 1 /\ Head(q) = q[1]
      /\ \A i \in 1..(n - 1) : r[i] = q[i + 1]
      /\ Head(q) \in Record
  BY EmptySeq, HeadTailProperties
<1> HIDE DEF r, n
<1>2. PICK g : Gathers(q, n, g)
  BY <1>1, GathersExists
<1>3. PICK h : Gathers(r, n - 1, h)
  <2>1. n - 1 \in Nat
    BY <1>1
  <2> QED
    BY <2>1, GathersExists
<1>4. first \in Seq(Finished)
  BY <1>1, EntryType, EmptySeq
<1>f. first = IF Seen(Head(q)) THEN << Entry(Head(q)) >> ELSE << >>
  OBVIOUS
<1> HIDE DEF first
<1>5. \A i \in 0..(n - 1) : h[i] \in Seq(Finished)
  BY <1>1, <1>3, GathersType
<1> DEFINE B == {i \in 0..(n - 1) : g[i + 1] # first \o h[i]}
<1>6. ASSUME B # {} PROVE FALSE
  <2>1. PICK i \in B : \A j \in B : i <= j
    <3>1. B \in SUBSET Nat
      BY <1>1
    <3> HIDE DEF B
    <3> QED
      BY <1>6, <3>1, LeastNumber
  <2>2. CASE i = 0
    <3>1. g[0] = << >> /\ h[0] = << >> /\ 0 \in 0..(n - 1)
      BY <1>1, <1>2, <1>3, GathersStep
    <3>2. g[1] = IF Seen(q[1]) THEN Append(g[0], Entry(q[1])) ELSE g[0]
      <4>1. 1 \in 1..n /\ 1 - 1 = 0
        BY <1>1
      <4>2. g[1] = IF Seen(q[1]) THEN Append(g[1 - 1], Entry(q[1])) ELSE g[1 - 1]
        BY <1>1, <1>2, <4>1, GathersStep
      <4> QED
        BY <4>1, <4>2
    <3>3. g[1] = first
      BY <1>1, <1>f, <3>1, <3>2
    <3>4. first \o h[0] = first
      BY <1>4, <3>1, ConcatEmptySeq
    <3>5. g[i + 1] = first \o h[i]
      BY <2>2, <3>3, <3>4
    <3> QED
      BY <2>1, <3>5
  <2>3. CASE i # 0
    <3>1. /\ i \in 1..(n - 1) /\ i - 1 \in 0..(n - 1) /\ (i - 1) + 1 = i /\ i - 1 < i
          /\ i + 1 \in 1..n /\ (i + 1) - 1 = i
      <4>1. i \in 0..(n - 1)
        BY <2>1
      <4> QED
        BY <1>1, <2>3, <4>1
    <3>2. g[i] = first \o h[i - 1]
      <4>1. i - 1 \notin B
        <5> HIDE DEF B
        <5> QED
          BY <2>1, <3>1
      <4>2. g[(i - 1) + 1] = first \o h[i - 1]
        BY <3>1, <4>1
      <4> QED
        BY <3>1, <4>2
    <3>3. g[i + 1] = IF Seen(q[i + 1]) THEN Append(g[i], Entry(q[i + 1])) ELSE g[i]
      BY <1>1, <1>2, <3>1, GathersStep
    <3>4. h[i] = IF Seen(r[i]) THEN Append(h[i - 1], Entry(r[i])) ELSE h[i - 1]
      BY <1>1, <1>3, <3>1, GathersStep
    <3>5. r[i] = q[i + 1]
      BY <1>1, <3>1
    <3>6. Entry(q[i + 1]) \in Finished
      <4>1. q[i + 1] \in Record
        BY <3>1, ElementOfSeq DEF n
      <4> QED
        BY <4>1, EntryType
    <3>7. h[i - 1] \in Seq(Finished)
      BY <1>5, <3>1
    <3>8. \A x \in Finished : Append(first \o h[i - 1], x) = first \o Append(h[i - 1], x)
      <4> SUFFICES ASSUME NEW x \in Finished
                   PROVE  Append(first \o h[i - 1], x) = first \o Append(h[i - 1], x)
        OBVIOUS
      <4> DEFINE s == h[i - 1]
      <4>1. first \in Seq(Finished) /\ s \in Seq(Finished) /\ <<x>> \in Seq(Finished)
        BY <1>4, <3>7
      <4> HIDE DEF s
      <4>2. (first \o s) \o <<x>> = first \o (s \o <<x>>)
        BY <4>1, ConcatAssociative
      <4>3. \A z \in Seq(Finished) : Append(z, x) = z \o <<x>>
        OBVIOUS
      <4>4. first \o s \in Seq(Finished)
        BY <4>1, ConcatProperties
      <4> QED
        BY <4>1, <4>2, <4>3, <4>4 DEF s
    <3>9. g[i + 1] = first \o h[i]
      BY <3>2, <3>3, <3>4, <3>5, <3>6, <3>8
    <3> QED
      BY <2>1, <3>9
  <2> QED
    BY <2>2, <2>3
<1>7. g[n] = first \o h[n - 1]
  <2>1. n - 1 \in 0..(n - 1) /\ (n - 1) + 1 = n
    BY <1>1
  <2>3. n - 1 \notin B
    <3> HIDE DEF B
    <3> QED
      BY <1>6
  <2>2. g[(n - 1) + 1] = first \o h[n - 1]
    BY <2>1, <2>3
  <2> QED
    BY <2>1, <2>2
<1>8. Backlog(q) = g[n]
  BY <1>1, <1>2, BacklogIs DEF n
<1>9. Backlog(r) = h[n - 1]
  BY <1>1, <1>3, BacklogIs
<1>10. << >> \o h[n - 1] = h[n - 1]
  <2>1. h[n - 1] \in Seq(Finished)
    BY <1>1, <1>5
  <2> QED
    BY <2>1, ConcatEmptySeq
<1> QED
  BY <1>f, <1>7, <1>8, <1>9, <1>10 DEF r

-----------------------------------------------------------------------------
(* The refinement of SyscallLedger.                                        *)

(* An Exit record does not precede its own call's entry.                   *)
RecordsInOrder ==
  \A i \in 1..Len(events) : events[i].kind = "Exit" => events[i].own <= events[i].ts

LEMMA RecordsInOrderStep == IInv /\ RecordsInOrder /\ [Next]_vars => RecordsInOrder'
<1> SUFFICES ASSUME IInv, RecordsInOrder, [Next]_vars PROVE RecordsInOrder'
  OBVIOUS
<1>t. events \in Seq(Record) /\ Len(events) \in Nat
  BY DEF IInv, TypeOK
<1>1. CASE UNCHANGED events
  BY <1>1 DEF RecordsInOrder
<1>2. ASSUME NEW e \in Record, e.kind = "Exit" => e.own <= e.ts, events' = Append(events, e)
      PROVE  RecordsInOrder'
  <2>1. /\ Len(events') = Len(events) + 1 /\ events'[Len(events) + 1] = e
        /\ \A i \in 1..Len(events) : events'[i] = events[i]
    BY <1>t, <1>2
  <2> QED
    BY <1>t, <1>2, <2>1 DEF RecordsInOrder
<1>3. ASSUME NEW t \in Threads, EmitEnter(t) PROVE RecordsInOrder'
  <2> DEFINE e == [kind |-> "Enter", pid |-> Tgid[t], nr |-> nr[t],
                   ts |-> stamp[t], own |-> since[t]]
  <2>1. e \in Record /\ e.kind # "Exit"
    BY <1>3, RecordType DEF EmitEnter, Moves
  <2>2. events' = events \/ events' = Append(events, e)
    BY <1>3 DEF EmitEnter, Output
  <2> HIDE DEF e
  <2> QED
    BY <1>1, <1>2, <2>1, <2>2
<1>4. ASSUME NEW t \in Threads, EmitExit(t) PROVE RecordsInOrder'
  <2> DEFINE e == [kind |-> "Exit", pid |-> Tgid[t], nr |-> nr[t],
                   ts |-> stamp[t], own |-> since[t]]
  <2>1. e \in Record
    BY <1>4, RecordType DEF EmitExit, Moves
  <2>2. events' = events \/ events' = Append(events, e)
    BY <1>4 DEF EmitExit, Output
  <2>3. e.own <= e.ts
    BY <1>4 DEF IInv, StampsInOrder, EmitExit, Moves
  <2> HIDE DEF e
  <2> QED
    BY <1>1, <1>2, <2>1, <2>2, <2>3
<1>5. ASSUME DrainEnter \/ DrainExit PROVE RecordsInOrder'
  <2>1. /\ Len(events') = Len(events) - 1
        /\ \A i \in 1..Len(events') : events'[i] = events[i + 1]
    BY <1>5, DrainHolds DEF IInv
  <2> QED
    BY <1>t, <2>1 DEF RecordsInOrder
<1>6. ASSUME NEW t \in Threads, NEW n \in Sysnos, SysEnter(t, n) \/ EnterUnseen(t, n)
      PROVE  RecordsInOrder'
  BY <1>1, <1>6 DEF SysEnter, EnterUnseen
<1>7. ASSUME NEW t \in Threads, SysExit(t) \/ ExitUnseen(t) \/ ThreadGone(t)
      PROVE  RecordsInOrder'
  BY <1>1, <1>7 DEF SysExit, ExitUnseen, ThreadGone
<1> QED
  BY <1>1, <1>3, <1>4, <1>5, <1>6, <1>7 DEF Next, ThreadStep, AttachExit, vars

CallOf(t) ==
  IF InCall(t) /\ since[t] # 0
  THEN [nr |-> nr[t], from |-> since[t], to |-> IF pc[t] = "exiting" THEN stamp[t] ELSE None]
  ELSE None

LEMMA CallFacts ==
  ASSUME IInv, NEW t \in Threads
  PROVE  /\ LedgerCall[t] = CallOf(t)
         /\ InCall(t) /\ since[t] # 0 =>
              /\ CallOf(t) # None
              /\ CallOf(t).nr = nr[t] /\ CallOf(t).from = since[t]
              /\ CallOf(t).to = IF pc[t] = "exiting" THEN stamp[t] ELSE None
         /\ ~(InCall(t) /\ since[t] # 0) => CallOf(t) = None
         /\ stamp[t] # None
<1>1. nr[t] \in Sysnos /\ since[t] \in Nat /\ stamp[t] \in Nat
  BY DEF IInv, TypeOK
<1>2. [nr |-> nr[t], from |-> since[t], to |-> IF pc[t] = "exiting" THEN stamp[t] ELSE None]
        \in [nr : Sysnos, from : Nat, to : Nat \cup {None}]
  BY <1>1
<1>3. LedgerCall[t] = CallOf(t)
  BY DEF LedgerCall, CallOf
<1>4. stamp[t] # None
  BY <1>1, SyscallTraceAssumption
<1>5. ASSUME InCall(t) /\ since[t] # 0
      PROVE  /\ CallOf(t) # None
             /\ CallOf(t).nr = nr[t] /\ CallOf(t).from = since[t]
             /\ CallOf(t).to = IF pc[t] = "exiting" THEN stamp[t] ELSE None
  <2>1. CallOf(t) = [nr |-> nr[t], from |-> since[t],
                     to |-> IF pc[t] = "exiting" THEN stamp[t] ELSE None]
    BY <1>5 DEF CallOf
  <2>2. CallOf(t) # None
    BY <1>2, <2>1, SyscallTraceAssumption
  <2> QED
    BY <2>1, <2>2
<1>6. ~(InCall(t) /\ since[t] # 0) => CallOf(t) = None
  BY DEF CallOf
<1> QED
  BY <1>3, <1>4, <1>5, <1>6

(* Only thread t's call changes.                                           *)
LEMMA CallChange ==
  ASSUME NEW t \in Threads, \A u \in Threads : u # t => CallOf(u)' = CallOf(u)
  PROVE  /\ LedgerCall' = [LedgerCall EXCEPT ![t] = CallOf(t)']
         /\ CallOf(t)' = CallOf(t) => LedgerCall' = LedgerCall
<1>1. LedgerCall' = [u \in Threads |-> CallOf(u)']
  BY DEF LedgerCall, CallOf
<1>2. LedgerCall = [u \in Threads |-> CallOf(u)]
  BY DEF LedgerCall, CallOf
<1> HIDE DEF LedgerCall, CallOf
<1> QED
  BY <1>1, <1>2

LEMMA OthersCalls ==
  ASSUME NEW t \in Threads,
         \A u \in Threads : u # t => /\ pc'[u] = pc[u] /\ nr'[u] = nr[u]
                                     /\ since'[u] = since[u] /\ stamp'[u] = stamp[u]
  PROVE  \A u \in Threads : u # t => CallOf(u)' = CallOf(u)
BY DEF CallOf, InCall, matches_target

LEMMA LedgerInit == Init => Ledger!Init
<1> SUFFICES ASSUME Init PROVE Ledger!Init
  OBVIOUS
<1>1. LedgerCall = [t \in Threads |-> None]
  BY DEF Init, LedgerCall
<1>2. Backlog(events) = << >>
  <2>1. Len(events) = 0
    BY DEF Init
  <2>2. PICK g : Gathers(events, 0, g)
    BY GathersExists
  <2>3. g[0] = << >>
    BY <2>2, GathersStep
  <2>4. Backlog(events) = g[0]
    BY <2>1, <2>2, BacklogIs
  <2> QED
    BY <2>3, <2>4
<1> QED
  BY <1>1, <1>2 DEF Init, Ledger!Init

(* The steps of a thread.                                                  *)
LEMMA LedgerThread ==
  ASSUME IInv, ~lost', NEW t \in Threads, ThreadStep(t)
  PROVE  \/ Ledger!Begin(t) \/ Ledger!End(t) \/ Ledger!Retire(t) \/ Ledger!Leave(t)
         \/ UNCHANGED Ledger!vars
<1> DEFINE Goal == \/ Ledger!Begin(t) \/ Ledger!End(t) \/ Ledger!Retire(t) \/ Ledger!Leave(t)
                   \/ UNCHANGED Ledger!vars
<1>t. TypeOK
  BY DEF IInv
<1>f. /\ LedgerCall[t] = CallOf(t)
      /\ InCall(t) /\ since[t] # 0 =>
           /\ CallOf(t) # None
           /\ CallOf(t).nr = nr[t] /\ CallOf(t).from = since[t]
           /\ CallOf(t).to = IF pc[t] = "exiting" THEN stamp[t] ELSE None
      /\ ~(InCall(t) /\ since[t] # 0) => CallOf(t) = None
      /\ stamp[t] # None
  BY CallFacts
<1>s. ASSUME UNCHANGED <<clock, events, stats>>, ~lost, CallOf(t)' = CallOf(t),
             \A u \in Threads : u # t => CallOf(u)' = CallOf(u)
      PROVE  Goal
  <2>1. LedgerCall' = LedgerCall
    BY <1>s, CallChange
  <2>2. UNCHANGED Backlog(events)
    BY <1>s DEF Backlog
  <2> QED
    BY <1>s, <2>1, <2>2 DEF Ledger!vars
<1>1. ASSUME NEW n \in Sysnos, SysEnter(t, n) PROVE Goal
  <2>1. /\ matches_target(t) /\ pc[t] = "user" /\ pc' = [pc EXCEPT ![t] = "entering"]
        /\ clock' = clock + 1 /\ stamp' = [stamp EXCEPT ![t] = clock + 1]
        /\ nr' = [nr EXCEPT ![t] = n] /\ since' = [since EXCEPT ![t] = clock + 1]
        /\ UNCHANGED <<events, stats, lost>>
    BY <1>1 DEF SysEnter, Moves, ReadClock, userVars, losses
  <2>2. LedgerCall[t] = None
    BY <1>f, <2>1 DEF InCall
  <2>3. clock \in Nat
    BY <1>t DEF TypeOK
  <2>4. CallOf(t)' = [nr |-> n, from |-> clock', to |-> None]
    <3>1. pc'[t] = "entering" /\ nr'[t] = n /\ since'[t] = clock' /\ since'[t] # 0
      BY <1>t, <2>1, <2>3 DEF TypeOK
    <3> QED
      BY <2>1, <3>1 DEF CallOf, InCall, matches_target
  <2>5. \A u \in Threads : u # t => CallOf(u)' = CallOf(u)
    BY <1>t, <2>1, OthersCalls DEF TypeOK
  <2>6. LedgerCall' = [LedgerCall EXCEPT ![t] = [nr |-> n, from |-> clock', to |-> None]]
    BY <2>4, <2>5, CallChange
  <2>7. UNCHANGED Backlog(events)
    BY <2>1 DEF Backlog
  <2>8. clock' > clock
    BY <2>1, <2>3
  <2>9. Ledger!Begin(t)
    BY <2>1, <2>2, <2>6, <2>7, <2>8 DEF Ledger!Begin
  <2> QED
    BY <2>9
<1>2. ASSUME EmitEnter(t) PROVE Goal
  <2> DEFINE e == [kind |-> "Enter", pid |-> Tgid[t], nr |-> nr[t],
                   ts |-> stamp[t], own |-> since[t]]
  <2>1. e \in Record /\ ~Seen(e)
    BY <1>2, RecordType DEF EmitEnter, Moves, Seen
  <2>2. /\ events' = Append(events, e) /\ ~lost
        /\ UNCHANGED <<nr, since, stamp, clock, stats>>
        /\ pc[t] = "entering" /\ pc' = [pc EXCEPT ![t] = "inside"]
    BY <1>2 DEF EmitEnter, Output, Moves, userVars, losses
  <2>3. Backlog(events') = Backlog(events)
    BY <1>t, <2>1, <2>2, BacklogAppend DEF TypeOK
  <2>4. \A u \in Threads : CallOf(u)' = CallOf(u)
    <3>1. \A u \in Threads : u # t => CallOf(u)' = CallOf(u)
      BY <1>t, <2>2, OthersCalls DEF TypeOK
    <3>2. pc'[t] = "inside"
      BY <1>t, <2>2 DEF TypeOK
    <3>3. CallOf(t)' = CallOf(t)
      BY <2>2, <3>2 DEF CallOf, InCall, matches_target
    <3> QED
      BY <3>1, <3>3
  <2>5. LedgerCall' = LedgerCall
    BY <2>4, CallChange
  <2>6. Backlog(events)' = Backlog(events)
    BY <2>3 DEF Backlog
  <2>7. UNCHANGED Ledger!vars
    BY <2>2, <2>5, <2>6 DEF Ledger!vars
  <2> QED
    BY <2>7
<1>3. ASSUME SysExit(t) PROVE Goal
  <2>1. /\ nr[t] \notin NoReturn /\ matches_target(t)
        /\ pc[t] = "inside" /\ pc' = [pc EXCEPT ![t] = "exiting"]
        /\ clock' = clock + 1 /\ stamp' = [stamp EXCEPT ![t] = clock + 1]
        /\ UNCHANGED <<nr, since, events, stats, lost>>
    BY <1>3 DEF SysExit, Moves, ReadClock, userVars, losses
  <2>2. pc'[t] = "exiting" /\ stamp'[t] = clock' /\ clock' > clock
    BY <1>t, <2>1 DEF TypeOK
  <2>3. \A u \in Threads : u # t => CallOf(u)' = CallOf(u)
    BY <1>t, <2>1, OthersCalls DEF TypeOK
  <2>4. UNCHANGED Backlog(events)
    BY <2>1 DEF Backlog
  <2>5. CASE since[t] = 0
    <3>1. CallOf(t) = None /\ CallOf(t)' = None
      BY <2>1, <2>5 DEF CallOf
    <3>2. LedgerCall' = LedgerCall
      BY <2>3, <3>1, CallChange
    <3>3. Ledger!End(t)
      BY <1>f, <2>1, <2>2, <2>4, <3>1, <3>2 DEF Ledger!End
    <3> QED
      BY <3>3
  <2>6. CASE since[t] # 0
    <3>1. InCall(t)
      BY <2>1 DEF InCall
    <3>2. CallOf(t) = [nr |-> nr[t], from |-> since[t], to |-> None]
      BY <2>1, <2>6, <3>1 DEF CallOf
    <3>3. CallOf(t)' = [nr |-> nr[t], from |-> since[t], to |-> clock']
      BY <2>1, <2>2, <2>6 DEF CallOf, InCall, matches_target
    <3>4. LedgerCall' = [LedgerCall EXCEPT ![t].to = clock']
      <4>1. LedgerCall' = [LedgerCall EXCEPT ![t] = CallOf(t)']
        BY <2>3, CallChange
      <4>2. CallOf(t)' = [LedgerCall[t] EXCEPT !.to = clock']
        BY <1>f, <3>2, <3>3
      <4> QED
        BY <4>1, <4>2
    <3>5. LedgerCall[t] # None /\ LedgerCall[t].to = None /\ LedgerCall[t].nr \notin NoReturn
      BY <1>f, <2>1, <2>6, <3>1
    <3>6. Ledger!End(t)
      BY <2>1, <2>2, <2>4, <3>4, <3>5 DEF Ledger!End
    <3> QED
      BY <3>6
  <2> QED
    BY <2>5, <2>6
<1>4. ASSUME EmitExit(t) PROVE Goal
  <2> DEFINE e == [kind |-> "Exit", pid |-> Tgid[t], nr |-> nr[t],
                   ts |-> stamp[t], own |-> since[t]]
  <2>1. /\ e \in Record /\ (Seen(e) <=> since[t] # 0)
        /\ Entry(e) = [nr |-> nr[t], ns |-> stamp[t] - since[t]]
    BY <1>4, RecordType DEF EmitExit, Moves, Seen, Entry
  <2>2. /\ events' = Append(events, e) /\ ~lost
        /\ UNCHANGED <<nr, since, stamp, clock, stats>>
        /\ pc[t] = "exiting" /\ pc' = [pc EXCEPT ![t] = "user"]
    BY <1>4 DEF EmitExit, Output, Moves, userVars, losses
  <2>3. Backlog(events)' = IF Seen(e) THEN Append(Backlog(events), Entry(e)) ELSE Backlog(events)
    <3>1. Backlog(events') = IF Seen(e) THEN Append(Backlog(events), Entry(e)) ELSE Backlog(events)
      BY <1>t, <2>1, <2>2, BacklogAppend DEF TypeOK
    <3> QED
      BY <3>1 DEF Backlog
  <2>4. \A u \in Threads : u # t => CallOf(u)' = CallOf(u)
    BY <1>t, <2>2, OthersCalls DEF TypeOK
  <2>5. CallOf(t)' = None
    <3>1. pc'[t] = "user"
      BY <1>t, <2>2 DEF TypeOK
    <3> QED
      BY <3>1 DEF CallOf, InCall
  <2>6. InCall(t)
    BY <1>4 DEF InCall, IInv, HandlersOfTarget, EmitExit, Moves
  <2> HIDE DEF e
  <2>7. CASE since[t] = 0
    <3>1. LedgerCall' = LedgerCall
      BY <1>f, <2>4, <2>5, <2>7, CallChange
    <3>2. UNCHANGED Ledger!vars
      BY <2>1, <2>2, <2>3, <2>7, <3>1 DEF Ledger!vars
    <3> QED
      BY <3>2
  <2>8. CASE since[t] # 0
    <3>1. LedgerCall' = [LedgerCall EXCEPT ![t] = None]
      BY <2>4, <2>5, CallChange
    <3>2. /\ LedgerCall[t] # None /\ LedgerCall[t].nr = nr[t]
          /\ LedgerCall[t].from = since[t] /\ LedgerCall[t].to = stamp[t]
      BY <1>f, <2>2, <2>6, <2>8
    <3>3. Backlog(events)' = Append(Backlog(events),
                                    [nr |-> LedgerCall[t].nr,
                                     ns |-> LedgerCall[t].to - LedgerCall[t].from])
      BY <2>1, <2>3, <2>8, <3>2
    <3>4. Ledger!Retire(t)
      BY <1>f, <2>2, <3>1, <3>2, <3>3 DEF Ledger!Retire
    <3> QED
      BY <3>4
  <2> QED
    BY <2>7, <2>8
<1>5. ASSUME ExitUnseen(t) PROVE Goal
  <2>1. /\ ~lost /\ since[t] = 0
        /\ pc' = [pc EXCEPT ![t] = "user"]
        /\ UNCHANGED <<nr, since, stamp, clock, events, stats>>
    BY <1>5, Zenon DEF ExitUnseen, Moves, userVars
  <2>2. CallOf(t) = None /\ CallOf(t)' = None
    BY <2>1 DEF CallOf
  <2>3. \A u \in Threads : u # t => CallOf(u)' = CallOf(u)
    BY <1>t, <2>1, OthersCalls DEF TypeOK
  <2> QED
    BY <1>s, <2>1, <2>2, <2>3
<1>6. ASSUME ThreadGone(t) PROVE Goal
  <2>1. /\ ~lost /\ nr[t] \in NoReturn
        /\ pc[t] = "inside" /\ pc' = [pc EXCEPT ![t] = "gone"]
        /\ UNCHANGED <<nr, since, stamp, clock, events, stats, lost>>
    BY <1>6 DEF ThreadGone, Moves, userVars, losses
  <2>2. CallOf(t)' = None
    <3>1. pc'[t] = "gone"
      BY <1>t, <2>1 DEF TypeOK
    <3> QED
      BY <3>1 DEF CallOf, InCall
  <2>3. \A u \in Threads : u # t => CallOf(u)' = CallOf(u)
    BY <1>t, <2>1, OthersCalls DEF TypeOK
  <2>4. CASE CallOf(t) = None
    BY <1>s, <2>1, <2>2, <2>3, <2>4
  <2>5. CASE CallOf(t) # None
    <3>1. LedgerCall' = [LedgerCall EXCEPT ![t] = None]
      BY <2>2, <2>3, CallChange
    <3>2. LedgerCall[t] # None /\ LedgerCall[t].nr \in NoReturn
      BY <1>f, <2>1, <2>5
    <3>3. UNCHANGED Backlog(events)
      BY <2>1 DEF Backlog
    <3>4. Ledger!Leave(t)
      BY <2>1, <3>1, <3>2, <3>3 DEF Ledger!Leave
    <3> QED
      BY <3>4
  <2> QED
    BY <2>4, <2>5
<1>7. ASSUME NEW n \in Sysnos, EnterUnseen(t, n) PROVE Goal
  <2>1. /\ ~lost /\ pc[t] = "user" /\ pc' = [pc EXCEPT ![t] = "inside"]
        /\ nr' = [nr EXCEPT ![t] = n] /\ since' = [since EXCEPT ![t] = 0]
        /\ UNCHANGED <<stamp, clock, events, stats>>
    BY <1>7 DEF EnterUnseen, Moves, userVars, losses
  <2>2. CallOf(t) = None /\ CallOf(t)' = None
    <3>1. ~InCall(t) /\ since'[t] = 0
      BY <1>t, <2>1 DEF TypeOK, InCall
    <3> QED
      BY <3>1 DEF CallOf
  <2>3. \A u \in Threads : u # t => CallOf(u)' = CallOf(u)
    BY <1>t, <2>1, OthersCalls DEF TypeOK
  <2> QED
    BY <1>s, <2>1, <2>2, <2>3
<1> QED
  BY <1>1, <1>2, <1>3, <1>4, <1>5, <1>6, <1>7 DEF ThreadStep

LEMMA TalliedStats ==
  ASSUME NEW r \in SyscallStats, NEW ns \in Int
  PROVE  [r EXCEPT !.count = @ + 1, !.total_ns = @ + ns]
           = [count |-> r.count + 1, total_ns |-> r.total_ns + ns]
<1>1. r = [count |-> r.count, total_ns |-> r.total_ns]
  BY DEF SyscallStats
<1>2. ASSUME NEW s, s = [r EXCEPT !.count = @ + 1, !.total_ns = @ + ns]
      PROVE  s = [count |-> r.count + 1, total_ns |-> r.total_ns + ns]
  BY <1>1, <1>2
<1> QED
  BY <1>2

LEMMA TallyIs ==
  ASSUME NEW sums \in [Sysnos -> SyscallStats], NEW n \in Sysnos, NEW ns \in Int
  PROVE  Tally(sums, n, ns) = [sums EXCEPT ![n].count = @ + 1, ![n].total_ns = @ + ns]
<1> DEFINE r == sums[n]
           s == [r EXCEPT !.count = @ + 1, !.total_ns = @ + ns]
<1>1. r \in SyscallStats
  OBVIOUS
<1>2. Tally(sums, n, ns) = [sums EXCEPT ![n] = [count |-> r.count + 1, total_ns |-> r.total_ns + ns]]
  BY Zenon DEF Tally
<1>3. [sums EXCEPT ![n].count = @ + 1, ![n].total_ns = @ + ns] = [sums EXCEPT ![n] = s]
  OBVIOUS
<1>4. s = [count |-> r.count + 1, total_ns |-> r.total_ns + ns]
  BY <1>1, TalliedStats
<1> QED
  BY <1>2, <1>3, <1>4

(* The steps of the drain.                                                 *)
LEMMA LedgerDrain ==
  ASSUME IInv, RecordsInOrder, OneThreadEach, ~lost', DrainEnter \/ DrainExit
  PROVE  Ledger!Report \/ UNCHANGED Ledger!vars
<1> DEFINE e == Head(events)
<1>1. /\ events # << >> /\ events' = Tail(events) /\ ~lost
      /\ UNCHANGED <<pc, nr, since, stamp, clock, lost>>
  BY DEF DrainEnter, DrainExit, kernelVars, losses
<1>2. events \in Seq(Record) /\ e \in Record /\ e = events[1] /\ 1 \in 1..Len(events)
  BY <1>1, HeadTailProperties, EmptySeq DEF IInv, TypeOK
<1>3. Backlog(events) = IF Seen(e) THEN << Entry(e) >> \o Backlog(events)' ELSE Backlog(events)'
  <2>1. Backlog(events) = IF Seen(e) THEN << Entry(e) >> \o Backlog(Tail(events))
                                     ELSE Backlog(Tail(events))
    BY <1>1, <1>2, BacklogDrain
  <2>2. Backlog(events)' = Backlog(Tail(events))
    BY <1>1 DEF Backlog
  <2> QED
    BY <2>1, <2>2
<1>4. LedgerCall' = LedgerCall
  BY <1>1 DEF LedgerCall, InCall, matches_target
<1>5. CASE e.kind = "Enter"
  <2>1. ~Seen(e)
    BY <1>5 DEF Seen
  <2>2. stats' = stats
    BY <1>5 DEF DrainEnter, DrainExit
  <2> QED
    BY <1>1, <1>3, <1>4, <2>1, <2>2 DEF Ledger!vars
<1>6. CASE e.kind = "Exit"
  <2>1. stats' = IF pending[Key(e)] = None THEN stats
                 ELSE Account(e.nr, SatSub(e.ts, pending[Key(e)]))
    BY <1>6 DEF DrainEnter, DrainExit
  <2>2. pending[Key(e)] = Start(e.own)
    <3>1. Holds(events, pending, 1 - 1, Key(events[1]), Start(events[1].own))
      BY <1>1, <1>2, <1>6 DEF IInv, ExitsFindStart, Matched
    <3> QED
      BY <1>2, <3>1 DEF Holds
  <2>3. CASE e.own = 0
    <3>1. stats' = stats
      BY <2>1, <2>2, <2>3 DEF Start
    <3> QED
      BY <1>1, <1>3, <1>4, <2>3, <3>1 DEF Ledger!vars, Seen
  <2>4. CASE e.own # 0
    <3>1. e.own \in Nat /\ e.ts \in Nat /\ e.nr \in Sysnos
      BY <1>2 DEF Record
    <3>2. e.own <= e.ts
      BY <1>2, <1>6 DEF RecordsInOrder
    <3>3. e.own # None
      BY <3>1, SyscallTraceAssumption
    <3>4. stats' = Tally(stats, e.nr, e.ts - e.own)
      BY <2>1, <2>2, <2>4, <3>1, <3>2, <3>3 DEF Start, Account, SatSub
    <3>5. Backlog(events) = << Entry(e) >> \o Backlog(events)'
      BY <1>3, <1>6, <2>4 DEF Seen
    <3> DEFINE b == Backlog(events)'
               c == Entry(e)
    <3>6. b \in Seq(Finished) /\ c \in Finished
      <4>1. events' \in Seq(Record) /\ Len(events') \in Nat
        BY <1>1, <1>2, HeadTailProperties
      <4>2. PICK g : Gathers(events', Len(events'), g)
        BY <4>1, GathersExists
      <4>3. Backlog(events') = g[Len(events')]
        BY <4>1, <4>2, BacklogIs
      <4>4. Len(events') \in 0..Len(events')
        BY <4>1
      <4>5. g[Len(events')] \in Seq(Finished)
        BY <4>1, <4>2, <4>4, GathersType
      <4>6. Backlog(events)' = Backlog(events')
        BY DEF Backlog
      <4> QED
        BY <1>2, <4>3, <4>5, <4>6, EntryType
    <3>7. c.nr = e.nr /\ c.ns = e.ts - e.own
      BY DEF Entry
    <3> HIDE DEF b, c
    <3>8. << c >> \o b # << >> /\ Head(<< c >> \o b) = c /\ Tail(<< c >> \o b) = b
      <4>1. << c >> \in Seq(Finished) /\ Len(<< c >>) = 1
        BY <3>6
      <4>2. /\ << c >> \o b \in Seq(Finished)
            /\ Len(<< c >> \o b) = 1 + Len(b)
            /\ \A i \in 1..(1 + Len(b)) : (<< c >> \o b)[i] = IF i <= 1 THEN << c >>[i] ELSE b[i - 1]
        BY <3>6, <4>1, ConcatProperties
      <4>3. Len(b) \in Nat
        BY <3>6
      <4>4. << c >> \o b # << >>
        BY <4>2, <4>3
      <4> DEFINE s == << c >> \o b
      <4>5. /\ Head(s) = s[1] /\ Tail(s) \in Seq(Finished) /\ Len(Tail(s)) = Len(s) - 1
            /\ \A i \in 1..Len(Tail(s)) : Tail(s)[i] = s[i + 1]
        <5>1. s \in Seq(Finished) /\ s # << >>
          BY <4>2, <4>4
        <5> HIDE DEF s
        <5> QED
          BY <5>1, HeadTailProperties
      <4>6. s[1] = c
        BY <4>2, <4>3
      <4>7. \A i \in 1..Len(b) : s[i + 1] = b[i]
        BY <4>2, <4>3
      <4>8. Len(s) = 1 + Len(b)
        BY <4>2
      <4> HIDE DEF s
      <4>9. Len(Tail(s)) = Len(b) /\ \A i \in 1..Len(Tail(s)) : Tail(s)[i] = b[i]
        BY <4>3, <4>5, <4>7, <4>8
      <4>10. Tail(s) = b
        BY <3>6, <4>5, <4>9, SeqEqual
      <4> QED
        BY <4>4, <4>5, <4>6, <4>10 DEF s
    <3>9. stats \in [Sysnos -> SyscallStats]
      BY DEF IInv, TypeOK
    <3>10. stats' = [stats EXCEPT ![c.nr].count = @ + 1, ![c.nr].total_ns = @ + c.ns]
      <4>1. e.ts - e.own \in Int
        BY <3>1
      <4>2. stats' = [stats EXCEPT ![e.nr].count = @ + 1, ![e.nr].total_ns = @ + (e.ts - e.own)]
        BY <3>1, <3>4, <3>9, <4>1, TallyIs
      <4> QED
        BY <3>7, <4>2
    <3>11. Ledger!Report
      BY <1>1, <1>4, <3>5, <3>8, <3>10 DEF Ledger!Report, b, c
    <3> QED
      BY <3>11
  <2> QED
    BY <2>3, <2>4
<1> QED
  BY <1>2, <1>5, <1>6 DEF Record

LEMMA LedgerStep ==
  IInv /\ RecordsInOrder /\ OneThreadEach /\ [Next]_vars => [Ledger!Next]_(Ledger!vars)
<1> SUFFICES ASSUME IInv, RecordsInOrder, OneThreadEach, [Next]_vars
             PROVE  Ledger!Next \/ UNCHANGED Ledger!vars
  OBVIOUS
<1>1. CASE lost'
  BY <1>1 DEF Ledger!Next
<1>2. CASE ~lost'
  <2>1. ~lost
    BY <1>2, LossStep
  <2>2. CASE UNCHANGED vars
    BY <2>2 DEF vars, kernelVars, userVars, losses, Ledger!vars, LedgerCall, Backlog, InCall, matches_target
  <2>3. CASE AttachExit
    BY <2>3 DEF AttachExit, kernelVars, userVars, losses, Ledger!vars, LedgerCall, Backlog, InCall,
                matches_target
  <2>4. CASE ~lost /\ \E t \in Threads : ThreadStep(t)
    BY <1>2, <2>4, LedgerThread DEF Ledger!Next
  <2>5. CASE ~lost /\ (DrainEnter \/ DrainExit)
    BY <1>2, <2>5, LedgerDrain DEF Ledger!Next
  <2> QED
    BY <2>1, <2>2, <2>3, <2>4, <2>5 DEF Next
<1> QED
  BY <1>1, <1>2

(* With one thread per process, the panel is the ledger: drain_syscalls    *)
(* reports every call that completes, once, in order and with its own      *)
(* duration, for as long as EVENTS has not overflowed and no call that was *)
(* seen to begin returned unseen.                                          *)
THEOREM LedgerCorrect == ASSUME OneThreadEach PROVE Spec => LedgerSpec
<1>1. Init => RecordsInOrder
  BY DEF Init, RecordsInOrder
<1>2. Spec => []RecordsInOrder
  <2>1. IInv /\ RecordsInOrder /\ [Next]_vars => RecordsInOrder'
    BY RecordsInOrderStep
  <2> QED
    BY <1>1, <2>1, Invariance, PTL DEF Spec
<1>3. IInv /\ RecordsInOrder /\ [Next]_vars => [Ledger!Next]_(Ledger!vars)
  BY LedgerStep
<1>4. Spec => Ledger!Spec
  BY <1>2, <1>3, LedgerInit, Invariance, PTL DEF Spec, Ledger!Spec
<1> QED
  BY <1>4 DEF LedgerSpec

-----------------------------------------------------------------------------
(* What the records in the ring will make of pending and StatsMap.         *)

Tables == [Keys -> Nat \cup {None}] \X [Sysnos -> SyscallStats]

After(p, s, e) ==
  <<[p EXCEPT ![Key(e)] = Effect(e)],
    IF e.kind = "Enter" \/ p[Key(e)] = None THEN s
    ELSE Tally(s, e.nr, SatSub(e.ts, p[Key(e)]))>>

DrainStep == {x \in Tables \X Record \X Tables : x[3] = After(x[1][1], x[1][2], x[2])}

(* Once the ring is drained, pending and StatsMap will be p and s.         *)
Ahead(p, s) == LeadsTo(DrainStep, events, <<pending, stats>>, <<p, s>>)

LEMMA AfterType ==
  ASSUME NEW p \in [Keys -> Nat \cup {None}], NEW s \in [Sysnos -> SyscallStats],
         NEW e \in Record
  PROVE  /\ After(p, s, e) \in Tables
         /\ <<<<p, s>>, e, After(p, s, e)>> \in DrainStep
         /\ Key(e) \in Keys
<1>1. Key(e) \in Keys /\ e.ts \in Nat /\ e.nr \in Sysnos
  BY DEF Key, Keys, Record
<1>2. Effect(e) \in Nat \cup {None}
  BY <1>1 DEF Effect
<1>3. ASSUME p[Key(e)] # None PROVE Tally(s, e.nr, SatSub(e.ts, p[Key(e)])) \in [Sysnos -> SyscallStats]
  <2>1. SatSub(e.ts, p[Key(e)]) \in Nat
    BY <1>1, <1>3 DEF SatSub
  <2> QED
    BY <1>1, <2>1, TallyType
<1>4. After(p, s, e) \in Tables
  <2>1. [p EXCEPT ![Key(e)] = Effect(e)] \in [Keys -> Nat \cup {None}]
    BY <1>2
  <2>2. (IF e.kind = "Enter" \/ p[Key(e)] = None THEN s
         ELSE Tally(s, e.nr, SatSub(e.ts, p[Key(e)]))) \in [Sysnos -> SyscallStats]
    BY <1>3
  <2> QED
    BY <2>1, <2>2 DEF After, Tables
<1>5. <<p, s>> \in Tables
  BY DEF Tables
<1>6. <<<<p, s>>, e, After(p, s, e)>> \in Tables \X Record \X Tables
  BY <1>4, <1>5
<1> QED
  BY <1>1, <1>4, <1>6 DEF DrainStep

(* An output extends the prediction by the effect of its record; one that  *)
(* fails leaves it as it is.                                               *)
LEMMA OutputAhead ==
  ASSUME TypeOK, NEW t \in Threads, NEW kind, Output(kind, t),
         UNCHANGED <<pending, stats>>,
         NEW p \in [Keys -> Nat \cup {None}], NEW s \in [Sysnos -> SyscallStats],
         Ahead(p, s),
         [kind |-> kind, pid |-> Tgid[t], nr |-> nr[t],
          ts |-> stamp[t], own |-> since[t]] \in Record
  PROVE  LET e == [kind |-> kind, pid |-> Tgid[t], nr |-> nr[t],
                   ts |-> stamp[t], own |-> since[t]]
         IN  \/ Ahead(p, s)' /\ lost'
             \/ /\ \E p2, s2 : <<p2, s2>> = After(p, s, e) /\ Ahead(p2, s2)'
                /\ lost' = lost
<1> DEFINE e == [kind |-> kind, pid |-> Tgid[t], nr |-> nr[t],
                 ts |-> stamp[t], own |-> since[t]]
           Goal == \/ Ahead(p, s)' /\ lost'
                   \/ /\ \E p2, s2 : <<p2, s2>> = After(p, s, e) /\ Ahead(p2, s2)'
                      /\ lost' = lost
<1>1. e \in Record /\ events \in Seq(Record)
  BY DEF TypeOK
<1>2. \/ events' = events /\ lost'
      \/ events' = Append(events, e) /\ lost' = lost
  BY DEF Output, losses
<1> HIDE DEF e
<1>3. ASSUME events' = events, lost' PROVE Goal
  BY <1>3 DEF Ahead
<1>4. ASSUME events' = Append(events, e), lost' = lost PROVE Goal
  <2>1. <<<<p, s>>, e, After(p, s, e)>> \in DrainStep
    BY <1>1, AfterType
  <2>2. LeadsTo(DrainStep, Append(events, e), <<pending, stats>>, After(p, s, e))
    BY <1>1, <2>1, LeadsToAppend DEF Ahead
  <2>3. PICK p2, s2 : <<p2, s2>> = After(p, s, e)
    BY DEF After
  <2>4. Ahead(p2, s2)'
    BY <1>4, <2>2, <2>3 DEF Ahead
  <2> QED
    BY <1>4, <2>3, <2>4
<1> QED
  BY <1>2, <1>3, <1>4 DEF e

(* A drain makes the first of the changes that were predicted.             *)
LEMMA DrainAhead ==
  ASSUME TypeOK, DrainEnter \/ DrainExit, NEW p, NEW s, Ahead(p, s)
  PROVE  Ahead(p, s)'
<1> DEFINE e == Head(events)
<1>1. events \in Seq(Record) /\ events # << >> /\ events' = Tail(events)
  BY DEF TypeOK, DrainEnter, DrainExit
<1>2. <<pending', stats'>> = After(pending, stats, e)
  <2>1. CASE DrainEnter
    BY <2>1 DEF DrainEnter, Remember, After, Effect
  <2>2. CASE DrainExit
    <3>1. e.kind = "Exit"
      BY <2>2 DEF DrainExit
    <3>2. Effect(e) = None
      BY <3>1 DEF Effect
    <3> QED
      BY <2>2, <3>1, <3>2 DEF DrainExit, After, Forget, Account
  <2> QED
    BY <2>1, <2>2
<1>3. PICK u : /\ <<<<pending, stats>>, e, u>> \in DrainStep
               /\ LeadsTo(DrainStep, Tail(events), u, <<p, s>>)
  BY <1>1, LeadsToDrain DEF Ahead
<1>4. u = After(pending, stats, e)
  BY <1>3 DEF DrainStep
<1> QED
  BY <1>1, <1>2, <1>3, <1>4 DEF Ahead

(* StatsMap only grows.                                                    *)
LEMMA AheadGrows ==
  ASSUME TypeOK, NEW p, NEW s, Ahead(p, s)
  PROVE  /\ p \in [Keys -> Nat \cup {None}] /\ s \in [Sysnos -> SyscallStats]
         /\ \A n \in Sysnos : stats[n].total_ns <= s[n].total_ns
<1> DEFINE Order == {x \in Tables \X Tables :
                       \A n \in Sysnos : x[1][2][n].total_ns <= x[2][2][n].total_ns}
<1>1. ASSUME NEW x \in Tables
      PROVE  /\ x[1] \in [Keys -> Nat \cup {None}] /\ x[2] \in [Sysnos -> SyscallStats]
             /\ x = <<x[1], x[2]>>
             /\ \A n \in Sysnos : x[2][n].total_ns \in Nat
  <2>1. x[2] \in [Sysnos -> SyscallStats]
    BY DEF Tables
  <2>2. \A n \in Sysnos : x[2][n].total_ns \in Nat
    BY <2>1 DEF SyscallStats
  <2> QED
    BY <2>1, <2>2 DEF Tables
<1>2. \A a \in Tables : <<a, a>> \in Order
  BY <1>1
<1>3. \A a, b, c \in Tables : <<a, b>> \in Order /\ <<b, c>> \in Order => <<a, c>> \in Order
  <2> SUFFICES ASSUME NEW a \in Tables, NEW b \in Tables, NEW c \in Tables,
                      <<a, b>> \in Order, <<b, c>> \in Order
               PROVE  \A n \in Sysnos : a[2][n].total_ns <= c[2][n].total_ns
    OBVIOUS
  <2>1. \A n \in Sysnos : a[2][n].total_ns <= b[2][n].total_ns /\ b[2][n].total_ns <= c[2][n].total_ns
    OBVIOUS
  <2> HIDE DEF Order
  <2> QED
    BY <1>1, <2>1
<1>4. ASSUME NEW a \in Tables, NEW b \in Tables, NEW e \in Record, <<a, e, b>> \in DrainStep
      PROVE  <<a, b>> \in Order
  <2>1. b = After(a[1], a[2], e)
    BY <1>4 DEF DrainStep
  <2>2. /\ a[1] \in [Keys -> Nat \cup {None}] /\ a[2] \in [Sysnos -> SyscallStats]
        /\ Key(e) \in Keys /\ e.ts \in Nat /\ e.nr \in Sysnos
    BY <1>1 DEF Key, Keys, Record
  <2>3. CASE e.kind = "Enter" \/ a[1][Key(e)] = None
    <3>1. b[2] = a[2]
      BY <2>1, <2>3 DEF After
    <3> QED
      BY <1>1, <3>1
  <2>4. CASE ~(e.kind = "Enter" \/ a[1][Key(e)] = None)
    <3> DEFINE d == SatSub(e.ts, a[1][Key(e)])
    <3>1. d \in Nat
      BY <2>2, <2>4 DEF SatSub
    <3>2. b[2] = Tally(a[2], e.nr, d)
      BY <2>1, <2>4 DEF After
    <3> HIDE DEF d
    <3>3. \A n \in Sysnos : a[2][n].total_ns <= b[2][n].total_ns
      <4> SUFFICES ASSUME NEW n \in Sysnos PROVE a[2][n].total_ns <= b[2][n].total_ns
        OBVIOUS
      <4>1. a[2][n].total_ns \in Nat
        BY <1>1
      <4>2. b[2][n].total_ns = IF n = e.nr THEN a[2][n].total_ns + d ELSE a[2][n].total_ns
        BY <2>2, <3>2 DEF Tally
      <4> QED
        BY <3>1, <4>1, <4>2
    <3> QED
      BY <3>3
  <2> QED
    BY <2>3, <2>4
<1>5. /\ events \in Seq(Record) /\ DrainStep \in SUBSET (Tables \X Record \X Tables)
      /\ <<pending, stats>> \in Tables
      /\ LeadsTo(DrainStep, events, <<pending, stats>>, <<p, s>>)
  BY DEF TypeOK, DrainStep, Tables, Ahead
<1>6. <<p, s>> \in Tables /\ <<<<pending, stats>>, <<p, s>>>> \in Order
  <2> DEFINE x == <<pending, stats>>
             y == <<p, s>>
  <2>1. x \in Tables /\ LeadsTo(DrainStep, events, x, y)
    BY <1>5
  <2>2. \A a, b \in Tables : \A e \in Record : <<a, e, b>> \in DrainStep => <<a, b>> \in Order
    BY <1>4
  <2>3. Climbs(DrainStep, Tables, Record, Order)
    <3> HIDE DEF Order
    <3> QED
      BY <1>2, <1>3, <1>5, <2>2 DEF Climbs
  <2>4. y \in Tables /\ <<x, y>> \in Order
    <3> HIDE DEF Order, x, y
    <3> QED
      BY <1>5, <2>1, <2>3, LeadsToGrows
  <2> QED
    BY <2>4 DEF x, y
<1> QED
  BY <1>6 DEF Tables

(* A step that touches neither side.                                       *)
LEMMA SameAhead ==
  ASSUME UNCHANGED <<events, pending, stats>>, NEW p, NEW s, Ahead(p, s)
  PROVE  Ahead(p, s)'
BY DEF Ahead


-----------------------------------------------------------------------------
(* TimeNeverOverstated.                                                    *)

(* A handler's stamp is a time that was read, and sys_exit only runs when  *)
(* it is attached, for a call that returns.                                *)
HandlersLate ==
  \A t \in Threads :
    /\ stamp[t] <= clock
    /\ pc[t] = "exiting" => attached /\ nr[t] \notin NoReturn

LEMMA HandlersLateStep == IInv /\ HandlersLate /\ [Next]_vars => HandlersLate'
<1> SUFFICES ASSUME IInv, HandlersLate, [Next]_vars PROVE HandlersLate'
  OBVIOUS
<1>1. /\ pc \in [Threads -> Phases] /\ stamp \in [Threads -> Nat] /\ clock \in Nat
      /\ nr \in [Threads -> Sysnos]
  BY DEF IInv, TypeOK
<1>2. ASSUME NEW t \in Threads, ThreadStep(t) PROVE HandlersLate'
  <2>1. /\ clock <= clock' /\ clock' \in Nat /\ attached' = attached
        /\ \A u \in Threads : stamp'[u] = stamp[u] \/ stamp'[u] = clock'
    BY <1>1, <1>2 DEF ThreadStep, SysEnter, EmitEnter, SysExit, EmitExit, ExitUnseen, ThreadGone,
                      EnterUnseen, ReadClock, kernelVars, userVars
  <2>2. ASSUME NEW u \in Threads PROVE stamp'[u] <= clock'
    BY <1>1, <2>1 DEF HandlersLate
  <2>3. ASSUME NEW u \in Threads, pc'[u] = "exiting" PROVE attached' /\ nr'[u] \notin NoReturn
    BY <1>1, <1>2, <2>1, <2>3
       DEF ThreadStep, SysEnter, EmitEnter, SysExit, EmitExit, ExitUnseen, ThreadGone,
           EnterUnseen, Moves, HandlersLate
  <2> QED
    BY <2>2, <2>3 DEF HandlersLate
<1>3. CASE AttachExit \/ DrainEnter \/ DrainExit \/ UNCHANGED vars
  BY <1>3 DEF HandlersLate, AttachExit, DrainEnter, DrainExit, vars, kernelVars
<1> QED
  BY <1>2, <1>3 DEF Next

(* The threads that are inside a call whose Enter record is in the ring or *)
(* drained, and the last time at which such a call may still end.          *)
Running(t) == matches_target(t) /\ pc[t] \in {"inside", "exiting"}

Latest(t) == IF pc[t] = "exiting" THEN stamp[t] ELSE clock

(* If the time up to used[t] of each call in flight is already reported,   *)
(* these are the calls' shares of what is reported for number n.           *)
Share(used, n) ==
  [t \in Threads |-> IF Running(t) /\ nr[t] = n THEN used[t] - since[t] ELSE 0]

(* Some thread of the process is still inside the call, is reported up to  *)
(* the start that is pending, and may take over what another thread of it  *)
(* has had reported.                                                       *)
Backed(used, k, from) ==
  \E a \in Threads :
    /\ Running(a) /\ CallKey(a) = k /\ used[a] = from
    /\ \A t \in Threads : Running(t) /\ CallKey(t) = k => used[t] <= Latest(a)

(* What will be reported once the ring is drained is time that completed   *)
(* calls have taken, and calls in flight have taken up to used.            *)
Covered(p, s, used) ==
  /\ used \in [Threads -> Nat]
  /\ \A n \in Sysnos : s[n].total_ns <= done[n].total_ns + SumFunction(Share(used, n))
  /\ \A t \in Threads : Running(t) => used[t] <= Latest(t)
  /\ \A t \in Threads : Running(t) /\ (nr[t] \in NoReturn \/ ~attached) => used[t] = since[t]
  /\ \A k \in Keys : p[k] # None =>
       p[k] > 0 /\ (k[2] \notin NoReturn => Backed(used, k, p[k]))

Accounted ==
  ~lost /\ Movable = {} => \E p, s, used : Ahead(p, s) /\ Covered(p, s, used)

LEMMA ShareType ==
  ASSUME IInv, NEW used \in [Threads -> Nat], NEW n
  PROVE  Share(used, n) \in [Threads -> Int] /\ SumFunction(Share(used, n)) \in Int
<1>1. since \in [Threads -> Nat]
  BY DEF IInv, TypeOK
<1>2. Share(used, n) \in [Threads -> Int]
  BY <1>1 DEF Share
<1> QED
  BY <1>2, SumType, SyscallTraceAssumption

(* A step that outputs no record: calls may begin, go on, or end unseen    *)
(* with nothing reported of them.                                          *)
LEMMA CoveredKept ==
  ASSUME IInv, NEW p, NEW s, NEW used, Covered(p, s, used),
         p \in [Keys -> Nat \cup {None}], s \in [Sysnos -> SyscallStats],
         done \in [Sysnos -> SyscallStats], done' \in [Sysnos -> SyscallStats],
         \A n \in Sysnos : done[n].total_ns <= done'[n].total_ns,
         attached => attached',
         \A t \in Threads : Running(t)' =>
           /\ Running(t) /\ nr'[t] = nr[t] /\ since'[t] = since[t]
           /\ Latest(t) \in Nat /\ Latest(t)' \in Nat /\ Latest(t) <= Latest(t)',
         \A t \in Threads : Running(t) /\ ~Running(t)' =>
           used[t] = since[t] /\ (nr[t] \in NoReturn \/ since[t] = 0)
  PROVE  Covered(p, s, used)'
<1>t. /\ since \in [Threads -> Nat] /\ nr \in [Threads -> Sysnos]
      /\ used \in [Threads -> Nat]
  BY DEF IInv, TypeOK, Covered
<1>1. ASSUME NEW n \in Sysnos
      PROVE  s[n].total_ns <= done'[n].total_ns + SumFunction(Share(used, n))'
  <2>1. ASSUME NEW t \in Threads
        PROVE  (IF Running(t)' /\ nr'[t] = n THEN used[t] - since'[t] ELSE 0)
                 = (IF Running(t) /\ nr[t] = n THEN used[t] - since[t] ELSE 0)
    BY <1>t
  <2>2. Share(used, n)' = Share(used, n)
    BY <2>1, Zenon DEF Share
  <2>3. SumFunction(Share(used, n))' = SumFunction(Share(used, n))
    BY <2>2
  <2>4. /\ s[n].total_ns \in Nat /\ done[n].total_ns \in Nat /\ done'[n].total_ns \in Nat
        /\ SumFunction(Share(used, n)) \in Int
    BY <1>t, ShareType DEF SyscallStats
  <2>5. s[n].total_ns <= done[n].total_ns + SumFunction(Share(used, n))
    BY DEF Covered
  <2> QED
    BY <2>3, <2>4, <2>5
<1>2. ASSUME NEW t \in Threads, Running(t)' PROVE used[t] <= Latest(t)'
  BY <1>t, <1>2 DEF Covered
<1>3. ASSUME NEW t \in Threads, Running(t)', nr'[t] \in NoReturn \/ ~attached'
      PROVE  used[t] = since'[t]
  BY <1>3 DEF Covered
<1>4. ASSUME NEW k \in Keys, p[k] # None
      PROVE  p[k] > 0 /\ (k[2] \notin NoReturn => Backed(used, k, p[k])')
  <2>1. p[k] > 0
    BY <1>4 DEF Covered
  <2>2. ASSUME k[2] \notin NoReturn PROVE Backed(used, k, p[k])'
    <3>1. PICK a \in Threads :
            /\ Running(a) /\ CallKey(a) = k /\ used[a] = p[k]
            /\ \A t \in Threads : Running(t) /\ CallKey(t) = k => used[t] <= Latest(a)
      BY <1>4, <2>2 DEF Covered, Backed
    <3>2. nr[a] \notin NoReturn
      BY <2>2, <3>1 DEF CallKey
    <3>3. Running(a)'
      <4> SUFFICES ASSUME ~Running(a)' PROVE FALSE
        OBVIOUS
      <4>1. used[a] = 0
        BY <3>1, <3>2
      <4> QED
        BY <2>1, <3>1, <4>1
    <3>4. \A t \in Threads : Running(t)' => CallKey(t)' = CallKey(t)
      BY DEF CallKey
    <3>5. ASSUME NEW t \in Threads, Running(t)', CallKey(t)' = k PROVE used[t] <= Latest(a)'
      <4>1. used[t] <= Latest(a)
        BY <3>1, <3>4, <3>5
      <4>2. used[t] \in Nat /\ Latest(a) \in Nat /\ Latest(a)' \in Nat /\ Latest(a) <= Latest(a)'
        BY <1>t, <3>3
      <4> HIDE DEF Latest
      <4> QED
        BY <4>1, <4>2
    <3> QED
      BY <3>1, <3>3, <3>4, <3>5 DEF Backed
  <2> QED
    BY <2>1, <2>2
<1> QED
  BY <1>t, <1>1, <1>2, <1>3, <1>4 DEF Covered


(* sys_enter's record: its own start becomes the pending one.              *)
LEMMA CoveredEnter ==
  ASSUME IInv, HandlersLate, ~lost', NEW t \in Threads, EmitEnter(t),
         NEW p, NEW s, NEW used, Ahead(p, s), Covered(p, s, used)
  PROVE  \E p2, s2, used2 : Ahead(p2, s2)' /\ Covered(p2, s2, used2)'
<1>t. /\ since \in [Threads -> Nat] /\ nr \in [Threads -> Sysnos] /\ stamp \in [Threads -> Nat]
      /\ clock \in Nat /\ pc \in [Threads -> Phases]
      /\ used \in [Threads -> Nat]
      /\ p \in [Keys -> Nat \cup {None}] /\ s \in [Sysnos -> SyscallStats]
      /\ done \in [Sysnos -> SyscallStats]
  BY AheadGrows DEF IInv, TypeOK, Covered
<1>1. /\ pc[t] = "entering" /\ pc' = [pc EXCEPT ![t] = "inside"]
      /\ UNCHANGED <<nr, since, stamp, clock, pending, stats, attached, done>>
      /\ Output("Enter", t)
  BY DEF EmitEnter, Moves, userVars
<1>2. /\ matches_target(t) /\ stamp[t] = since[t] /\ since[t] > 0
  BY <1>1 DEF IInv, StampsInOrder, HandlersOfTarget
<1> DEFINE e == [kind |-> "Enter", pid |-> Tgid[t], nr |-> nr[t],
                 ts |-> stamp[t], own |-> since[t]]
<1>3. /\ e \in Record /\ Key(e) = CallKey(t) /\ e.kind = "Enter" /\ Effect(e) = since[t]
      /\ CallKey(t) \in Keys
  <2>1. e \in Record
    BY <1>1, RecordType
  <2> QED
    BY <1>2, <2>1, SyscallTraceAssumption, <1>t DEF Key, CallKey, Effect, Keys, matches_target
<1>4. PICK p2, s2 : <<p2, s2>> = After(p, s, e) /\ Ahead(p2, s2)'
  <2>1. TypeOK /\ UNCHANGED <<pending, stats>>
    BY <1>1 DEF IInv
  <2> QED
    BY <1>1, <1>3, <1>t, <2>1, OutputAhead
<1>5. p2 = [p EXCEPT ![CallKey(t)] = since[t]] /\ s2 = s
  BY <1>3, <1>4 DEF After
<1> HIDE DEF e
<1>6. PICK used2 : used2 = [used EXCEPT ![t] = since[t]]
  OBVIOUS
<1>7. /\ used2 \in [Threads -> Nat] /\ used2[t] = since[t]
      /\ \A u \in Threads : u # t => used2[u] = used[u]
  BY <1>6, <1>t
<1>8. /\ ~Running(t) /\ Running(t)' /\ Latest(t)' = clock
      /\ \A u \in Threads : u # t => (Running(u)' <=> Running(u)) /\ Latest(u)' = Latest(u)
      /\ \A u \in Threads : CallKey(u)' = CallKey(u)
  BY <1>1, <1>2, <1>t DEF Running, Latest, matches_target, CallKey
<1>9. \A u \in Threads : /\ Running(u)' => used2[u] <= Latest(u)'
                         /\ Latest(u) \in Nat /\ Latest(u) <= clock /\ since[u] <= clock
  <2>1. \A u \in Threads : Latest(u) \in Nat /\ Latest(u) <= clock /\ since[u] <= clock
    BY <1>t DEF Latest, HandlersLate, IInv, StampsInOrder
  <2>2. since[t] <= Latest(t)'
    BY <1>8, <2>1
  <2>3. ASSUME NEW u \in Threads, u # t, Running(u)' PROVE used2[u] <= Latest(u)'
    BY <1>7, <1>8, <2>3 DEF Covered
  <2> QED
    BY <1>7, <2>1, <2>2, <2>3
<1>10. ASSUME NEW n \in Sysnos
       PROVE  s2[n].total_ns <= done'[n].total_ns + SumFunction(Share(used2, n))'
  <2>1. ASSUME NEW u \in Threads
        PROVE  (IF Running(u)' /\ nr'[u] = n THEN used2[u] - since'[u] ELSE 0)
                 = (IF Running(u) /\ nr[u] = n THEN used[u] - since[u] ELSE 0)
    <3>1. CASE u = t
      BY <1>1, <1>7, <1>8, <1>t, <3>1
    <3>2. CASE u # t
      BY <1>1, <1>7, <1>8, <3>2
    <3> QED
      BY <3>1, <3>2
  <2>2. Share(used2, n)' = Share(used, n)
    BY <2>1, Zenon DEF Share
  <2>3. SumFunction(Share(used2, n))' = SumFunction(Share(used, n))
    BY <2>2
  <2> QED
    BY <1>1, <1>5, <2>3 DEF Covered
<1>11. ASSUME NEW u \in Threads, Running(u)', nr'[u] \in NoReturn \/ ~attached'
       PROVE  used2[u] = since'[u]
  BY <1>1, <1>7, <1>8, <1>11 DEF Covered
<1>12. ASSUME NEW k \in Keys, p2[k] # None
       PROVE  p2[k] > 0 /\ (k[2] \notin NoReturn => Backed(used2, k, p2[k])')
  <2>1. CASE k = CallKey(t)
    <3>1. p2[k] = since[t]
      BY <1>5, <1>t, <2>1
    <3>2. \A u \in Threads : Running(u)' => used2[u] <= Latest(t)'
      <4>1. \A u \in Threads : Running(u)' => used2[u] <= Latest(u)'
        BY <1>9
      <4>2. \A u \in Threads : Latest(u)' <= clock /\ Latest(u)' \in Nat
        BY <1>8, <1>9, <1>t
      <4> HIDE DEF Latest
      <4> QED
        BY <1>7, <1>8, <1>t, <4>1, <4>2
    <3> QED
      BY <1>2, <1>7, <1>8, <2>1, <3>1, <3>2 DEF Backed
  <2>2. CASE k # CallKey(t)
    <3>1. p2[k] = p[k]
      BY <1>5, <2>2
    <3>2. p[k] > 0 /\ (k[2] \notin NoReturn => Backed(used, k, p[k]))
      BY <1>12, <3>1 DEF Covered
    <3>3. ASSUME k[2] \notin NoReturn PROVE Backed(used2, k, p[k])'
      <4>1. PICK a \in Threads :
              /\ Running(a) /\ CallKey(a) = k /\ used[a] = p[k]
              /\ \A u \in Threads : Running(u) /\ CallKey(u) = k => used[u] <= Latest(a)
        BY <3>2, <3>3 DEF Backed
      <4>2. a # t
        BY <2>2, <4>1
      <4>3. \A u \in Threads : Running(u)' /\ CallKey(u)' = k => used2[u] <= Latest(a)'
        BY <1>7, <1>8, <2>2, <4>1, <4>2
      <4> QED
        BY <1>7, <1>8, <4>1, <4>2, <4>3 DEF Backed
    <3> QED
      BY <3>1, <3>2, <3>3
  <2> QED
    BY <2>1, <2>2
<1>13. Covered(p2, s2, used2)'
  BY <1>7, <1>9, <1>10, <1>11, <1>12 DEF Covered
<1> QED
  BY <1>4, <1>13


(* sys_exit's record: what it will have reported is time of its own call,  *)
(* or the backing thread takes over what was reported of it.               *)
LEMMA CoveredExit ==
  ASSUME IInv, HandlersLate, ~lost', NEW b \in Threads, EmitExit(b),
         NEW p, NEW s, NEW used, Ahead(p, s), Covered(p, s, used)
  PROVE  \E p2, s2, used2 : Ahead(p2, s2)' /\ Covered(p2, s2, used2)'
<1> DEFINE k == CallKey(b)
           n == nr[b]
           from == p[k]
           measured == IF from = None THEN 0 ELSE SatSub(stamp[b], from)
<1>t. /\ since \in [Threads -> Nat] /\ nr \in [Threads -> Sysnos] /\ stamp \in [Threads -> Nat]
      /\ clock \in Nat /\ pc \in [Threads -> Phases]
      /\ used \in [Threads -> Nat]
      /\ p \in [Keys -> Nat \cup {None}] /\ s \in [Sysnos -> SyscallStats]
      /\ done \in [Sysnos -> SyscallStats]
  BY AheadGrows DEF IInv, TypeOK, Covered
<1>1. /\ pc[b] = "exiting" /\ pc' = [pc EXCEPT ![b] = "user"]
      /\ UNCHANGED <<nr, since, stamp, clock, pending, stats, attached>>
      /\ Output("Exit", b)
      /\ done' = Tally(done, n, stamp[b] - since[b])
  BY DEF EmitExit, Moves, userVars
<1>2. /\ matches_target(b) /\ since[b] <= stamp[b] /\ n \notin NoReturn /\ attached /\ n \in Sysnos
  BY <1>1, <1>t DEF IInv, StampsInOrder, HandlersOfTarget, HandlersLate
<1> DEFINE e == [kind |-> "Exit", pid |-> Tgid[b], nr |-> nr[b],
                 ts |-> stamp[b], own |-> since[b]]
<1>3. /\ e \in Record /\ Key(e) = k /\ e.kind = "Exit" /\ Effect(e) = None
      /\ e.ts = stamp[b] /\ e.nr = n /\ k \in Keys /\ k[2] = n
  <2>1. e \in Record
    BY <1>1, RecordType
  <2> QED
    BY <1>2, <2>1, SyscallTraceAssumption, <1>t DEF Key, CallKey, Effect, Keys, matches_target
<1>4. PICK p2, s2 : <<p2, s2>> = After(p, s, e) /\ Ahead(p2, s2)'
  <2>1. TypeOK /\ UNCHANGED <<pending, stats>>
    BY <1>1 DEF IInv
  <2> QED
    BY <1>1, <1>3, <1>t, <2>1, OutputAhead
<1>5. /\ p2 = [p EXCEPT ![k] = None]
      /\ s2 = IF from = None THEN s ELSE Tally(s, n, SatSub(stamp[b], from))
  BY <1>3, <1>4 DEF After
<1> HIDE DEF e, k
<1>6. /\ from \in Nat \cup {None} /\ measured \in Nat
      /\ \A m \in Sysnos : s2[m].total_ns = s[m].total_ns + IF m = n THEN measured ELSE 0
  <2>1. from \in Nat \cup {None}
    BY <1>3, <1>t
  <2>2. measured \in Nat
    BY <1>t, <2>1 DEF SatSub
  <2>3. ASSUME NEW m \in Sysnos
        PROVE  s2[m].total_ns = s[m].total_ns + IF m = n THEN measured ELSE 0
    <3>1. s[m].total_ns \in Nat
      BY <1>t DEF SyscallStats
    <3>2. CASE from = None
      BY <1>5, <3>1, <3>2
    <3>3. CASE from # None
      <4>1. s2[m].total_ns = IF m = n THEN s[m].total_ns + SatSub(stamp[b], from) ELSE s[m].total_ns
        BY <1>2, <1>5, <1>t, <3>3 DEF Tally
      <4> QED
        BY <2>2, <3>1, <3>3, <4>1
    <3> QED
      BY <3>2, <3>3
  <2> QED
    BY <2>1, <2>2, <2>3
<1>7. \A m \in Sysnos :
        /\ done'[m].total_ns = done[m].total_ns + IF m = n THEN stamp[b] - since[b] ELSE 0
        /\ done[m].total_ns \in Nat /\ s[m].total_ns \in Nat
  BY <1>1, <1>2, <1>t DEF Tally, SyscallStats
<1> HIDE DEF from, measured
<1>8. /\ Running(b) /\ ~Running(b)' /\ Latest(b) = stamp[b] /\ used[b] <= stamp[b]
      /\ \A u \in Threads : u # b => (Running(u)' <=> Running(u)) /\ Latest(u)' = Latest(u)
      /\ \A u \in Threads : CallKey(u)' = CallKey(u)
      /\ \A u \in Threads : CallKey(u) = k => nr[u] = n
      /\ \A u \in Threads : Latest(u) \in Nat
  BY <1>1, <1>2, <1>t DEF Running, Latest, matches_target, CallKey, Covered, k
<1>9. \E used2 \in [Threads -> Nat] :
        /\ \A u \in Threads : /\ Running(u) => used2[u] <= Latest(u)
                              /\ CallKey(u) # k => used2[u] = used[u]
        /\ s2[n].total_ns <= done'[n].total_ns + SumFunction(Share(used2, n))'
  <2> DEFINE Total == SumFunction(Share(used, n))
             g == [Share(used, n) EXCEPT ![b] = 0]
  <2>1. /\ Share(used, n) \in [Threads -> Int] /\ Total \in Int
        /\ Share(used, n)[b] = used[b] - since[b]
        /\ g \in [Threads -> Int] /\ g[b] = 0
        /\ \A u \in Threads : u # b => g[u] = Share(used, n)[u]
    <3>1. Share(used, n)[b] = used[b] - since[b]
      BY <1>8 DEF Share
    <3>2. Share(used, n) \in [Threads -> Int] /\ Total \in Int
      BY <1>t, ShareType
    <3> QED
      BY <3>1, <3>2
  <2>2. SumFunction(g) = Total - (used[b] - since[b])
    <3> HIDE DEF g
    <3>1. SumFunction(g) = SumFunction(Share(used, n)) + (g[b] - Share(used, n)[b])
      BY <2>1, SumUpdate, SyscallTraceAssumption
    <3> QED
      BY <1>t, <2>1, <3>1
  <2>3. s[n].total_ns <= done[n].total_ns + Total
    BY <1>2 DEF Covered
  <2>4. ASSUME NEW used2 \in [Threads -> Nat], NEW c \in Threads,
               \A u \in Threads : u # b /\ u # c => used2[u] = used[u]
        PROVE  /\ \A u \in Threads : u # c => Share(used2, n)'[u] = g[u]
               /\ Share(used2, n)' \in [Threads -> Int]
               /\ c = b => Share(used2, n)' = g
               /\ c # b /\ Running(c) /\ CallKey(c) = k =>
                    Share(used2, n)'[c] = used2[c] - since[c] /\ g[c] = used[c] - since[c]
    <3>0. /\ Share(used2, n)' = [u \in Threads |->
               IF Running(u)' /\ nr[u] = n THEN used2[u] - since[u] ELSE 0]
          /\ g = [u \in Threads |-> IF u = b THEN 0
                    ELSE IF Running(u) /\ nr[u] = n THEN used[u] - since[u] ELSE 0]
      BY <1>1 DEF Share
    <3> HIDE DEF g
    <3>1. Share(used2, n)' \in [Threads -> Int]
      BY <1>t, <3>0
    <3>2. ASSUME NEW u \in Threads, u # c PROVE Share(used2, n)'[u] = g[u]
      BY <1>8, <2>4, <3>0, <3>2
    <3>3. ASSUME c = b PROVE Share(used2, n)' = g
      <4>1. Share(used2, n)'[b] = g[b]
        BY <1>8, <3>0
      <4>2. \A u \in Threads : Share(used2, n)'[u] = g[u]
        BY <3>2, <3>3, <4>1
      <4> QED
        BY <2>1, <3>1, <4>2
    <3>4. ASSUME c # b, Running(c), CallKey(c) = k
          PROVE  Share(used2, n)'[c] = used2[c] - since[c] /\ g[c] = used[c] - since[c]
      BY <1>8, <3>0, <3>4
    <3> QED
      BY <3>1, <3>2, <3>3, <3>4
  <2>5. ASSUME measured <= stamp[b] - used[b]
        PROVE  /\ \A u \in Threads : Running(u) => used[u] <= Latest(u)
               /\ s2[n].total_ns <= done'[n].total_ns + SumFunction(Share(used, n))'
    <3>1. Share(used, n)' = g
      BY <1>t, <2>4
    <3>2. SumFunction(Share(used, n))' = Total - (used[b] - since[b])
      BY <2>2, <3>1
    <3>3. s2[n].total_ns = s[n].total_ns + measured
      BY <1>2, <1>6
    <3>4. done'[n].total_ns = done[n].total_ns + (stamp[b] - since[b])
      BY <1>2, <1>7
    <3>5. s[n].total_ns \in Nat /\ done[n].total_ns \in Nat
      BY <1>2, <1>7
    <3> HIDE DEF Total, g, n
    <3>6. s2[n].total_ns <= done'[n].total_ns + SumFunction(Share(used, n))'
      BY <1>6, <1>t, <2>1, <2>3, <2>5, <3>2, <3>3, <3>4, <3>5
    <3> QED
      BY <3>6 DEF Covered
  <2>6. CASE from = None \/ (from \in Nat /\ stamp[b] < from)
    <3>1. measured = 0
      BY <1>t, <2>6, SyscallTraceAssumption DEF measured, SatSub
    <3>2. measured <= stamp[b] - used[b]
      BY <1>8, <1>t, <3>1
    <3> QED
      BY <1>t, <2>5, <3>2
  <2>7. CASE from \in Nat /\ from <= stamp[b]
    <3>1. from # None /\ measured = stamp[b] - from
      BY <1>t, <2>7, SyscallTraceAssumption DEF measured, SatSub
    <3>2. PICK a \in Threads :
            /\ Running(a) /\ CallKey(a) = k /\ used[a] = from
            /\ \A t \in Threads : Running(t) /\ CallKey(t) = k => used[t] <= Latest(a)
      BY <1>2, <1>3, <3>1 DEF Covered, Backed, from
    <3>3. CASE a = b
      <4>1. measured <= stamp[b] - used[b]
        BY <1>t, <2>7, <3>1, <3>2, <3>3
      <4> QED
        BY <1>t, <2>5, <4>1
    <3>4. CASE a # b
      <4> DEFINE used2 == [used EXCEPT ![a] = used[b]]
      <4>1. /\ used2 \in [Threads -> Nat] /\ used2[a] = used[b]
            /\ \A u \in Threads : u # a => used2[u] = used[u]
        BY <1>t
      <4> HIDE DEF used2
      <4>2. \A u \in Threads : /\ Running(u) => used2[u] <= Latest(u)
                               /\ CallKey(u) # k => used2[u] = used[u]
        <5>1. used[b] <= Latest(a)
          BY <1>8, <3>2 DEF k
        <5> QED
          BY <3>2, <4>1, <5>1 DEF Covered
      <4> DEFINE h == Share(used2, n)'
      <4>3. /\ \A u \in Threads : u # a => h[u] = g[u]
            /\ h \in [Threads -> Int]
            /\ h[a] = used[b] - since[a] /\ g[a] = from - since[a]
        BY <2>4, <3>2, <3>4, <4>1
      <4> HIDE DEF h, g
      <4>4. SumFunction(h) = SumFunction(g) + (h[a] - g[a])
        BY <2>1, <4>3, SumUpdate, SyscallTraceAssumption
      <4>5. SumFunction(h) = Total - (used[b] - since[b]) + (used[b] - from)
        <5> HIDE DEF Total
        <5> QED
          BY <1>t, <2>1, <2>2, <2>7, <4>3, <4>4
      <4>6. s2[n].total_ns = s[n].total_ns + measured
        BY <1>2, <1>6
      <4>7. done'[n].total_ns = done[n].total_ns + (stamp[b] - since[b])
        BY <1>2, <1>7
      <4>8. s[n].total_ns \in Nat /\ done[n].total_ns \in Nat
        BY <1>2, <1>7
      <4>9. s2[n].total_ns <= done'[n].total_ns + SumFunction(h)
        <5> HIDE DEF Total, n
        <5> QED
          BY <1>6, <1>t, <2>1, <2>3, <2>7, <3>1, <4>5, <4>6, <4>7, <4>8
      <4>10. s2[n].total_ns <= done'[n].total_ns + SumFunction(Share(used2, n))'
        BY <4>9 DEF h
      <4> QED
        BY <4>1, <4>2, <4>10
    <3> QED
      BY <3>3, <3>4
  <2> QED
    BY <1>6, <1>t, <2>6, <2>7
<1>10. PICK used2 \in [Threads -> Nat] :
         /\ \A u \in Threads : /\ Running(u) => used2[u] <= Latest(u)
                               /\ CallKey(u) # k => used2[u] = used[u]
         /\ s2[n].total_ns <= done'[n].total_ns + SumFunction(Share(used2, n))'
  BY <1>9
<1>11. ASSUME NEW m \in Sysnos
       PROVE  s2[m].total_ns <= done'[m].total_ns + SumFunction(Share(used2, m))'
  <2>1. CASE m = n
    <3>1. Share(used2, n)' = Share(used2, m)'
      BY <1>1, <2>1
    <3> QED
      BY <1>10, <2>1, <3>1
  <2>2. CASE m # n
    <3>1. ASSUME NEW u \in Threads
          PROVE  (IF Running(u)' /\ nr'[u] = m THEN used2[u] - since'[u] ELSE 0)
                   = (IF Running(u) /\ nr[u] = m THEN used[u] - since[u] ELSE 0)
      <4>1. CASE nr[u] = m
        <5>1. u # b /\ CallKey(u) # k
          BY <1>8, <2>2, <4>1
        <5> QED
          BY <1>1, <1>8, <1>10, <5>1
      <4>2. CASE nr[u] # m
        BY <1>1, <4>2
      <4> QED
        BY <4>1, <4>2
    <3>2. Share(used2, m)' = Share(used, m)
      BY <3>1, Zenon DEF Share
    <3>3. SumFunction(Share(used2, m))' = SumFunction(Share(used, m))
      BY <3>2
    <3>4. s2[m].total_ns = s[m].total_ns /\ done'[m].total_ns = done[m].total_ns
      BY <1>6, <1>7, <2>2
    <3> QED
      BY <3>3, <3>4 DEF Covered
  <2> QED
    BY <2>1, <2>2
<1>12. ASSUME NEW u \in Threads, Running(u)'
       PROVE  /\ used2[u] <= Latest(u)'
              /\ nr'[u] \in NoReturn \/ ~attached' => used2[u] = since'[u]
  <2>1. u # b /\ Running(u) /\ Latest(u)' = Latest(u)
    BY <1>8, <1>12
  <2>2. used2[u] <= Latest(u)'
    BY <1>10, <2>1
  <2>3. ASSUME nr[u] \in NoReturn PROVE used2[u] = since[u]
    <3>1. CallKey(u) # k
      BY <1>2, <1>8, <2>3
    <3> QED
      BY <1>10, <2>1, <2>3, <3>1 DEF Covered
  <2> QED
    BY <1>1, <1>2, <2>2, <2>3
<1>13. ASSUME NEW j \in Keys, p2[j] # None
       PROVE  p2[j] > 0 /\ (j[2] \notin NoReturn => Backed(used2, j, p2[j])')
  <2>1. j # k /\ p2[j] = p[j]
    BY <1>3, <1>5, <1>13, <1>t
  <2>2. p[j] > 0 /\ (j[2] \notin NoReturn => Backed(used, j, p[j]))
    BY <1>13, <2>1 DEF Covered
  <2>3. ASSUME j[2] \notin NoReturn PROVE Backed(used2, j, p[j])'
    <3>1. PICK a \in Threads :
            /\ Running(a) /\ CallKey(a) = j /\ used[a] = p[j]
            /\ \A u \in Threads : Running(u) /\ CallKey(u) = j => used[u] <= Latest(a)
      BY <2>2, <2>3 DEF Backed
    <3>2. a # b
      BY <2>1, <3>1 DEF k
    <3>3. \A u \in Threads : Running(u)' /\ CallKey(u)' = j => used2[u] <= Latest(a)'
      BY <1>8, <1>10, <2>1, <3>1, <3>2
    <3>4. Running(a)' /\ CallKey(a)' = j /\ used2[a] = p[j]
      BY <1>8, <1>10, <2>1, <3>1, <3>2
    <3> QED
      BY <3>3, <3>4 DEF Backed
  <2> QED
    BY <2>1, <2>2, <2>3
<1>14. Covered(p2, s2, used2)'
  BY <1>10, <1>11, <1>12, <1>13 DEF Covered
<1> QED
  BY <1>4, <1>14


LEMMA AccountedInit == Init => HandlersLate /\ Accounted
<1> SUFFICES ASSUME Init PROVE HandlersLate /\ Accounted
  OBVIOUS
<1>t. IInv /\ TypeOK
  BY InitIInv DEF IInv
<1>1. HandlersLate
  BY DEF Init, HandlersLate
<1>2. Ahead(pending, stats)
  BY LeadsToEmpty DEF Init, Ahead
<1>3. PICK used : used = [t \in Threads |-> 0]
  OBVIOUS
<1>4. /\ used \in [Threads -> Nat] /\ \A t \in Threads : used[t] = 0 /\ since[t] = 0
      /\ \A t \in Threads : Latest(t) = 0
  BY <1>3 DEF Init, Latest
<1>5. ASSUME NEW n \in Sysnos
      PROVE  stats[n].total_ns <= done[n].total_ns + SumFunction(Share(used, n))
  <2>1. Share(used, n) \in [Threads -> Nat]
    BY <1>4 DEF Share
  <2>2. SumFunction(Share(used, n)) \in Nat
    BY <2>1, SumType, SyscallTraceAssumption
  <2> QED
    BY <2>2 DEF Init
<1>6. Covered(pending, stats, used)
  BY <1>4, <1>5 DEF Covered, Init
<1> QED
  BY <1>1, <1>2, <1>6 DEF Accounted

(* A step that outputs no record keeps what will be reported covered.      *)
LEMMA CoveredQuiet ==
  ASSUME IInv, HandlersLate, [Next]_vars, ~lost', Movable = {},
         \A t \in Threads : ~EmitEnter(t) /\ ~EmitExit(t),
         NEW p, NEW s, NEW used, Ahead(p, s), Covered(p, s, used)
  PROVE  Ahead(p, s)' /\ Covered(p, s, used)'
<1>t. /\ TypeOK /\ TypeOK'
      /\ p \in [Keys -> Nat \cup {None}] /\ s \in [Sysnos -> SyscallStats]
  BY AheadGrows, TypeStep DEF IInv
<1>v. /\ pc \in [Threads -> Phases] /\ nr \in [Threads -> Sysnos]
      /\ since \in [Threads -> Nat] /\ stamp \in [Threads -> Nat] /\ clock \in Nat
      /\ done \in [Sysnos -> SyscallStats] /\ done' \in [Sysnos -> SyscallStats]
      /\ pc' \in [Threads -> Phases] /\ clock' \in Nat /\ stamp' \in [Threads -> Nat]
  BY <1>t DEF TypeOK
<1> DEFINE Goal == Ahead(p, s)' /\ Covered(p, s, used)'
<1>1. ASSUME UNCHANGED <<pc, nr, since, stamp, clock, done>>, attached => attached', Ahead(p, s)'
      PROVE  Goal
  <2>1. \A t \in Threads : /\ (Running(t)' <=> Running(t)) /\ Latest(t)' = Latest(t)
                           /\ Latest(t) \in Nat
    BY <1>1, <1>v DEF Running, Latest, matches_target
  <2>2. \A n \in Sysnos : done[n].total_ns <= done'[n].total_ns
    BY <1>1, <1>v DEF SyscallStats
  <2>3. \A t \in Threads : Running(t)' => Latest(t) <= Latest(t)'
    BY <2>1
  <2>4. Covered(p, s, used)'
    BY <1>1, <1>t, <1>v, <2>1, <2>2, <2>3, CoveredKept
  <2> QED
    BY <1>1, <2>4
<1>2. CASE UNCHANGED vars
  <2>1. Ahead(p, s)'
    BY <1>2, SameAhead DEF vars, userVars
  <2> QED
    BY <1>1, <1>2, <2>1 DEF vars, kernelVars
<1>3. CASE AttachExit
  <2>1. Ahead(p, s)'
    BY <1>3, SameAhead DEF AttachExit, userVars
  <2> QED
    BY <1>1, <1>3, <2>1 DEF AttachExit, kernelVars
<1>4. CASE DrainEnter \/ DrainExit
  <2>1. Ahead(p, s)'
    BY <1>4, <1>t, DrainAhead
  <2> QED
    BY <1>1, <1>4, <2>1 DEF DrainEnter, DrainExit, kernelVars
<1>5. ASSUME NEW t \in Threads,
             \/ \E n \in Sysnos : SysEnter(t, n) \/ EnterUnseen(t, n)
             \/ SysExit(t) \/ ExitUnseen(t) \/ ThreadGone(t)
      PROVE  Goal
  <2>1. UNCHANGED <<events, pending, stats, attached>>
    BY <1>5 DEF SysEnter, EnterUnseen, SysExit, ExitUnseen, ThreadGone, userVars
  <2>2. Ahead(p, s)'
    BY <2>1, SameAhead
  <2>3. \A n \in Sysnos : done[n].total_ns <= done'[n].total_ns
    <3>1. UNCHANGED done
      BY <1>5 DEF SysEnter, EnterUnseen, SysExit, ExitUnseen, ThreadGone
    <3> QED
      BY <1>v, <3>1 DEF SyscallStats
  <2>4. ASSUME NEW u \in Threads, Running(u)'
        PROVE  /\ Running(u) /\ nr'[u] = nr[u] /\ since'[u] = since[u]
               /\ Latest(u) \in Nat /\ Latest(u)' \in Nat /\ Latest(u) <= Latest(u)'
    <3>1. u # t => /\ pc'[u] = pc[u] /\ nr'[u] = nr[u] /\ since'[u] = since[u]
                   /\ stamp'[u] = stamp[u]
      BY <1>5, <1>v DEF SysEnter, EnterUnseen, SysExit, ExitUnseen, ThreadGone, Moves, ReadClock
    <3>2. clock <= clock'
      BY <1>5, <1>v DEF SysEnter, EnterUnseen, SysExit, ExitUnseen, ThreadGone, ReadClock
    <3>3. CASE u # t
      BY <1>v, <2>4, <3>1, <3>2, <3>3 DEF Running, Latest, matches_target
    <3>4. CASE u = t
      <4>1. SysExit(t)
        BY <1>5, <1>v, <2>4, <3>4 DEF SysEnter, EnterUnseen, ExitUnseen, ThreadGone, Moves,
                                      Running, matches_target, turned_away
      <4> QED
        BY <1>v, <2>4, <3>4, <4>1 DEF SysExit, Moves, ReadClock, Running, Latest, matches_target
    <3> QED
      BY <3>3, <3>4
  <2>5. ASSUME NEW u \in Threads, Running(u), ~Running(u)'
        PROVE  used[u] = since[u] /\ (nr[u] \in NoReturn \/ since[u] = 0)
    <3>1. u = t /\ (ExitUnseen(t) \/ ThreadGone(t))
      BY <1>5, <1>v, <2>5 DEF SysEnter, EnterUnseen, SysExit, ExitUnseen, ThreadGone, Moves,
                              Running, matches_target
    <3>2. nr[u] \in NoReturn \/ (~attached /\ since[u] = 0)
      BY <2>5, <3>1, Zenon DEF ExitUnseen, ThreadGone, Running, matches_target, turned_away
    <3> QED
      BY <2>5, <3>2 DEF Covered
  <2>6. Covered(p, s, used)'
    BY <1>t, <1>v, <2>1, <2>3, <2>4, <2>5, CoveredKept
  <2> QED
    BY <2>2, <2>6
<1> QED
  BY <1>2, <1>3, <1>4, <1>5 DEF Next, ThreadStep

LEMMA AccountedStep == IInv /\ HandlersLate /\ Accounted /\ [Next]_vars => Accounted'
<1> SUFFICES ASSUME IInv, HandlersLate, Accounted, [Next]_vars, ~lost', Movable = {}
             PROVE  \E p, s, used : Ahead(p, s)' /\ Covered(p, s, used)'
  BY DEF Accounted
<1>1. ~lost
  BY LossStep
<1>2. PICK p, s, used : Ahead(p, s) /\ Covered(p, s, used)
  BY <1>1 DEF Accounted
<1>3. CASE \E t \in Threads : EmitEnter(t)
  BY <1>2, <1>3, CoveredEnter
<1>4. CASE \E t \in Threads : EmitExit(t)
  BY <1>2, <1>4, CoveredExit
<1>5. CASE \A t \in Threads : ~EmitEnter(t) /\ ~EmitExit(t)
  BY <1>2, <1>5, CoveredQuiet
<1> QED
  BY <1>3, <1>4, <1>5

(* However threads interleave, and although pending keeps one start for    *)
(* all threads of a process, drain_syscalls never reports more time for a  *)
(* call than threads have spent in it, as long as no record was dropped,   *)
(* no process is moved and no call returned before sys_exit was attached.  *)
THEOREM TotalsCorrect == Spec => []TimeNeverOverstated
<1>1. Spec => [](IInv /\ HandlersLate /\ Accounted)
  <2>1. IInv /\ HandlersLate /\ Accounted /\ [Next]_vars => (HandlersLate /\ Accounted)'
    BY HandlersLateStep, AccountedStep
  <2>2. Init => HandlersLate /\ Accounted
    BY AccountedInit
  <2> QED
    BY <2>1, <2>2, Invariance, PTL DEF Spec
<1>2. IInv /\ HandlersLate /\ Accounted => TimeNeverOverstated
  <2> SUFFICES ASSUME IInv, HandlersLate, Accounted, ~lost, Movable = {}, NEW n \in Sysnos
               PROVE  stats[n].total_ns <= done[n].total_ns + TimeInFlight(n)
    BY DEF TimeNeverOverstated
  <2>1. PICK p, s, used : Ahead(p, s) /\ Covered(p, s, used)
    BY DEF Accounted
  <2>2. stats[n].total_ns <= s[n].total_ns /\ s[n].total_ns \in Nat
    BY <2>1, AheadGrows DEF IInv, SyscallStats
  <2>3. s[n].total_ns <= done[n].total_ns + SumFunction(Share(used, n))
    BY <2>1 DEF Covered
  <2> DEFINE f == [t \in Threads |-> IF InCall(t) /\ nr[t] = n THEN clock - since[t] ELSE 0]
  <2>t. /\ since \in [Threads -> Nat] /\ clock \in Nat /\ stamp \in [Threads -> Nat]
        /\ used \in [Threads -> Nat]
        /\ stats[n].total_ns \in Nat /\ done[n].total_ns \in Nat
    BY <2>1 DEF IInv, TypeOK, SyscallStats, Covered
  <2>4. f \in [Threads -> Int] /\ SumFunction(f) \in Int
    <3>1. f \in [Threads -> Int]
      BY <2>t
    <3> HIDE DEF f
    <3> QED
      BY <3>1, SumType, SyscallTraceAssumption
  <2>5. /\ Share(used, n) \in [Threads -> Int] /\ SumFunction(Share(used, n)) \in Int
    BY <2>t, ShareType
  <2>6. ASSUME NEW t \in Threads PROVE Share(used, n)[t] <= f[t]
    <3>1. since[t] <= clock /\ Latest(t) <= clock /\ Latest(t) \in Nat
      BY <2>t DEF IInv, StampsInOrder, HandlersLate, Latest
    <3>2. CASE Running(t) /\ nr[t] = n
      <4>1. InCall(t)
        BY <3>2 DEF Running, InCall
      <4>2. Share(used, n)[t] = used[t] - since[t] /\ f[t] = clock - since[t]
        BY <3>2, <4>1 DEF Share
      <4>3. used[t] <= Latest(t)
        BY <2>1, <3>2 DEF Covered
      <4> HIDE DEF f, Latest
      <4> QED
        BY <2>t, <3>1, <4>2, <4>3
    <3>3. CASE ~(Running(t) /\ nr[t] = n)
      BY <2>t, <3>1, <3>3 DEF Share
    <3> QED
      BY <3>2, <3>3
  <2>7. SumFunction(Share(used, n)) <= SumFunction(f)
    <3> HIDE DEF f
    <3> QED
      BY <2>4, <2>5, <2>6, SumMonotone, SyscallTraceAssumption
  <2>8. TimeInFlight(n) = SumFunction(f)
    BY DEF TimeInFlight
  <2> HIDE DEF f
  <2> QED
    BY <2>2, <2>3, <2>t, <2>4, <2>5, <2>7, <2>8
<1> QED
  BY <1>1, <1>2, PTL


-----------------------------------------------------------------------------
(* WallClockBound.                                                         *)

Traced == {t \in Threads : matches_target(t)}

(* Thread a is not charged for that time in a call of number n, and has no *)
(* Enter record of an earlier start yet to output.                         *)
Free(charged, time, n, a) ==
  /\ <<time, a>> \notin charged[n]
  /\ ~(pc[a] = "entering" /\ nr[a] = n /\ since[a] < time)

(* A span that covers that time can still be charged to the process of k.  *)
Room(charged, k, time) ==
  \/ \A u \in Traced : Tgid[u] = k[1] => <<time, u>> \notin charged[k[2]]
  \/ \E a \in Traced : Tgid[a] = k[1] /\ Free(charged, time, k[2], a)

(* Each unit of time that will be reported for number n is charged to a    *)
(* traced thread, to none twice, and every pending start leaves room for   *)
(* the span it begins.                                                     *)
Spread(p, s, charged) ==
  /\ charged \in [Sysnos -> SUBSET ((1..clock) \X Traced)]
  /\ \A n \in Sysnos : s[n].total_ns <= Cardinality(charged[n])
  /\ \A t \in Threads : pc[t] = "entering" =>
       \A time \in Nat : since[t] < time => <<time, t>> \notin charged[nr[t]]
  /\ \A k \in Keys : p[k] # None =>
       \A time \in (p[k] + 1)..clock : Room(charged, k, time)

Apportioned == \E p, s, charged : Ahead(p, s) /\ Spread(p, s, charged)

(* A span's units, from after q up to r, each with the thread it goes to.  *)
Span(A, q, r) == {<<time, A[time]>> : time \in (q + 1)..r}

Unused(C, A, q, r) == \A time \in (q + 1)..r : <<time, A[time]>> \notin C

(* Charging a span: one more for each of its units.                        *)
LEMMA SpanCardinality ==
  ASSUME NEW C, IsFiniteSet(C), NEW q \in Nat, NEW r \in Nat, q <= r,
         NEW A, Unused(C, A, q, r)
  PROVE  Cardinality(C \cup Span(A, q, r)) = Cardinality(C) + (r - q)
<1> DEFINE D == (q + 1)..r
           N == Span(A, q, r)
           f == [time \in D |-> <<time, A[time]>>]
<1>1. IsFiniteSet(D) /\ Cardinality(D) = r - q
  <2>1. q + 1 \in Int /\ r \in Int
    OBVIOUS
  <2>2. /\ IsFiniteSet(D)
        /\ Cardinality(D) = IF q + 1 > r THEN 0 ELSE r - (q + 1) + 1
    BY <2>1, FS_Interval
  <2> HIDE DEF D
  <2> QED
    BY <2>2
<1>2. f \in Surjection(D, N) /\ f \in Injection(D, N)
  BY DEF Surjection, Injection, IsInjective, Span
<1> HIDE DEF D, f
<1>3. IsFiniteSet(N) /\ Cardinality(N) = r - q
  BY <1>1, <1>2, FS_Surjection
<1>4. C \cap N = {}
  BY DEF Span, Unused
<1> HIDE DEF N
<1>5. /\ IsFiniteSet(C \cup N)
      /\ Cardinality(C \cup N) = Cardinality(C) + Cardinality(N) - Cardinality(C \cap N)
  BY <1>3, FS_Union
<1>6. Cardinality(C \cap N) = 0
  BY <1>4, FS_EmptySet
<1>7. Cardinality(C) \in Nat
  BY FS_CardinalityType
<1> QED
  BY <1>3, <1>5, <1>6, <1>7 DEF N

LEMMA ChargedFinite ==
  ASSUME NEW T \in Nat
  PROVE  /\ IsFiniteSet((1..T) \X Traced)
         /\ Cardinality((1..T) \X Traced) = T * Cardinality(Traced)
<1>1. IsFiniteSet(Traced)
  <2>1. Traced \in SUBSET Threads
    BY DEF Traced
  <2> QED
    BY <2>1, FS_Subset, SyscallTraceAssumption
<1>2. IsFiniteSet(1..T) /\ Cardinality(1..T) = T
  BY FS_Interval
<1> QED
  BY <1>1, <1>2, FS_Product

(* Steps that change nothing of what will be reported.                     *)
LEMMA SpreadKept ==
  ASSUME IInv, NEW p \in [Keys -> Nat \cup {None}], NEW s, NEW charged, Spread(p, s, charged),
         clock' \in Nat, clock <= clock',
         \A t \in Threads : pc'[t] = "entering" =>
           \/ pc[t] = "entering" /\ nr'[t] = nr[t] /\ since'[t] = since[t]
           \/ since'[t] = clock' /\ nr'[t] \in Sysnos
  PROVE  Spread(p, s, charged)'
<1>t. clock \in Nat /\ since \in [Threads -> Nat]
  BY DEF IInv, TypeOK
<1>1. Traced' = Traced
  BY DEF Traced, matches_target
<1>2. charged \in [Sysnos -> SUBSET ((1..clock) \X Traced)]
  BY DEF Spread
<1>3. ASSUME NEW n \in Sysnos, NEW time, NEW u, <<time, u>> \in charged[n]
      PROVE  time \in 1..clock
  BY <1>2, <1>3
<1>4. charged \in [Sysnos -> SUBSET ((1..clock') \X Traced)]
  <2>1. 1..clock \subseteq 1..clock'
    BY <1>t
  <2> QED
    BY <1>2, <2>1
<1>5. ASSUME NEW t \in Threads, pc'[t] = "entering", NEW time \in Nat, since'[t] < time
      PROVE  <<time, t>> \notin charged[nr'[t]]
  <2>1. CASE pc[t] = "entering" /\ nr'[t] = nr[t] /\ since'[t] = since[t]
    BY <1>5, <2>1 DEF Spread
  <2>2. CASE since'[t] = clock' /\ nr'[t] \in Sysnos
    <3>1. time \notin 1..clock
      BY <1>t, <1>5, <2>2
    <3> QED
      BY <1>3, <2>2, <3>1
  <2> QED
    BY <1>5, <2>1, <2>2
<1>6. ASSUME NEW k \in Keys, p[k] # None, NEW time \in (p[k] + 1)..clock'
      PROVE  Room(charged, k, time)'
  <2>0. p[k] \in Nat /\ k[2] \in Sysnos /\ time \in Nat
    BY <1>6, <1>t DEF Keys
  <2>1. CASE time \notin (p[k] + 1)..clock
    <3>1. time \notin 1..clock
      BY <1>t, <1>6, <2>0, <2>1
    <3> QED
      BY <1>3, <2>0, <3>1 DEF Room
  <2>2. CASE time \in (p[k] + 1)..clock
    <3>1. Room(charged, k, time)
      BY <1>6, <2>2 DEF Spread
    <3>2. ASSUME NEW a \in Traced, Tgid[a] = k[1], Free(charged, time, k[2], a)
          PROVE  Free(charged, time, k[2], a)'
      <4>1. a \in Threads
        BY DEF Traced
      <4>2. ~(pc'[a] = "entering" /\ nr'[a] = k[2] /\ since'[a] < time)
        <5> SUFFICES ASSUME pc'[a] = "entering", nr'[a] = k[2], since'[a] < time PROVE FALSE
          OBVIOUS
        <5>1. since'[a] = clock'
          BY <3>2, <4>1 DEF Free
        <5> QED
          BY <1>6, <1>t, <2>0, <5>1
      <4> QED
        BY <3>2, <4>2 DEF Free
    <3> QED
      BY <1>1, <3>1, <3>2 DEF Room
  <2> QED
    BY <2>1, <2>2
<1>7. \A n \in Sysnos : s[n].total_ns <= Cardinality(charged[n])
  BY DEF Spread
<1> QED
  BY <1>1, <1>4, <1>5, <1>6, <1>7 DEF Spread

(* A start is recorded: its thread has the time after it free.             *)
LEMMA SpreadEnter ==
  ASSUME IInv, NEW t \in Threads, EmitEnter(t),
         NEW p \in [Keys -> Nat \cup {None}], NEW s, NEW charged, Spread(p, s, charged),
         CallKey(t) \in Keys, NEW p2, p2 = [p EXCEPT ![CallKey(t)] = since[t]]
  PROVE  Spread(p2, s, charged)'
<1>t. clock \in Nat /\ since \in [Threads -> Nat] /\ pc \in [Threads -> Phases]
  BY DEF IInv, TypeOK
<1>1. /\ pc[t] = "entering" /\ pc' = [pc EXCEPT ![t] = "inside"]
      /\ UNCHANGED <<nr, since, clock>>
  BY DEF EmitEnter, Moves
<1>2. pc'[t] = "inside" /\ \A u \in Threads : u # t => pc'[u] = pc[u]
  BY <1>1, <1>t
<1>3. Spread(p, s, charged)'
  <2>1. \A u \in Threads : pc'[u] = "entering" =>
           pc[u] = "entering" /\ nr'[u] = nr[u] /\ since'[u] = since[u]
    BY <1>1, <1>2
  <2>2. clock' \in Nat /\ clock <= clock'
    BY <1>1, <1>t
  <2> QED
    BY <2>1, <2>2, SpreadKept
<1>4. t \in Traced /\ Traced' = Traced
  BY <1>1 DEF IInv, HandlersOfTarget, Traced, matches_target
<1>5. ASSUME NEW k \in Keys, p2[k] # None, NEW time \in (p2[k] + 1)..clock'
      PROVE  Room(charged, k, time)'
  <2>1. CASE k = CallKey(t)
    <3>1. p2[k] = since[t] /\ k[1] = Tgid[t] /\ k[2] = nr[t]
      BY <2>1 DEF CallKey
    <3>2. time \in Nat /\ since[t] < time
      BY <1>1, <1>5, <1>t, <3>1
    <3>3. <<time, t>> \notin charged[nr[t]]
      BY <1>1, <3>2 DEF Spread
    <3>4. Free(charged, time, k[2], t)'
      BY <1>2, <3>1, <3>3 DEF Free
    <3> QED
      BY <1>4, <3>1, <3>4 DEF Room
  <2>2. CASE k # CallKey(t)
    <3>1. p2[k] = p[k]
      BY <2>2
    <3> QED
      BY <1>3, <1>5, <3>1 DEF Spread
  <2> QED
    BY <2>1, <2>2
<1> QED
  BY <1>3, <1>5 DEF Spread


(* A span is charged: at each of its times, to a thread of the process     *)
(* that is free then.                                                      *)
LEMMA SpreadExit ==
  ASSUME IInv, HandlersLate, NEW b \in Threads, EmitExit(b),
         NEW p \in [Keys -> Nat \cup {None}], NEW s \in [Sysnos -> SyscallStats],
         NEW charged, Spread(p, s, charged), CallKey(b) \in Keys,
         NEW p2, p2 = [p EXCEPT ![CallKey(b)] = None],
         NEW s2, s2 = IF p[CallKey(b)] = None THEN s
                      ELSE Tally(s, nr[b], SatSub(stamp[b], p[CallKey(b)]))
  PROVE  \E charged2 : Spread(p2, s2, charged2)'
<1>t. /\ clock \in Nat /\ since \in [Threads -> Nat] /\ pc \in [Threads -> Phases]
      /\ stamp \in [Threads -> Nat] /\ nr \in [Threads -> Sysnos]
  BY DEF IInv, TypeOK
<1>1. /\ pc[b] = "exiting" /\ pc' = [pc EXCEPT ![b] = "user"]
      /\ UNCHANGED <<nr, since, clock>>
  BY DEF EmitExit, Moves
<1>2. pc'[b] = "user" /\ \A u \in Threads : u # b => pc'[u] = pc[u]
  BY <1>1, <1>t
<1>3. /\ b \in Traced /\ Traced' = Traced /\ stamp[b] <= clock
      /\ \A u \in Traced : u \in Threads
  BY <1>1 DEF IInv, HandlersOfTarget, Traced, matches_target, HandlersLate
<1>k. PICK k \in Keys : k = CallKey(b)
  OBVIOUS
<1>4. k[1] = Tgid[b] /\ k[2] = nr[b] /\ k[2] \in Sysnos /\ k = <<k[1], k[2]>>
  BY <1>k, <1>t DEF CallKey
<1>5. Spread(p, s, charged)'
  <2>1. \A u \in Threads : pc'[u] = "entering" =>
           pc[u] = "entering" /\ nr'[u] = nr[u] /\ since'[u] = since[u]
    BY <1>1, <1>2
  <2>2. clock' \in Nat /\ clock <= clock'
    BY <1>1, <1>t
  <2> QED
    BY <2>1, <2>2, SpreadKept
<1>6. ASSUME s2 = s \/ \A n \in Sysnos : s2[n].total_ns = s[n].total_ns
      PROVE  Spread(p2, s2, charged)'
  <2>1. \A n \in Sysnos : s2[n].total_ns <= Cardinality(charged[n])
    BY <1>6 DEF Spread
  <2>2. \A j \in Keys : p2[j] # None => p2[j] = p[j]
    OBVIOUS
  <2> QED
    BY <1>5, <2>1, <2>2 DEF Spread
<1>7. CASE p[k] = None
  BY <1>6, <1>7, <1>k
<1>8. CASE p[k] # None /\ ~(p[k] <= stamp[b])
  <2>1. p[k] \in Nat /\ SatSub(stamp[b], p[k]) = 0
    BY <1>8, <1>t DEF SatSub
  <2>2. s2 = Tally(s, k[2], 0)
    BY <1>8, <1>k, <1>4, <2>1
  <2>3. \A n \in Sysnos : s2[n].total_ns = s[n].total_ns
    BY <1>4, <2>2 DEF Tally, SyscallStats
  <2> QED
    BY <1>6, <2>3
<1>9. CASE p[k] # None /\ p[k] <= stamp[b]
  <2> DEFINE q == p[k]
             r == stamp[b]
             n == k[2]
             A == [time \in (q + 1)..r |->
                     CHOOSE a \in Traced : Tgid[a] = k[1] /\ Free(charged, time, n, a)]
             N == Span(A, q, r)
  <2>1. q \in Nat /\ r \in Nat /\ q <= r /\ r <= clock /\ SatSub(r, q) = r - q
    BY <1>3, <1>9, <1>t DEF SatSub
  <2>2. ASSUME NEW time \in (q + 1)..r
        PROVE  A[time] \in Traced /\ Tgid[A[time]] = k[1] /\ Free(charged, time, n, A[time])
    <3>1. time \in (q + 1)..clock
      BY <1>t, <2>1
    <3>2. Room(charged, k, time)
      BY <1>9, <3>1 DEF Spread
    <3>3. \E a \in Traced : Tgid[a] = k[1] /\ Free(charged, time, n, a)
      <4>1. CASE \A u \in Traced : Tgid[u] = k[1] => <<time, u>> \notin charged[k[2]]
        <5>1. Free(charged, time, n, b)
          BY <1>1, <1>3, <1>4, <4>1 DEF Free
        <5> QED
          BY <1>3, <1>4, <5>1
      <4> QED
        BY <3>2, <4>1 DEF Room
    <3>4. A[time] = CHOOSE a \in Traced : Tgid[a] = k[1] /\ Free(charged, time, n, a)
      OBVIOUS
    <3> HIDE DEF A
    <3> QED
      BY <3>3, <3>4
  <2>3. charged[n] \in SUBSET ((1..clock) \X Traced) /\ IsFiniteSet(charged[n])
    <3>1. charged[n] \in SUBSET ((1..clock) \X Traced)
      BY <1>4 DEF Spread
    <3> QED
      BY <1>t, <3>1, ChargedFinite, FS_Subset
  <2>4. Cardinality(charged[n] \cup N) = Cardinality(charged[n]) + (r - q)
    <3>1. Unused(charged[n], A, q, r)
      BY <2>2 DEF Free, Unused
    <3> HIDE DEF A, q, r, n
    <3> QED
      BY <2>1, <2>3, <3>1, SpanCardinality
  <2>5. N \in SUBSET ((1..clock) \X Traced)
    <3>1. \A time \in (q + 1)..r : time \in 1..clock
      BY <1>t, <2>1
    <3> HIDE DEF A, q, r
    <3> QED
      BY <2>2, <3>1 DEF Span
  <2>n. /\ \A time, u : <<time, u>> \in N => time \in (q + 1)..r /\ u = A[time]
    <3> HIDE DEF A
    <3> QED
      BY DEF Span
  <2> HIDE DEF A, N
  <2>6. PICK charged2 : charged2 = [charged EXCEPT ![n] = charged[n] \cup N]
    OBVIOUS
  <2>7. /\ charged2 \in [Sysnos -> SUBSET ((1..clock) \X Traced)]
        /\ charged2[n] = charged[n] \cup N
        /\ \A m \in Sysnos : m # n => charged2[m] = charged[m]
    BY <1>4, <2>3, <2>5, <2>6 DEF Spread
  <2>8. ASSUME NEW m \in Sysnos PROVE s2[m].total_ns <= Cardinality(charged2[m])
    <3>0. s2 = Tally(s, n, r - q)
      BY <1>9, <1>k, <1>4, <2>1
    <3>1. s[m].total_ns <= Cardinality(charged[m]) /\ s[m].total_ns \in Nat
      BY DEF Spread, SyscallStats
    <3>2. CASE m = n
      <4>1. s2[m].total_ns = s[m].total_ns + (r - q)
        BY <1>4, <3>0, <3>2 DEF Tally, SyscallStats
      <4>2. Cardinality(charged2[m]) = Cardinality(charged[m]) + (r - q)
        BY <2>4, <2>7, <3>2
      <4>3. Cardinality(charged[m]) \in Nat
        BY <2>3, <3>2, FS_CardinalityType
      <4> HIDE DEF n, q, r
      <4> QED
        BY <2>1, <3>1, <4>1, <4>2, <4>3
    <3>3. CASE m # n
      <4>1. s2[m] = s[m]
        BY <1>4, <3>0, <3>3 DEF Tally
      <4> QED
        BY <2>7, <3>1, <3>3, <4>1
    <3> QED
      BY <3>2, <3>3
  <2>9. ASSUME NEW t \in Threads, pc'[t] = "entering", NEW time \in Nat, since'[t] < time
        PROVE  <<time, t>> \notin charged2[nr'[t]]
    <3>1. <<time, t>> \notin charged[nr[t]] /\ pc[t] = "entering" /\ since[t] < time
      BY <1>1, <1>2, <2>9 DEF Spread
    <3>2. CASE nr[t] = n
      <4>1. <<time, t>> \notin N
        <5> SUFFICES ASSUME <<time, t>> \in N PROVE FALSE
          OBVIOUS
        <5>1. time \in (q + 1)..r /\ t = A[time]
          BY <2>n
        <5>2. Free(charged, time, n, t)
          BY <2>2, <5>1
        <5> QED
          BY <3>1, <3>2, <5>2 DEF Free
      <4> QED
        BY <1>1, <2>7, <3>1, <3>2, <4>1
    <3>3. CASE nr[t] # n
      BY <1>1, <1>t, <2>7, <3>1, <3>3
    <3> QED
      BY <3>2, <3>3
  <2>10. ASSUME NEW j \in Keys, p2[j] # None, NEW time \in (p2[j] + 1)..clock'
         PROVE  Room(charged2, j, time)'
    <3>1. j # k /\ p2[j] = p[j]
      BY <1>k, <2>10
    <3>2. Room(charged, j, time)'
      BY <1>5, <2>10, <3>1 DEF Spread
    <3>3. j[2] \in Sysnos /\ j = <<j[1], j[2]>>
      BY DEF Keys
    <3>4. ASSUME NEW u \in Traced, Tgid[u] = j[1]
          PROVE  <<time, u>> \in charged2[j[2]] <=> <<time, u>> \in charged[j[2]]
      <4>1. CASE j[2] # n
        BY <2>7, <3>3, <4>1
      <4>2. CASE j[2] = n
        <5>1. j[1] # k[1]
          BY <1>4, <3>1, <3>3, <4>2
        <5>2. <<time, u>> \notin N
          BY <2>2, <2>n, <3>4, <5>1
        <5> QED
          BY <2>7, <4>2, <5>2
      <4> QED
        BY <4>1, <4>2
    <3> QED
      BY <1>3, <3>2, <3>4 DEF Room, Free
  <2>11. Spread(p2, s2, charged2)'
    BY <1>1, <1>3, <2>7, <2>8, <2>9, <2>10 DEF Spread
  <2> QED
    BY <2>11
<1> QED
  BY <1>7, <1>8, <1>9


LEMMA ApportionedInit == Init => Apportioned
<1> SUFFICES ASSUME Init PROVE Apportioned
  OBVIOUS
<1>1. Ahead(pending, stats)
  BY LeadsToEmpty DEF Init, Ahead
<1>2. PICK charged : charged = [n \in Sysnos |-> {}]
  OBVIOUS
<1>3. Spread(pending, stats, charged)
  BY <1>2, FS_EmptySet DEF Init, Spread
<1> QED
  BY <1>1, <1>3 DEF Apportioned

LEMMA ApportionedStep == IInv /\ HandlersLate /\ Apportioned /\ [Next]_vars => Apportioned'
<1> SUFFICES ASSUME IInv, HandlersLate, Apportioned, [Next]_vars
             PROVE  Apportioned'
  OBVIOUS
<1>1. PICK p, s, charged : Ahead(p, s) /\ Spread(p, s, charged)
  BY DEF Apportioned
<1>t. /\ TypeOK /\ TypeOK'
      /\ p \in [Keys -> Nat \cup {None}] /\ s \in [Sysnos -> SyscallStats]
  BY <1>1, AheadGrows, TypeStep DEF IInv
<1>v. /\ pc \in [Threads -> Phases] /\ nr \in [Threads -> Sysnos] /\ clock \in Nat
      /\ nr' \in [Threads -> Sysnos] /\ since \in [Threads -> Nat]
      /\ clock' \in Nat
  BY <1>t DEF TypeOK
<1>2. Spread(p, s, charged)'
  <2>1. clock <= clock'
    BY <1>v DEF Next, ThreadStep, SysEnter, EmitEnter, SysExit, EmitExit, ExitUnseen, ThreadGone,
                EnterUnseen, AttachExit, DrainEnter, DrainExit, ReadClock, vars, kernelVars
  <2>2. ASSUME NEW t \in Threads, pc'[t] = "entering"
        PROVE  \/ pc[t] = "entering" /\ nr'[t] = nr[t] /\ since'[t] = since[t]
               \/ since'[t] = clock' /\ nr'[t] \in Sysnos
    <3>1. ASSUME NEW u \in Threads, ThreadStep(u)
          PROVE  \/ pc[t] = "entering" /\ nr'[t] = nr[t] /\ since'[t] = since[t]
                 \/ since'[t] = clock' /\ nr'[t] \in Sysnos
      <4>1. CASE u = t
        BY <1>v, <2>2, <3>1, <4>1 DEF ThreadStep, SysEnter, EmitEnter, SysExit, EmitExit, ExitUnseen,
           ThreadGone, EnterUnseen, ReadClock, Moves
      <4>2. CASE u # t
        BY <1>v, <2>2, <3>1, <4>2 DEF ThreadStep, SysEnter, EmitEnter, SysExit, EmitExit, ExitUnseen,
           ThreadGone, EnterUnseen, Moves
      <4> QED
        BY <4>1, <4>2
    <3>2. CASE AttachExit \/ DrainEnter \/ DrainExit \/ UNCHANGED vars
      BY <2>2, <3>2 DEF AttachExit, DrainEnter, DrainExit, vars, kernelVars
    <3> QED
      BY <3>1, <3>2 DEF Next
  <2> QED
    BY <1>1, <1>t, <1>v, <2>1, <2>2, SpreadKept
<1>3. ASSUME Ahead(p, s)' PROVE Apportioned'
  BY <1>2, <1>3 DEF Apportioned
<1>4. CASE UNCHANGED vars
  BY <1>1, <1>3, <1>4, SameAhead DEF vars, userVars
<1>5. CASE DrainEnter \/ DrainExit
  BY <1>1, <1>3, <1>5, <1>t, DrainAhead
<1>6. CASE AttachExit
  BY <1>1, <1>3, <1>6, SameAhead DEF AttachExit, userVars
<1>7. ASSUME NEW t \in Threads,
             \/ \E n \in Sysnos : SysEnter(t, n) \/ EnterUnseen(t, n)
             \/ SysExit(t) \/ ExitUnseen(t) \/ ThreadGone(t)
      PROVE  Apportioned'
  <2>1. UNCHANGED <<events, pending, stats>>
    BY <1>7 DEF SysEnter, EnterUnseen, SysExit, ExitUnseen, ThreadGone, userVars
  <2> QED
    BY <1>1, <1>3, <2>1, SameAhead
<1>8. ASSUME NEW t \in Threads, EmitEnter(t) PROVE Apportioned'
  <2> DEFINE e == [kind |-> "Enter", pid |-> Tgid[t], nr |-> nr[t],
                   ts |-> stamp[t], own |-> since[t]]
  <2>1. /\ pc[t] = "entering" /\ Output("Enter", t) /\ UNCHANGED <<pending, stats>>
        /\ stamp[t] = since[t]
    BY <1>8 DEF EmitEnter, Moves, userVars, IInv, StampsInOrder
  <2>2. e \in Record /\ Key(e) = CallKey(t) /\ e.kind = "Enter" /\ Effect(e) = since[t]
        /\ CallKey(t) \in Keys
    <3>1. e \in Record
      BY <2>1, RecordType
    <3> QED
      BY <2>1, <3>1, AfterType, <1>t DEF Key, CallKey, Effect
  <2>3. \/ Ahead(p, s)'
        \/ \E p2, s2 : <<p2, s2>> = After(p, s, e) /\ Ahead(p2, s2)'
    BY <1>1, <1>t, <2>1, <2>2, OutputAhead
  <2>4. ASSUME NEW p2, NEW s2, <<p2, s2>> = After(p, s, e), Ahead(p2, s2)' PROVE Apportioned'
    <3>1. p2 = [p EXCEPT ![CallKey(t)] = since[t]] /\ s2 = s
      BY <2>2, <2>4 DEF After
    <3> HIDE DEF e
    <3>2. Spread(p2, s, charged)'
      BY <1>1, <1>8, <1>t, <2>2, <3>1, SpreadEnter
    <3> QED
      BY <2>4, <3>1, <3>2 DEF Apportioned
  <2> QED
    BY <1>3, <2>3, <2>4
<1>9. ASSUME NEW b \in Threads, EmitExit(b) PROVE Apportioned'
  <2> DEFINE e == [kind |-> "Exit", pid |-> Tgid[b], nr |-> nr[b],
                   ts |-> stamp[b], own |-> since[b]]
  <2>1. /\ pc[b] = "exiting" /\ Output("Exit", b) /\ UNCHANGED <<pending, stats>>
    BY <1>9 DEF EmitExit, Moves, userVars
  <2>2. e \in Record /\ Key(e) = CallKey(b) /\ e.kind = "Exit" /\ Effect(e) = None
        /\ CallKey(b) \in Keys /\ e.ts = stamp[b] /\ e.nr = nr[b]
    <3>1. e \in Record
      BY <2>1, RecordType
    <3> QED
      BY <2>1, <3>1, AfterType, <1>t DEF Key, CallKey, Effect
  <2>3. \/ Ahead(p, s)'
        \/ \E p2, s2 : <<p2, s2>> = After(p, s, e) /\ Ahead(p2, s2)'
    BY <1>1, <1>t, <2>1, <2>2, OutputAhead
  <2>4. ASSUME NEW p2, NEW s2, <<p2, s2>> = After(p, s, e), Ahead(p2, s2)' PROVE Apportioned'
    <3>1. /\ p2 = [p EXCEPT ![CallKey(b)] = None]
          /\ s2 = IF p[CallKey(b)] = None THEN s
                  ELSE Tally(s, nr[b], SatSub(stamp[b], p[CallKey(b)]))
      BY <2>2, <2>4 DEF After
    <3> HIDE DEF e
    <3>2. \E charged2 : Spread(p2, s2, charged2)'
      BY <1>1, <1>9, <1>t, <2>2, <3>1, SpreadExit
    <3> QED
      BY <2>4, <3>2 DEF Apportioned
  <2> QED
    BY <1>3, <2>3, <2>4
<1> QED
  BY <1>4, <1>5, <1>6, <1>7, <1>8, <1>9 DEF Next, ThreadStep

(* Whatever records the full ring drops, the spans that drain_syscalls     *)
(* measures of a call number overlap no more than there are threads.       *)
THEOREM SpansBounded == Spec => []WallClockBound
<1>1. Spec => [](IInv /\ HandlersLate /\ Apportioned)
  <2>1. IInv /\ HandlersLate /\ Apportioned /\ [Next]_vars => (HandlersLate /\ Apportioned)'
    BY HandlersLateStep, ApportionedStep
  <2>2. Init => HandlersLate /\ Apportioned
    BY AccountedInit, ApportionedInit
  <2> QED
    BY <2>1, <2>2, Invariance, PTL DEF Spec
<1>2. IInv /\ Apportioned => WallClockBound
  <2> SUFFICES ASSUME IInv, Apportioned, NEW n \in Sysnos
               PROVE  stats[n].total_ns <= clock * Cardinality(Traced)
    BY DEF WallClockBound, Traced
  <2>1. PICK p, s, charged : Ahead(p, s) /\ Spread(p, s, charged)
    BY DEF Apportioned
  <2>2. stats[n].total_ns <= s[n].total_ns /\ s[n].total_ns \in Nat /\ stats[n].total_ns \in Nat
    BY <2>1, AheadGrows DEF IInv, TypeOK, SyscallStats
  <2>3. s[n].total_ns <= Cardinality(charged[n]) /\ charged[n] \in SUBSET ((1..clock) \X Traced)
    BY <2>1 DEF Spread
  <2>4. clock \in Nat
    BY DEF IInv, TypeOK
  <2>5. IsFiniteSet((1..clock) \X Traced)
        /\ Cardinality((1..clock) \X Traced) = clock * Cardinality(Traced)
    BY <2>4, ChargedFinite
  <2>6. /\ Cardinality(charged[n]) \in Nat /\ Cardinality((1..clock) \X Traced) \in Nat
        /\ Cardinality(charged[n]) <= Cardinality((1..clock) \X Traced)
    BY <2>3, <2>5, FS_Subset, FS_CardinalityType
  <2> QED
    BY <2>2, <2>3, <2>5, <2>6
<1> QED
  BY <1>1, <1>2, PTL

=============================================================================
