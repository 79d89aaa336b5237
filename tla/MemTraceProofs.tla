--------------------------- MODULE MemTraceProofs ---------------------------
(***************************************************************************)
(* Theorems about MemTrace, for any processes, sizes and limits.           *)
(***************************************************************************)
EXTENDS MemTrace, SumsAndRings

AtMost(s, t) ==
  /\ s.alloc_count <= t.alloc_count
  /\ s.alloc_bytes <= t.alloc_bytes
  /\ s.free_count <= t.free_count

DrainStep == {x \in MemEventStats \X MemEvent \X MemEventStats : x[3] = After(x[1], x[2])}

(* Once the ring is drained, the counters will be c.                       *)
Ahead(c) == LeadsTo(DrainStep, MEM_EVENTS, mem_events, c)

Matched == Plus(own, charged)

(* They will be at most what was done in the target's context, and all of  *)
(* it when nothing was lost.                                               *)
Towards ==
  \E c \in MemEventStats : Ahead(c) /\ AtMost(c, Matched) /\ (~lost => c = Matched)

(* The inductive invariant.                                                *)
IInv == TypeOK /\ Towards

-----------------------------------------------------------------------------
LEMMA CountedFacts ==
  ASSUME NEW s \in MemEventStats, NEW e \in MemEvent
  PROVE  /\ Counted(s, e) \in MemEventStats
         /\ AtMost(s, Counted(s, e))
         /\ After(s, e) = Counted(s, e)
<1>1. /\ s.alloc_count \in Nat /\ s.alloc_bytes \in Nat /\ s.free_count \in Nat
      /\ e.bytes \in Nat /\ e.kind \in {"Alloc", "Free"} /\ (e.kind = "Free" => e.bytes = 0)
      /\ s = [alloc_count |-> s.alloc_count, alloc_bytes |-> s.alloc_bytes,
              free_count |-> s.free_count]
  <2>1. CASE e \in [kind : {"Alloc"}, bytes : Sizes]
    BY <2>1, MemTraceAssumption DEF MemEventStats
  <2>2. CASE e \in [kind : {"Free"}, bytes : {0}]
    BY <2>2 DEF MemEventStats
  <2> QED
    BY <2>1, <2>2 DEF MemEvent
<1>2. /\ Counted(s, e).alloc_count = s.alloc_count + IF e.kind = "Alloc" THEN 1 ELSE 0
      /\ Counted(s, e).alloc_bytes = s.alloc_bytes + e.bytes
      /\ Counted(s, e).free_count = s.free_count + IF e.kind = "Free" THEN 1 ELSE 0
  BY DEF Counted
<1>3. Counted(s, e) \in MemEventStats
  BY <1>1 DEF Counted, MemEventStats
<1>4. AtMost(s, Counted(s, e))
  BY <1>1, <1>2 DEF AtMost
<1>5. After(s, e) = Counted(s, e)
  <2>1. CASE e.kind = "Alloc"
    <3>1. After(s, e) = [s EXCEPT !.alloc_count = @ + 1, !.alloc_bytes = @ + e.bytes]
      BY <2>1 DEF After
    <3>2. After(s, e) = [alloc_count |-> s.alloc_count + 1, alloc_bytes |-> s.alloc_bytes + e.bytes,
                         free_count |-> s.free_count]
      BY <1>1, <3>1
    <3> QED
      BY <1>1, <2>1, <3>2 DEF Counted
  <2>2. CASE e.kind = "Free"
    <3>1. After(s, e) = [s EXCEPT !.free_count = @ + 1]
      BY <2>2 DEF After
    <3>2. After(s, e) = [alloc_count |-> s.alloc_count, alloc_bytes |-> s.alloc_bytes,
                         free_count |-> s.free_count + 1]
      BY <1>1, <3>1
    <3> QED
      BY <1>1, <2>2, <3>2 DEF Counted
  <2> QED
    BY <1>1, <2>1, <2>2
<1> QED
  BY <1>3, <1>4, <1>5

LEMMA AtMostFacts ==
  ASSUME NEW s \in MemEventStats, NEW t \in MemEventStats, NEW u \in MemEventStats
  PROVE  /\ AtMost(s, s)
         /\ AtMost(s, t) /\ AtMost(t, u) => AtMost(s, u)
BY DEF AtMost, MemEventStats

(* Counting keeps an order.                                                *)
LEMMA CountedMonotone ==
  ASSUME NEW s \in MemEventStats, NEW t \in MemEventStats, NEW e \in MemEvent, AtMost(s, t)
  PROVE  AtMost(Counted(s, e), Counted(t, e))
<1>1. e.bytes \in Nat
  <2>1. CASE e \in [kind : {"Alloc"}, bytes : Sizes]
    BY <2>1, MemTraceAssumption
  <2>2. CASE e \in [kind : {"Free"}, bytes : {0}]
    BY <2>2
  <2> QED
    BY <2>1, <2>2 DEF MemEvent
<1> QED
  BY <1>1 DEF AtMost, Counted, MemEventStats

LEMMA PlusType ==
  ASSUME NEW s \in MemEventStats, NEW t \in MemEventStats
  PROVE  Plus(s, t) \in MemEventStats
BY DEF Plus, MemEventStats

(* One more call counts once, on whichever side.                           *)
LEMMA PlusFacts ==
  ASSUME NEW s \in MemEventStats, NEW t \in MemEventStats, NEW e \in MemEvent
  PROVE  /\ Plus(s, t) \in MemEventStats
         /\ Plus(Counted(s, e), t) = Counted(Plus(s, t), e)
         /\ Plus(s, Counted(t, e)) = Counted(Plus(s, t), e)
<1>1. e.bytes \in Nat
  <2>1. CASE e \in [kind : {"Alloc"}, bytes : Sizes]
    BY <2>1, MemTraceAssumption
  <2>2. CASE e \in [kind : {"Free"}, bytes : {0}]
    BY <2>2
  <2> QED
    BY <2>1, <2>2 DEF MemEvent
<1>2. Plus(s, t) \in MemEventStats
  BY DEF Plus, MemEventStats
<1>3. /\ s.alloc_count \in Nat /\ s.alloc_bytes \in Nat /\ s.free_count \in Nat
      /\ t.alloc_count \in Nat /\ t.alloc_bytes \in Nat /\ t.free_count \in Nat
  BY DEF MemEventStats
<1>4. Plus(Counted(s, e), t) = Counted(Plus(s, t), e)
  BY <1>1, <1>3 DEF Plus, Counted
<1>5. Plus(s, Counted(t, e)) = Counted(Plus(s, t), e)
  BY <1>1, <1>3 DEF Plus, Counted
<1> QED
  BY <1>2, <1>4, <1>5

LEMMA InitIInv == Init => IInv
<1> SUFFICES ASSUME Init PROVE IInv
  OBVIOUS
<1>1. NoEvents \in MemEventStats
  BY DEF NoEvents, MemEventStats
<1>2. MEM_EVENTS \in Seq(MemEvent) /\ Len(MEM_EVENTS) = 0
  BY DEF Init
<1>3. TypeOK
  <2>1. objects \in 0..(Initial + Extra) /\ calls \in 0..MaxCalls /\ Len(MEM_EVENTS) <= RingCap
    BY <1>2, MemTraceAssumption DEF Init
  <2> QED
    BY <1>1, <1>2, <2>1 DEF Init, TypeOK
<1>4. Towards
  <2>1. Ahead(NoEvents) /\ Matched = NoEvents
    BY LeadsToEmpty DEF Init, Ahead, Matched, Plus, NoEvents
  <2>2. AtMost(NoEvents, NoEvents)
    BY <1>1, AtMostFacts
  <2> QED
    BY <1>1, <2>1, <2>2 DEF Towards
<1> QED
  BY <1>3, <1>4 DEF IInv

-----------------------------------------------------------------------------
(* The call is the target's, or charged to it, just if its task matches.   *)
LEMMA HappensFacts ==
  ASSUME TypeOK, NEW by, NEW task \in Tgids, NEW e \in MemEvent,
         Context(by, task), Happens(by, task, e)
  PROVE  /\ own' \in MemEventStats /\ charged' \in MemEventStats
         /\ Matched' = IF matches_target(task) THEN Counted(Matched, e) ELSE Matched
<1>1. own \in MemEventStats /\ charged \in MemEventStats
  BY DEF TypeOK
<1>2. by = "softirq" \/ by = task
  BY DEF Context
<1>3. "softirq" \notin Target /\ task # "softirq"
  BY MemTraceAssumption
<1>4. own' \in MemEventStats /\ charged' \in MemEventStats
  BY <1>1, CountedFacts DEF Happens
<1>5. Matched' = Plus(own', charged')
  BY DEF Matched, Plus
<1>6. CASE task \notin Target
  <2>1. own' = own /\ charged' = charged
    BY <1>2, <1>3, <1>6 DEF Happens
  <2> QED
    BY <1>4, <1>5, <1>6, <2>1 DEF matches_target, Matched
<1>7. CASE task \in Target /\ by = task
  <2>1. own' = Counted(own, e) /\ charged' = charged
    BY <1>3, <1>7 DEF Happens
  <2>2. Plus(Counted(own, e), charged) = Counted(Plus(own, charged), e)
    BY <1>1, PlusFacts
  <2> QED
    BY <1>4, <1>5, <1>7, <2>1, <2>2 DEF matches_target, Matched
<1>8. CASE task \in Target /\ by = "softirq"
  <2>1. own' = own /\ charged' = Counted(charged, e)
    BY <1>3, <1>8 DEF Happens
  <2>2. Plus(own, Counted(charged, e)) = Counted(Plus(own, charged), e)
    BY <1>1, PlusFacts
  <2> QED
    BY <1>4, <1>5, <1>8, <2>1, <2>2 DEF matches_target, Matched
<1> QED
  BY <1>2, <1>4, <1>6, <1>7, <1>8

(* A record of a call is counted ahead of time; one that is lost leaves    *)
(* the counters behind for good.                                           *)
LEMMA RecordTowards ==
  ASSUME IInv, NEW by, NEW task \in Tgids, NEW e \in MemEvent,
         Context(by, task), Happens(by, task, e), Record(task, e),
         mem_events' = mem_events
  PROVE  /\ Towards'
         /\ MEM_EVENTS' \in Seq(MemEvent) /\ Len(MEM_EVENTS') <= RingCap
         /\ own' \in MemEventStats /\ charged' \in MemEventStats /\ lost' \in BOOLEAN
<1> DEFINE n == Len(MEM_EVENTS)
<1>1. /\ MEM_EVENTS \in Seq(MemEvent) /\ n <= RingCap /\ n \in Nat
      /\ mem_events \in MemEventStats /\ lost \in BOOLEAN /\ Matched \in MemEventStats
  BY PlusFacts DEF IInv, TypeOK, Matched
<1>2. /\ own' \in MemEventStats /\ charged' \in MemEventStats
      /\ Matched' = IF matches_target(task) THEN Counted(Matched, e) ELSE Matched
  BY HappensFacts DEF IInv
<1>3. PICK c \in MemEventStats : Ahead(c) /\ AtMost(c, Matched) /\ (~lost => c = Matched)
  BY DEF IInv, Towards
<1>4. DrainStep' = DrainStep
  BY DEF DrainStep, MemEventStats, MemEvent, After
<1>5. \A x : x \in MemEventStats /\ Ahead(x)' /\ AtMost(x, Matched') /\ (~lost' => x = Matched')
             => Towards'
  BY DEF Towards, AtMost, MemEventStats
<1> HIDE DEF Matched
<1>6. CASE ~matches_target(task)
  <2>1. UNCHANGED <<MEM_EVENTS, lost>>
    BY <1>6 DEF Record
  <2>2. Ahead(c)'
    BY <1>3, <1>4, <2>1 DEF Ahead
  <2> QED
    BY <1>1, <1>2, <1>3, <1>5, <1>6, <2>1, <2>2
<1>7. CASE matches_target(task)
  <2>1. Matched' = Counted(Matched, e)
    BY <1>2, <1>7
  <2>2. Matched' \in MemEventStats /\ AtMost(Matched, Matched')
    BY <1>1, <2>1, CountedFacts
  <2>3. CASE n = RingCap /\ lost' = TRUE /\ MEM_EVENTS' = MEM_EVENTS
    <3>1. Ahead(c)'
      BY <1>3, <1>4, <2>3 DEF Ahead
    <3>2. AtMost(c, Matched')
      BY <1>1, <1>3, <2>2, AtMostFacts
    <3> QED
      BY <1>1, <1>2, <1>3, <1>5, <2>3, <3>1, <3>2
  <2>4. CASE n < RingCap /\ MEM_EVENTS' = Append(MEM_EVENTS, e) /\ lost' = lost
    <3> DEFINE u == Counted(c, e)
    <3>1. u \in MemEventStats /\ <<c, e, u>> \in DrainStep
      BY <1>3, CountedFacts DEF DrainStep
    <3>2. AtMost(u, Matched') /\ (~lost => u = Matched')
      BY <1>1, <1>3, <2>1, CountedMonotone
    <3> HIDE DEF u
    <3>3. Ahead(u)'
      <4>1. LeadsTo(DrainStep, Append(MEM_EVENTS, e), mem_events, u)
        BY <1>1, <1>3, <3>1, LeadsToAppend DEF Ahead
      <4> QED
        BY <1>4, <2>4, <4>1 DEF Ahead
    <3>4. MEM_EVENTS' \in Seq(MemEvent) /\ Len(MEM_EVENTS') <= RingCap
      BY <1>1, <2>4, MemTraceAssumption
    <3> QED
      BY <1>1, <1>2, <1>5, <2>4, <3>1, <3>2, <3>3, <3>4
  <2> QED
    BY <1>7, <2>3, <2>4 DEF Record
<1> QED
  BY <1>6, <1>7

(* A drain makes the first of the changes that were predicted.             *)
LEMMA DrainMemIInv == ASSUME IInv, DrainMem PROVE IInv'
<1>1. /\ UNCHANGED <<attached, objects, own, charged, calls, lost>>
      /\ MEM_EVENTS # <<>> /\ MEM_EVENTS' = Tail(MEM_EVENTS)
      /\ mem_events' = After(mem_events, Head(MEM_EVENTS))
  BY DEF DrainMem
<1>2. /\ MEM_EVENTS \in Seq(MemEvent) /\ Len(MEM_EVENTS) <= RingCap
      /\ mem_events \in MemEventStats
  BY DEF IInv, TypeOK
<1>3. /\ Head(MEM_EVENTS) \in MemEvent
      /\ MEM_EVENTS' \in Seq(MemEvent) /\ Len(MEM_EVENTS') <= RingCap
  BY <1>1, <1>2, MemTraceAssumption
<1>4. mem_events' \in MemEventStats
  BY <1>1, <1>2, <1>3, CountedFacts
<1>5. TypeOK'
  BY <1>1, <1>3, <1>4 DEF IInv, TypeOK
<1>6. ASSUME NEW c, Ahead(c) PROVE Ahead(c)'
  <2>1. PICK u : <<mem_events, Head(MEM_EVENTS), u>> \in DrainStep
                 /\ LeadsTo(DrainStep, Tail(MEM_EVENTS), u, c)
    BY <1>1, <1>2, <1>6, LeadsToDrain DEF Ahead
  <2>2. u = mem_events'
    BY <1>1, <2>1 DEF DrainStep
  <2>3. DrainStep' = DrainStep
    BY DEF DrainStep, MemEventStats, MemEvent, After
  <2> QED
    BY <1>1, <2>1, <2>2, <2>3 DEF Ahead
<1>7. Towards'
  BY <1>1, <1>6 DEF IInv, Towards, AtMost, MemEventStats, Matched, Plus
<1> QED
  BY <1>5, <1>7 DEF IInv

LEMMA StepIInv == IInv /\ [Next]_vars => IInv'
<1> SUFFICES ASSUME IInv, [Next]_vars PROVE IInv'
  OBVIOUS
<1>1. CASE UNCHANGED vars
  BY <1>1 DEF vars, IInv, TypeOK, Towards, Ahead, Matched
<1>2. CASE Attach
  <2>1. TypeOK'
    BY <1>2 DEF Attach, IInv, TypeOK
  <2>2. Towards'
    BY <1>2 DEF Attach, IInv, Towards, Ahead, Matched
  <2> QED
    BY <2>1, <2>2 DEF IInv
<1>3. ASSUME NEW by, NEW task \in Tgids, NEW n \in Sizes, Kmalloc(by, task, n) PROVE IInv'
  <2> DEFINE e == [kind |-> "Alloc", bytes |-> n]
  <2>1. e \in MemEvent
    BY DEF MemEvent
  <2>2. /\ Context(by, task) /\ Happens(by, task, e) /\ Record(task, e)
        /\ UNCHANGED <<attached, mem_events>>
    BY <1>3 DEF Kmalloc
  <2> HIDE DEF e
  <2>3. /\ Towards'
        /\ MEM_EVENTS' \in Seq(MemEvent) /\ Len(MEM_EVENTS') <= RingCap
        /\ own' \in MemEventStats /\ charged' \in MemEventStats /\ lost' \in BOOLEAN
    BY <2>1, <2>2, RecordTowards
  <2>4. objects' \in 0..(Initial + Extra) /\ calls' \in 0..MaxCalls
    BY <1>3, MemTraceAssumption DEF Kmalloc, Call, IInv, TypeOK
  <2> QED
    BY <2>2, <2>3, <2>4 DEF IInv, TypeOK
<1>4. ASSUME NEW by, NEW task \in Tgids, Kfree(by, task) PROVE IInv'
  <2> DEFINE e == [kind |-> "Free", bytes |-> 0]
  <2>1. e \in MemEvent
    BY DEF MemEvent
  <2>2. /\ UNCHANGED <<attached, mem_events>>
        /\ \/ Context(by, task) /\ Happens(by, task, e) /\ Record(task, e)
           \/ UNCHANGED <<MEM_EVENTS, own, charged, lost>>
    BY <1>4 DEF Kfree
  <2> HIDE DEF e
  <2>3. /\ Towards'
        /\ MEM_EVENTS' \in Seq(MemEvent) /\ Len(MEM_EVENTS') <= RingCap
        /\ own' \in MemEventStats /\ charged' \in MemEventStats /\ lost' \in BOOLEAN
    <3>1. CASE Context(by, task) /\ Happens(by, task, e) /\ Record(task, e)
      BY <2>1, <2>2, <3>1, RecordTowards
    <3>2. CASE UNCHANGED <<MEM_EVENTS, own, charged, lost>>
      BY <2>2, <3>2 DEF IInv, TypeOK, Towards, Ahead, Matched
    <3> QED
      BY <2>2, <3>1, <3>2
  <2>4. objects' \in 0..(Initial + Extra) /\ calls' \in 0..MaxCalls
    BY <1>4, MemTraceAssumption DEF Kfree, Call, IInv, TypeOK
  <2> QED
    BY <2>2, <2>3, <2>4 DEF IInv, TypeOK
<1>5. CASE DrainMem
  BY <1>5, DrainMemIInv
<1> QED
  BY <1>1, <1>2, <1>3, <1>4, <1>5 DEF Next

LEMMA Invariance == Spec => []IInv
BY InitIInv, StepIInv, PTL DEF Spec

(* The type invariant; no counter is ever negative.                        *)
THEOREM TypeCorrect == Spec => []TypeOK
<1>1. IInv => TypeOK
  BY DEF IInv
<1> QED
  BY <1>1, Invariance, PTL

(* drain_mem_events counts no call twice, and none but the target's and    *)
(* those of softirqs on top of it.                                         *)
THEOREM NeverOverstatedCorrect == Spec => []NeverOverstated
<1>1. IInv => NeverOverstated
  <2> SUFFICES ASSUME IInv PROVE AtMost(mem_events, Matched)
    BY DEF NeverOverstated, AtMost, Matched
  <2>1. PICK c \in MemEventStats : Ahead(c) /\ AtMost(c, Matched)
    BY DEF IInv, Towards
  <2> DEFINE order == {x \in MemEventStats \X MemEventStats : AtMost(x[1], x[2])}
  <2>2. \A s, t \in MemEventStats : <<s, t>> \in order <=> AtMost(s, t)
    OBVIOUS
  <2>3. MEM_EVENTS \in Seq(MemEvent) /\ mem_events \in MemEventStats
        /\ Matched \in MemEventStats
    BY PlusType DEF IInv, TypeOK, Matched
  <2> HIDE DEF order
  <2>4. Climbs(DrainStep, MemEventStats, MemEvent, order)
    <3>1. \A s, t \in MemEventStats : \A e \in MemEvent : <<s, e, t>> \in DrainStep => AtMost(s, t)
      BY CountedFacts DEF DrainStep
    <3>2. DrainStep \in SUBSET (MemEventStats \X MemEvent \X MemEventStats)
      BY DEF DrainStep
    <3> QED
      BY <2>2, <3>1, <3>2, AtMostFacts DEF Climbs
  <2>5. AtMost(mem_events, c)
    BY <2>1, <2>2, <2>3, <2>4, LeadsToGrows DEF Ahead
  <2> QED
    BY <2>1, <2>3, <2>5, AtMostFacts
<1> QED
  BY <1>1, Invariance, PTL

(* When nothing was lost, the drained counters are all of these calls.     *)
THEOREM ExactCorrect == Spec => []CountsAreExact
<1>1. IInv => CountsAreExact
  <2>1. ASSUME NEW c, MEM_EVENTS = << >>, Ahead(c) PROVE c = mem_events
    <3>1. LeadsTo(DrainStep, << >>, mem_events, c)
      BY <2>1 DEF Ahead
    <3> QED
      BY <3>1, LeadsToEmpty
  <2> QED
    BY <2>1 DEF IInv, Towards, CountsAreExact, Matched
<1> QED
  BY <1>1, Invariance, PTL

=============================================================================
