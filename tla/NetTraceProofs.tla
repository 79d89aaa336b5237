--------------------------- MODULE NetTraceProofs ---------------------------
(***************************************************************************)
(* Theorems about NetTrace, for every set of addresses, processes, ports   *)
(* and states and every capacity.                                          *)
(***************************************************************************)
EXTENDS NetTrace, SumsAndRings

(* A tracked socket is open: its entry goes when it closes, before its     *)
(* address can be used again.                                              *)
TrackedAreOpen ==
  ~lost =>
    \A a \in TRACKED_SOCKS : Live(a) /\ sock[a].state # TCP_CLOSE

(* What a record may say of its socket.                                    *)
Known == Target \cup {"softirq"}

(* The inductive invariant.                                                *)
IInv ==
  /\ TypeOK /\ IsFiniteSet(TRACKED_SOCKS)
  /\ TrackedAreOpen
  /\ OnlyOwnSockets

-----------------------------------------------------------------------------
LEMMA InitIInv == Init => IInv
<1> SUFFICES ASSUME Init PROVE IInv
  OBVIOUS
<1>1. TRACKED_SOCKS = {} /\ IsFiniteSet(TRACKED_SOCKS) /\ Cardinality(TRACKED_SOCKS) = 0
  BY FS_EmptySet DEF Init
<1>2. net_events \in Seq(NetEvent) /\ Len(net_events) = 0
  BY EmptySeq DEF Init
<1>3. lost \in BOOLEAN /\ missed \in BOOLEAN
  BY DEF Init
<1>4. TypeOK
  BY <1>1, <1>2, <1>3, NetTraceAssumption DEF Init, TypeOK
<1>5. TrackedAreOpen /\ OnlyOwnSockets
  BY <1>1, <1>2 DEF TrackedAreOpen, OnlyOwnSockets
<1> QED
  BY <1>1, <1>4, <1>5 DEF IInv

(* What Becomes leaves of every socket.                                    *)
LEMMA BecomesSockets ==
  ASSUME TypeOK, NEW a \in Addrs, Live(a), NEW s \in AnyState, Becomes(a, s)
  PROVE  /\ sock' \in [Addrs -> Socket \cup {None}]
         /\ sock'[a] # None /\ sock'[a].owner = sock[a].owner /\ sock'[a].state = s
         /\ \A b \in Addrs : b # a => sock'[b] = sock[b]
<1>1. sock[a] \in Socket
  BY DEF TypeOK, Live
<1>2. PICK port \in Ports :
        sock' = [sock EXCEPT ![a] = [owner |-> sock[a].owner,
                                     key |-> [sock[a].key EXCEPT !.sport = port],
                                     state |-> s]]
  BY DEF Becomes
<1>3. [sock[a].key EXCEPT !.sport = port] \in ConnectionKey
  BY <1>1 DEF Socket, ConnectionKey
<1>4. [owner |-> sock[a].owner, key |-> [sock[a].key EXCEPT !.sport = port],
       state |-> s] \in Socket
  BY <1>1, <1>3 DEF Socket
<1> QED
  BY <1>2, <1>4, NoneAssumption DEF TypeOK

(* Tracking one more socket keeps the map finite and within its limit.     *)
LEMMA TrackBound ==
  ASSUME TRACKED_SOCKS \subseteq Addrs, IsFiniteSet(TRACKED_SOCKS),
         Cardinality(TRACKED_SOCKS) <= TrackedCap, NEW a \in Addrs
  PROVE  /\ Track(a) \subseteq TRACKED_SOCKS \cup {a}
         /\ TRACKED_SOCKS \subseteq Track(a)
         /\ IsFiniteSet(Track(a)) /\ Cardinality(Track(a)) <= TrackedCap
<1>1. Cardinality(TRACKED_SOCKS) \in Nat
  BY FS_CardinalityType
<1>2. /\ IsFiniteSet(TRACKED_SOCKS \cup {a})
      /\ \/ Cardinality(TRACKED_SOCKS \cup {a}) = Cardinality(TRACKED_SOCKS)
         \/ Cardinality(TRACKED_SOCKS \cup {a}) = Cardinality(TRACKED_SOCKS) + 1
  BY FS_AddElement
<1>3. CASE Cardinality(TRACKED_SOCKS) < TrackedCap
  BY <1>1, <1>2, <1>3, NetTraceAssumption DEF Track
<1>4. CASE ~(Cardinality(TRACKED_SOCKS) < TrackedCap)
  BY <1>4 DEF Track
<1> QED
  BY <1>3, <1>4

(* So does untracking it.                                                  *)
LEMMA UntrackBound ==
  ASSUME NEW a, NEW s, NEW T, IsFiniteSet(T), Cardinality(T) <= TrackedCap
  PROVE  /\ UntrackOnClose(a, s, T) \subseteq T
         /\ IsFiniteSet(UntrackOnClose(a, s, T))
         /\ Cardinality(UntrackOnClose(a, s, T)) <= TrackedCap
<1>1. /\ IsFiniteSet(T \ {a}) /\ Cardinality(T \ {a}) \in Nat /\ Cardinality(T) \in Nat
      /\ Cardinality(T \ {a}) <= Cardinality(T)
  BY FS_RemoveElement, FS_CardinalityType, FS_Subset
<1> QED
  BY <1>1, NetTraceAssumption DEF UntrackOnClose

(* A record that was output: the ring keeps its type, and what holds of    *)
(* the owners in it and of the new record's holds of the longer ring.      *)
LEMMA OutputRing ==
  ASSUME net_events \in Seq(NetEvent), Len(net_events) <= RingCap, HasRoom,
         NEW rec \in NetEvent, Output(rec)
  PROVE  /\ net_events' \in Seq(NetEvent) /\ Len(net_events') <= RingCap
         /\ (\A i \in 1..Len(net_events) : net_events[i].own \in Known)
            /\ rec.own \in Known
            => \A i \in 1..Len(net_events') : net_events'[i].own \in Known
<1>1. net_events' \in Seq(NetEvent) /\ Len(net_events') = Len(net_events) + 1
  BY AppendProperties DEF Output
<1>2. /\ net_events'[Len(net_events) + 1] = rec
      /\ \A i \in 1..Len(net_events) : net_events'[i] = net_events[i]
  BY AppendProperties DEF Output
<1>3. Len(net_events) \in Nat
  OBVIOUS
<1> QED
  BY <1>1, <1>2, <1>3, NetTraceAssumption DEF HasRoom

LEMMA EventType ==
  ASSUME NEW a \in Addrs, sock[a] \in Socket
  PROVE  /\ \A s \in AnyState : Event(a, "StateChange", s) \in NetEvent
         /\ \A s \in States : Event(a, "Retransmit", s) \in NetEvent
         /\ \A kind, s : Event(a, kind, s).own \in Known
                         <=> a \in taken' \/ sock[a].owner \in Target
  BY NetTraceAssumption DEF Event, NetEvent, Socket, Known

LEMMA ShowsType ==
  ASSUME shown \in [Addrs -> Nat \cup {None}], NEW a \in Addrs, NEW s,
         NEW n \in Nat, Shows(a, s, n)
  PROVE  shown' \in [Addrs -> Nat \cup {None}]
<1> DEFINE v == IF s = TCP_CLOSE THEN None
                ELSE IF shown[a] # None THEN shown[a] + n
                ELSE IF sock[a].key.sport # 0 THEN n ELSE None
<1>1. shown' = [shown EXCEPT ![a] = v]
  BY DEF Shows
<1>2. v \in Nat \cup {None}
  OBVIOUS
<1> HIDE DEF v
<1> QED
  BY <1>1, <1>2

LEMMA NewSocketStep ==
  ASSUME IInv, NEW a \in Addrs, NEW p \in Tgids, NEW k \in ConnectionKey,
         NewSocket(a, p, k)
  PROVE  IInv'
<1> USE DEF IInv, NewSocket
<1>1. [owner |-> p, key |-> k, state |-> TCP_CLOSE] \in Socket
  BY DEF Socket, AnyState
<1>2. /\ sock' \in [Addrs -> Socket \cup {None}]
      /\ \A b \in Addrs : b # a => sock'[b] = sock[b]
  BY <1>1 DEF TypeOK
<1>3. TypeOK'
  <2>1. lost' \in BOOLEAN /\ missed' \in BOOLEAN
    BY DEF TypeOK
  <2> QED
    BY <1>2, <2>1 DEF TypeOK
<1>4. ~lost => a \notin TRACKED_SOCKS
  BY DEF TrackedAreOpen
<1>5. TrackedAreOpen'
  BY <1>2, <1>4 DEF TypeOK, TrackedAreOpen, Live
<1>6. OnlyOwnSockets'
  BY <1>2, <1>4 DEF TypeOK, OnlyOwnSockets, Live
<1> QED
  BY <1>3, <1>5, <1>6

LEMMA FreeSocketStep ==
  ASSUME IInv, NEW a \in Addrs, FreeSocket(a)
  PROVE  IInv'
<1> USE DEF IInv, FreeSocket
<1>1. /\ sock' \in [Addrs -> Socket \cup {None}]
      /\ \A b \in Addrs : b # a => sock'[b] = sock[b]
  BY DEF TypeOK
<1>2. TypeOK'
  <2>1. lost' \in BOOLEAN /\ missed' \in BOOLEAN
    BY DEF TypeOK
  <2>2. shown' \in [Addrs -> Nat \cup {None}]
    BY DEF TypeOK
  <2> QED
    BY <1>1, <2>1, <2>2 DEF TypeOK
<1>3. ~lost => a \notin TRACKED_SOCKS
  BY DEF TrackedAreOpen
<1>4. TrackedAreOpen'
  BY <1>1, <1>3 DEF TypeOK, TrackedAreOpen, Live
<1>5. OnlyOwnSockets'
  BY <1>1, <1>3 DEF TypeOK, OnlyOwnSockets, Live
<1> QED
  BY <1>2, <1>4, <1>5

(* The step that matters: a socket becomes tracked only when a target task *)
(* is current, which is its owner or has a softirq on top of it; and a     *)
(* tracked socket that closes is untracked in the same step.               *)
LEMMA NetStateStep ==
  ASSUME IInv, NEW a \in Addrs, NEW s \in AnyState,
         NEW task \in {sock[a].owner} \cup SoftirqTasks, NetState(a, s, task)
  PROVE  IInv'
<1> USE DEF IInv
<1>1. Live(a) /\ sock[a] \in Socket /\ fires' \in 0..MaxFires /\ connections' = connections
  BY NetTraceAssumption DEF NetState, TypeOK, Live
<1>2. /\ sock' \in [Addrs -> Socket \cup {None}]
      /\ sock'[a].owner = sock[a].owner /\ sock'[a].state = s
      /\ \A b \in Addrs : b # a => sock'[b] = sock[b]
  BY <1>1, BecomesSockets DEF NetState
<1>3. Live(a)'
  BY <1>1, BecomesSockets DEF NetState, Live
<1>4. CASE /\ a \notin TRACKED_SOCKS /\ turned_away(task)
           /\ UNCHANGED <<TRACKED_SOCKS, net_events, shown, taken, lost, missed>>
  <2>1. UNCHANGED <<TRACKED_SOCKS, net_events, shown, taken, lost, missed>>
    BY <1>4
  <2>2. TypeOK'
    <3>1. lost' \in BOOLEAN /\ missed' \in BOOLEAN
      BY <2>1 DEF TypeOK
    <3> QED
      BY <1>1, <1>2, <2>1, <3>1 DEF TypeOK
  <2>3. TrackedAreOpen' /\ OnlyOwnSockets'
    BY <1>2, <1>4, <2>1 DEF TypeOK, TrackedAreOpen, OnlyOwnSockets, Live
  <2> QED
    BY <2>1, <2>2, <2>3
<1>5. CASE /\ a \in TRACKED_SOCKS \/ matches_target(task)
           /\ Takes(a, task)
           /\ Reports(a, s)
  <2> DEFINE tracked == IF a \in TRACKED_SOCKS THEN TRACKED_SOCKS ELSE Track(a)
  <2>1. /\ missed' = (missed \/ a \notin tracked)
        /\ \/ /\ HasRoom
              /\ Output(Event(a, "StateChange", s))
              /\ TRACKED_SOCKS' = UntrackOnClose(a, s, tracked)
              /\ Shows(a, s, 0)
              /\ UNCHANGED lost
           \/ /\ TRACKED_SOCKS' = tracked
              /\ lost' = TRUE
              /\ UNCHANGED <<net_events, shown>>
    BY <1>5 DEF Reports
  <2>2. /\ taken \subseteq taken' /\ taken' \subseteq Addrs
        /\ ~lost => a \in taken' \/ sock[a].owner \in Target
    BY <1>5 DEF OnlyOwnSockets, matches_target, Takes, TypeOK
  <2>3. /\ TRACKED_SOCKS \subseteq Addrs /\ Cardinality(TRACKED_SOCKS) <= TrackedCap
        /\ net_events \in Seq(NetEvent) /\ Len(net_events) <= RingCap
        /\ shown \in [Addrs -> Nat \cup {None}]
        /\ connections \in [ConnectionKey -> ConnectionStats \cup {None}]
    BY DEF TypeOK
  <2>4. /\ tracked \subseteq TRACKED_SOCKS \cup {a}
        /\ IsFiniteSet(tracked) /\ Cardinality(tracked) <= TrackedCap
    BY <2>3, TrackBound
  <2>5. missed' \in BOOLEAN
    BY <2>1 DEF TypeOK
  <2> HIDE DEF tracked
  <2>6. CASE /\ HasRoom
             /\ Output(Event(a, "StateChange", s))
             /\ TRACKED_SOCKS' = UntrackOnClose(a, s, tracked)
             /\ Shows(a, s, 0)
             /\ UNCHANGED lost
    <3>1. /\ TRACKED_SOCKS' \subseteq tracked
          /\ IsFiniteSet(TRACKED_SOCKS') /\ Cardinality(TRACKED_SOCKS') <= TrackedCap
      BY <2>4, <2>6, UntrackBound
    <3>2. /\ Event(a, "StateChange", s) \in NetEvent
          /\ Event(a, "StateChange", s).own \in Known
             <=> a \in taken' \/ sock[a].owner \in Target
      BY <1>1, EventType
    <3>3. /\ net_events' \in Seq(NetEvent) /\ Len(net_events') <= RingCap
          /\ (\A i \in 1..Len(net_events) : net_events[i].own \in Known)
             /\ Event(a, "StateChange", s).own \in Known
             => \A i \in 1..Len(net_events') : net_events'[i].own \in Known
      BY <2>3, <2>6, <3>2, OutputRing
    <3>4. shown' \in [Addrs -> Nat \cup {None}]
      BY <2>3, <2>6, ShowsType
    <3>5. lost' \in BOOLEAN
      BY <2>6 DEF TypeOK
    <3>6. TypeOK'
      BY <1>1, <1>2, <2>2, <2>3, <2>4, <2>5, <3>1, <3>3, <3>4, <3>5 DEF TypeOK
    <3>7. s = TCP_CLOSE => a \notin TRACKED_SOCKS'
      BY <2>6 DEF UntrackOnClose
    <3>8. \A b \in TRACKED_SOCKS' : b = a \/ b \in TRACKED_SOCKS
      BY <2>4, <3>1
    <3>9. TrackedAreOpen'
      BY <1>2, <1>3, <2>6, <3>7, <3>8, <2>3 DEF TrackedAreOpen, Live
    <3>10. OnlyOwnSockets'
      <4> SUFFICES ASSUME ~lost
                   PROVE  /\ \A b \in TRACKED_SOCKS' :
                               Live(b)' /\ (sock'[b].owner \in Target \/ b \in taken')
                          /\ \A i \in 1..Len(net_events') : net_events'[i].own \in Known
        BY <2>6 DEF OnlyOwnSockets, Known
      <4>1. sock'[a].owner \in Target \/ a \in taken'
        BY <1>2, <1>3, <2>2 DEF Live
      <4>2. \A b \in TRACKED_SOCKS' :
              Live(b)' /\ (sock'[b].owner \in Target \/ b \in taken')
        BY <1>2, <1>3, <2>2, <2>3, <2>6, <3>8, <4>1 DEF OnlyOwnSockets, Live
      <4> QED
        BY <2>2, <2>6, <3>2, <3>3, <4>2 DEF OnlyOwnSockets, Known
    <3> QED
      BY <3>1, <3>6, <3>9, <3>10
  <2>7. CASE /\ TRACKED_SOCKS' = tracked
             /\ lost' = TRUE
             /\ UNCHANGED <<net_events, shown>>
    <3>1. lost' \in BOOLEAN
      BY <2>7
    <3>2. TypeOK'
      BY <1>1, <1>2, <2>2, <2>3, <2>4, <2>5, <2>7, <3>1 DEF TypeOK
    <3>3. TrackedAreOpen' /\ OnlyOwnSockets'
      BY <2>7 DEF TrackedAreOpen, OnlyOwnSockets
    <3> QED
      BY <2>4, <2>7, <3>2, <3>3
  <2> QED
    BY <2>1, <2>6, <2>7
<1> QED
  BY <1>4, <1>5, Zenon DEF NetState

LEMMA NetRetransmitStep ==
  ASSUME IInv, NEW a \in Addrs, NetRetransmit(a)
  PROVE  IInv'
<1> USE DEF IInv
<1>1. /\ sock[a] \in Socket /\ sock[a].state \in States
      /\ fires' \in 0..MaxFires
      /\ UNCHANGED <<sock, TRACKED_SOCKS, connections, taken, missed>>
  BY NetTraceAssumption DEF NetRetransmit, TypeOK, Live, Socket, AnyState
<1>2. missed' \in BOOLEAN
  BY <1>1 DEF TypeOK
<1>3. CASE UNCHANGED <<net_events, shown, lost>>
  <2>1. lost' \in BOOLEAN
    BY <1>3 DEF TypeOK
  <2>2. TypeOK'
    BY <1>1, <1>2, <1>3, <2>1 DEF TypeOK
  <2> QED
    BY <1>1, <1>3, <2>2 DEF TrackedAreOpen, OnlyOwnSockets, Live
<1>4. CASE /\ a \in TRACKED_SOCKS /\ HasRoom
           /\ Output(Event(a, "Retransmit", sock[a].state))
           /\ Shows(a, sock[a].state, 1)
           /\ UNCHANGED lost
  <2>1. /\ Event(a, "Retransmit", sock[a].state) \in NetEvent
        /\ Event(a, "Retransmit", sock[a].state).own \in Known
           <=> a \in taken' \/ sock[a].owner \in Target
    BY <1>1, EventType
  <2>2. net_events \in Seq(NetEvent) /\ Len(net_events) <= RingCap
    BY DEF TypeOK
  <2>3. /\ net_events' \in Seq(NetEvent) /\ Len(net_events') <= RingCap
        /\ (\A i \in 1..Len(net_events) : net_events[i].own \in Known)
           /\ Event(a, "Retransmit", sock[a].state).own \in Known
           => \A i \in 1..Len(net_events') : net_events'[i].own \in Known
    BY <1>4, <2>1, <2>2, OutputRing
  <2>4. shown' \in [Addrs -> Nat \cup {None}]
    BY <1>4, ShowsType DEF TypeOK
  <2>5. lost' \in BOOLEAN
    BY <1>4 DEF TypeOK
  <2>6. TypeOK'
    BY <1>1, <1>2, <2>3, <2>4, <2>5 DEF TypeOK
  <2>7. TrackedAreOpen'
    BY <1>1, <1>4 DEF TrackedAreOpen, Live
  <2>8. OnlyOwnSockets'
    BY <1>1, <1>4, <2>1, <2>3 DEF OnlyOwnSockets, Live, Known
  <2> QED
    BY <1>1, <2>6, <2>7, <2>8
<1>5. CASE lost' = TRUE /\ UNCHANGED <<net_events, shown>>
  <2>1. lost' \in BOOLEAN
    BY <1>5
  <2>2. TypeOK'
    BY <1>1, <1>2, <1>5, <2>1 DEF TypeOK
  <2> QED
    BY <1>1, <1>5, <2>2 DEF TrackedAreOpen, OnlyOwnSockets
<1> QED
  BY <1>3, <1>4, <1>5 DEF NetRetransmit

(* The row after a record.                                                 *)
LEMMA AfterType ==
  ASSUME NEW row \in ConnectionStats \cup {None}, NEW e \in NetEvent
  PROVE  /\ After(row, e) \in ConnectionStats \cup {None}
         /\ LET n == IF row = None THEN 0 ELSE row.retransmits
                d == IF e.kind = "Retransmit" THEN 1 ELSE 0
            IN  After(row, e) = IF e.state = TCP_CLOSE THEN None
                                ELSE [state |-> e.state, retransmits |-> n + d]
<1> DEFINE n == IF row = None THEN 0 ELSE row.retransmits
<1>1. n \in Nat
  BY DEF ConnectionStats
<1>2. CASE e \in [kind : {"StateChange"}, key : ConnectionKey, state : AnyState, own : Tgids \cup {"softirq"}]
  <2>1. CASE e.state = TCP_CLOSE
    BY <1>2, <2>1 DEF After
  <2>2. CASE e.state # TCP_CLOSE
    <3>1. After(row, e) = [state |-> e.state, retransmits |-> n]
      BY <1>2, <2>2 DEF After
    <3> QED
      BY <1>1, <1>2, <2>2, <3>1 DEF ConnectionStats, AnyState
  <2> QED
    BY <2>1, <2>2
<1>3. CASE e \in [kind : {"Retransmit"}, key : ConnectionKey, state : States, own : Tgids \cup {"softirq"}]
  <2>1. After(row, e) = [state |-> e.state, retransmits |-> n + 1]
    BY <1>3 DEF After
  <2>2. e.state # TCP_CLOSE
    BY <1>3, NetTraceAssumption
  <2> QED
    BY <1>1, <1>3, <2>1, <2>2 DEF ConnectionStats
<1> QED
  BY <1>2, <1>3 DEF NetEvent

LEMMA DrainNetStep ==
  ASSUME IInv, DrainNet
  PROVE  IInv'
<1> USE DEF IInv
<1> DEFINE e == Head(net_events)
<1>1. net_events \in Seq(NetEvent) /\ net_events # <<>>
  BY DEF DrainNet, TypeOK
<1>2. e \in NetEvent
  BY <1>1
<1>3. /\ net_events' = Tail(net_events) /\ net_events' \in Seq(NetEvent)
      /\ Len(net_events') = Len(net_events) - 1
      /\ \A i \in 1..Len(net_events') : net_events'[i] = net_events[i + 1]
  BY <1>1, HeadTailProperties DEF DrainNet
<1>4. Len(net_events) \in Nat
  BY <1>1
<1>5. connections' \in [ConnectionKey -> ConnectionStats \cup {None}]
  <2>1. connections' = [connections EXCEPT ![e.key] = After(connections[e.key], e)]
    BY DEF DrainNet
  <2>2. e.key \in ConnectionKey
    BY <1>2 DEF NetEvent
  <2> HIDE DEF e
  <2>3. connections[e.key] \in ConnectionStats \cup {None}
    BY <2>2 DEF TypeOK
  <2>4. After(connections[e.key], e) \in ConnectionStats \cup {None}
    BY <1>2, <2>3, AfterType
  <2> QED
    BY <2>1, <2>4 DEF TypeOK
<1>6. TypeOK'
  <2>1. lost' \in BOOLEAN /\ missed' \in BOOLEAN
    BY DEF DrainNet, TypeOK
  <2>2. Len(net_events') <= RingCap
    BY <1>3, <1>4, NetTraceAssumption DEF TypeOK
  <2> QED
    BY <1>3, <1>5, <2>1, <2>2 DEF DrainNet, TypeOK
<1>7. TrackedAreOpen'
  BY DEF DrainNet, TrackedAreOpen, Live
<1>8. OnlyOwnSockets'
  BY <1>3, <1>4 DEF DrainNet, OnlyOwnSockets, Live
<1> QED
  BY <1>6, <1>7, <1>8 DEF DrainNet

-----------------------------------------------------------------------------
LEMMA InvarianceStep == IInv /\ [Next]_vars => IInv'
<1>1. ASSUME IInv, [Next]_vars PROVE IInv'
  <2>1. CASE \E a \in Addrs, p \in Tgids, k \in ConnectionKey : NewSocket(a, p, k)
    BY <1>1, <2>1, NewSocketStep
  <2>2. CASE \E a \in Addrs : FreeSocket(a)
    BY <1>1, <2>2, FreeSocketStep
  <2>3. CASE \E a \in Addrs, s \in AnyState :
               \E task \in {sock[a].owner} \cup SoftirqTasks : NetState(a, s, task)
    BY <1>1, <2>3, NetStateStep
  <2>4. CASE \E a \in Addrs : NetRetransmit(a)
    BY <1>1, <2>4, NetRetransmitStep
  <2>5. CASE DrainNet
    BY <1>1, <2>5, DrainNetStep
  <2>6. CASE UNCHANGED vars
    <3>1. TypeOK'
      <4>1. lost' \in BOOLEAN /\ missed' \in BOOLEAN
        BY <1>1, <2>6 DEF IInv, TypeOK, vars
      <4> QED
        BY <1>1, <2>6, <4>1 DEF IInv, TypeOK, vars
    <3> QED
      BY <1>1, <2>6, <3>1 DEF IInv, TrackedAreOpen, OnlyOwnSockets, vars, Live
  <2> QED
    BY <1>1, <2>1, <2>2, <2>3, <2>4, <2>5, <2>6 DEF Next
<1> QED
  BY <1>1

(* The inductive invariant holds throughout.                               *)
THEOREM Invariance == Spec => []IInv
BY InitIInv, InvarianceStep, PTL DEF Spec

(* Type correctness.                                                       *)
THEOREM TypeCorrect == Spec => []TypeOK
<1>1. IInv => TypeOK
  BY DEF IInv
<1> QED
  BY <1>1, Invariance, PTL

(* However addresses are reused and however full TRACKED_SOCKS is, only    *)
(* the target's sockets are tracked and reported, and those that a softirq *)
(* on top of a target task was the first to touch, as long as NET_EVENTS   *)
(* did not overflow.                                                       *)
THEOREM OwnSocketsCorrect == Spec => []OnlyOwnSockets
<1>1. IInv => OnlyOwnSockets
  BY DEF IInv
<1> QED
  BY <1>1, Invariance, PTL

-----------------------------------------------------------------------------
(* TableMatchesSockets.  The rows that the records in the ring will make   *)
(* of the table already match the sockets.                                 *)

Tables == [ConnectionKey -> ConnectionStats \cup {None}]

Apply(c, e) == [c EXCEPT ![e.key] = After(c[e.key], e)]

DrainStep == {x \in Tables \X NetEvent \X Tables : x[3] = Apply(x[1], x[2])}

(* Once the ring is drained, the table will be c.                          *)
Ahead(c) == LeadsTo(DrainStep, net_events, connections, c)

(* The kernel gives no two sockets the same local port and peer.           *)
KeysDiffer ==
  \A a, b \in Addrs :
    Live(a) /\ Live(b) /\ sock[a].key = sock[b].key /\ sock[a].key.sport # 0 => a = b

(* A tracked socket is open; one that is reported is tracked.              *)
ReportedAreTracked ==
  /\ \A a \in TRACKED_SOCKS : Live(a) /\ sock[a].state # TCP_CLOSE
  /\ \A a \in Addrs : shown[a] # None => a \in TRACKED_SOCKS /\ sock[a].key.sport # 0

Reported(a, k) == a \in TRACKED_SOCKS /\ sock[a].key = k /\ shown[a] # None

Matches(c) ==
  /\ c \in Tables
  /\ \A k \in ConnectionKey : k.sport # 0 =>
       /\ \A a \in Addrs : Reported(a, k) =>
            c[k] = [state |-> sock[a].state, retransmits |-> shown[a]]
       /\ (\A a \in Addrs : ~Reported(a, k)) => c[k] = None

Followed ==
  /\ KeysDiffer
  /\ ~lost /\ ~missed => ReportedAreTracked /\ \E c : Ahead(c) /\ Matches(c)

(* A step that neither outputs a record nor touches a tracked socket.      *)
LEMMA FollowedQuiet ==
  ASSUME TypeOK, ReportedAreTracked, UNCHANGED <<TRACKED_SOCKS, net_events, connections>>,
         \A a \in TRACKED_SOCKS : sock'[a] = sock[a] /\ shown'[a] = shown[a],
         \A a \in Addrs : a \notin TRACKED_SOCKS => shown'[a] = None,
         NEW c, Ahead(c), Matches(c)
  PROVE  ReportedAreTracked' /\ Ahead(c)' /\ Matches(c)'
<1>1. TRACKED_SOCKS \subseteq Addrs
  BY DEF TypeOK
<1>2. \A a \in Addrs : shown[a] # None => a \in TRACKED_SOCKS
  BY DEF ReportedAreTracked
<1>3. ReportedAreTracked'
  BY <1>1, <1>2 DEF ReportedAreTracked, Live
<1>4. \A a \in Addrs : \A k : /\ Reported(a, k)' <=> Reported(a, k)
                              /\ Reported(a, k) => sock'[a] = sock[a] /\ shown'[a] = shown[a]
  BY <1>1, <1>2 DEF Reported
<1>5. Matches(c)'
  BY <1>4 DEF Matches
<1>6. Ahead(c)'
  BY DEF Ahead
<1> QED
  BY <1>3, <1>5, <1>6

(* A record that is output, of either program: a change to state s, or a   *)
(* retransmission in state s, which counts d.                              *)
LEMMA FollowedOutput ==
  ASSUME TypeOK, KeysDiffer, ReportedAreTracked, NEW a \in Addrs, Live(a),
         NEW e \in NetEvent, Output(e), connections' = connections,
         e.key = sock[a].key,
         Shows(a, e.state, IF e.kind = "Retransmit" THEN 1 ELSE 0),
         sock'[a] # None, sock'[a].state = e.state,
         sock[a].key.sport # 0 => sock'[a].key = sock[a].key,
         \A b \in Addrs : b # a => sock'[b] = sock[b],
         TRACKED_SOCKS' \subseteq Addrs,
         \A b \in Addrs : b # a => (b \in TRACKED_SOCKS' <=> b \in TRACKED_SOCKS),
         a \in TRACKED_SOCKS' <=> e.state # TCP_CLOSE,
         NEW c, Ahead(c), Matches(c)
  PROVE  ReportedAreTracked' /\ \E c2 : Ahead(c2)' /\ Matches(c2)'
<1> DEFINE s == e.state
           d == IF e.kind = "Retransmit" THEN 1 ELSE 0
           k0 == e.key
           n == IF c[k0] = None THEN 0 ELSE c[k0].retransmits
           v == IF s = TCP_CLOSE THEN None
                ELSE IF shown[a] # None THEN shown[a] + d
                ELSE IF k0.sport # 0 THEN d ELSE None
<1>t. /\ net_events \in Seq(NetEvent) /\ shown \in [Addrs -> Nat \cup {None}]
      /\ c \in Tables /\ k0 \in ConnectionKey
      /\ TRACKED_SOCKS \subseteq Addrs
  BY DEF TypeOK, Matches, NetEvent
<1>1. shown'[a] = v /\ \A b \in Addrs : b # a => shown'[b] = shown[b]
  BY <1>t DEF Shows
<1>2. shown[a] # None => (shown[a] \in Nat /\ v # None) \/ s = TCP_CLOSE
  <2>1. d \in Nat
    OBVIOUS
  <2> HIDE DEF d
  <2>2. shown[a] # None => shown[a] + d \in Nat
    BY <1>t, <2>1
  <2> QED
    BY <1>t, <2>2, NoneAssumption
<1>3. PICK c2 : c2 = Apply(c, e)
  OBVIOUS
<1>4. /\ c2 \in Tables /\ <<c, e, c2>> \in DrainStep
      /\ c2[k0] = IF s = TCP_CLOSE THEN None ELSE [state |-> s, retransmits |-> n + d]
      /\ \A k \in ConnectionKey : k # k0 => c2[k] = c[k]
  <2>1. c[k0] \in ConnectionStats \cup {None}
    BY <1>t DEF Tables
  <2>2. /\ After(c[k0], e) \in ConnectionStats \cup {None}
        /\ After(c[k0], e) = IF s = TCP_CLOSE THEN None
                             ELSE [state |-> s, retransmits |-> n + d]
    BY <2>1, AfterType
  <2>3. c2 = [c EXCEPT ![k0] = After(c[k0], e)]
    BY <1>3 DEF Apply
  <2> HIDE DEF s, d, n, k0
  <2>4. c2 \in Tables /\ c2[k0] = After(c[k0], e) /\ \A k \in ConnectionKey : k # k0 => c2[k] = c[k]
    BY <1>t, <2>2, <2>3 DEF Tables
  <2>5. <<c, e, c2>> \in DrainStep
    BY <1>3, <1>t, <2>4 DEF DrainStep
  <2> QED
    BY <2>2, <2>4, <2>5
<1>5. Ahead(c2)'
  <2>1. LeadsTo(DrainStep, Append(net_events, e), connections, c2)
    BY <1>4, <1>t, LeadsToAppend DEF Ahead
  <2> QED
    BY <2>1 DEF Ahead, Output
<1>6. ReportedAreTracked'
  <2>1. \A b \in TRACKED_SOCKS' : Live(b)' /\ sock'[b].state # TCP_CLOSE
    BY DEF ReportedAreTracked, Live
  <2>2. ASSUME NEW b \in Addrs, shown'[b] # None
        PROVE  b \in TRACKED_SOCKS' /\ sock'[b].key.sport # 0
    <3>1. CASE b # a
      BY <1>1, <2>2, <3>1 DEF ReportedAreTracked
    <3>2. CASE b = a
      <4>1. s # TCP_CLOSE
        BY <1>1, <2>2, <3>2
      <4>2. k0.sport # 0
        BY <1>1, <2>2, <3>2, <4>1 DEF ReportedAreTracked
      <4> QED
        BY <3>2, <4>1, <4>2
    <3> QED
      BY <3>1, <3>2
  <2> QED
    BY <2>1, <2>2 DEF ReportedAreTracked
<1>7. \A b \in Addrs : b # a => \A k : /\ Reported(b, k)' <=> Reported(b, k)
                                       /\ sock'[b] = sock[b] /\ shown'[b] = shown[b]
  BY <1>1 DEF Reported
<1>8. ASSUME NEW k \in ConnectionKey, k.sport # 0, k # k0
      PROVE  /\ \A b \in Addrs : Reported(b, k)' =>
                  c2[k] = [state |-> sock'[b].state, retransmits |-> shown'[b]]
             /\ (\A b \in Addrs : ~Reported(b, k)') => c2[k] = None
  <2>1. c2[k] = c[k]
    BY <1>4, <1>8
  <2>2. ~Reported(a, k)
    BY <1>8 DEF Reported
  <2>3. ~Reported(a, k)'
    <3> SUFFICES ASSUME Reported(a, k)' PROVE FALSE
      OBVIOUS
    <3>1. shown'[a] # None /\ sock'[a].key = k
      BY DEF Reported
    <3>2. k0.sport = 0
      BY <1>8, <3>1
    <3>3. shown[a] = None
      BY <3>2 DEF ReportedAreTracked
    <3> QED
      BY <1>1, <3>1, <3>2, <3>3
  <2> QED
    BY <1>7, <1>8, <2>1, <2>2, <2>3 DEF Matches
<1>9. ASSUME k0.sport # 0
      PROVE  /\ \A b \in Addrs : Reported(b, k0)' =>
                  c2[k0] = [state |-> sock'[b].state, retransmits |-> shown'[b]]
             /\ (\A b \in Addrs : ~Reported(b, k0)') => c2[k0] = None
  <2>1. \A b \in Addrs : b # a => ~Reported(b, k0) /\ ~Reported(b, k0)'
    <3>1. \A b \in Addrs : b # a => ~Reported(b, k0)
      BY <1>9 DEF Reported, ReportedAreTracked, KeysDiffer
    <3> QED
      BY <1>7, <3>1
  <2>2. CASE s = TCP_CLOSE
    <3>1. ~Reported(a, k0)' /\ c2[k0] = None
      BY <1>4, <2>2 DEF Reported
    <3> QED
      BY <2>1, <3>1
  <2>3. CASE s # TCP_CLOSE
    <3>1. shown'[a] = n + d
      <4>1. CASE shown[a] = None
        <5>1. \A b \in Addrs : ~Reported(b, k0)
          BY <2>1, <4>1 DEF Reported
        <5>2. c[k0] = None
          BY <1>9, <1>t, <5>1 DEF Matches
        <5> QED
          BY <1>1, <1>9, <2>3, <4>1, <5>2
      <4>2. CASE shown[a] # None
        <5>1. Reported(a, k0)
          BY <4>2 DEF Reported, ReportedAreTracked
        <5>2. c[k0] = [state |-> sock[a].state, retransmits |-> shown[a]]
          BY <1>9, <1>t, <5>1 DEF Matches
        <5>3. c[k0] # None
          <6>1. sock[a].state \in States /\ shown[a] \in Nat
            BY <1>t, <4>2, <5>1 DEF Reported, ReportedAreTracked, TypeOK, Live, Socket, AnyState
          <6>2. c[k0] \in ConnectionStats
            BY <5>2, <6>1 DEF ConnectionStats
          <6> QED
            BY <6>2, NoneAssumption
        <5>4. n = shown[a]
          BY <5>2, <5>3
        <5> HIDE DEF n, d
        <5> QED
          BY <1>1, <2>3, <4>2, <5>4
      <4> QED
        BY <4>1, <4>2
    <3>2. c2[k0] = [state |-> sock'[a].state, retransmits |-> shown'[a]]
      BY <1>4, <2>3, <3>1
    <3>3. Reported(a, k0)'
      <4>1. shown'[a] # None
        <5>1. shown[a] = None => shown'[a] = d
          BY <1>1, <1>9, <2>3
        <5>2. d \in Nat
          OBVIOUS
        <5>3. shown[a] # None => shown'[a] # None
          BY <1>1, <1>2, <2>3
        <5> HIDE DEF d
        <5> QED
          BY <5>1, <5>2, <5>3, NoneAssumption
      <4> QED
        BY <1>9, <2>3, <4>1 DEF Reported
    <3> QED
      BY <2>1, <3>2, <3>3
  <2> QED
    BY <2>2, <2>3
<1>10. Matches(c2)'
  BY <1>4, <1>8, <1>9 DEF Matches
<1> QED
  BY <1>5, <1>6, <1>10

(* What Becomes does to the key.                                           *)
LEMMA BecomesKey ==
  ASSUME TypeOK, NEW a \in Addrs, Live(a), NEW s \in AnyState, Becomes(a, s)
  PROVE  /\ sock'[a].key.sport # 0
         /\ sock[a].key.sport # 0 => sock'[a].key = sock[a].key
         /\ sock[a].key.sport = 0 =>
              \A b \in Addrs : Live(b) => sock[b].key # sock'[a].key
<1>1. sock[a] \in Socket
  BY DEF TypeOK, Live
<1> DEFINE K(port) == [sock[a].key EXCEPT !.sport = port]
<1>2. PICK port \in Ports :
        /\ IF sock[a].key.sport = 0 THEN Free(K(port)) ELSE K(port) = sock[a].key
        /\ sock' = [sock EXCEPT ![a] = [owner |-> sock[a].owner, key |-> K(port), state |-> s]]
  BY DEF Becomes
<1>3. K(port).sport = port /\ port # 0
  BY <1>1, NetTraceAssumption DEF Socket, ConnectionKey
<1> HIDE DEF K
<1>4. sock'[a].key = K(port)
  BY <1>2 DEF TypeOK
<1> QED
  BY <1>2, <1>3, <1>4 DEF Free

LEMMA KeysDifferStep == TypeOK /\ KeysDiffer /\ [Next]_vars => KeysDiffer'
<1> SUFFICES ASSUME TypeOK, KeysDiffer, [Next]_vars PROVE KeysDiffer'
  OBVIOUS
<1>1. ASSUME NEW a \in Addrs, NEW p \in Tgids, NEW k \in ConnectionKey, NewSocket(a, p, k)
      PROVE  KeysDiffer'
  <2>1. /\ sock'[a].key = k /\ \A b \in Addrs : b # a => sock'[b] = sock[b]
        /\ k.sport # 0 => \A b \in Addrs : Live(b) => sock[b].key # k
    BY <1>1 DEF NewSocket, TypeOK, Free
  <2> QED
    BY <2>1 DEF KeysDiffer, Live
<1>2. ASSUME NEW a \in Addrs, FreeSocket(a) PROVE KeysDiffer'
  <2>1. sock'[a] = None /\ \A b \in Addrs : b # a => sock'[b] = sock[b]
    BY <1>2 DEF FreeSocket, TypeOK
  <2> QED
    BY <2>1 DEF KeysDiffer, Live
<1>3. ASSUME NEW a \in Addrs, NEW s \in AnyState, NEW task, NetState(a, s, task)
      PROVE  KeysDiffer'
  <2>1. Live(a) /\ Becomes(a, s)
    BY <1>3 DEF NetState
  <2>2. /\ \A b \in Addrs : b # a => sock'[b] = sock[b]
        /\ sock'[a].key.sport # 0
        /\ sock[a].key.sport # 0 => sock'[a].key = sock[a].key
        /\ sock[a].key.sport = 0 =>
              \A b \in Addrs : Live(b) => sock[b].key # sock'[a].key
    BY <2>1, BecomesSockets, BecomesKey
  <2> QED
    BY <2>1, <2>2 DEF KeysDiffer, Live
<1>4. CASE UNCHANGED sock
  BY <1>4 DEF KeysDiffer, Live
<1> QED
  BY <1>1, <1>2, <1>3, <1>4 DEF Next, NetRetransmit, DrainNet, vars

LEMMA FollowedStep == IInv /\ Followed /\ [Next]_vars => Followed'
<1> SUFFICES ASSUME IInv, Followed, [Next]_vars PROVE Followed'
  OBVIOUS
<1>t. TypeOK /\ TypeOK' /\ KeysDiffer
  <2>1. IInv'
    BY InvarianceStep
  <2> QED
    BY <2>1 DEF IInv, Followed
<1>k. KeysDiffer'
  BY <1>t, KeysDifferStep
<1> SUFFICES ASSUME ~lost', ~missed'
             PROVE  ReportedAreTracked' /\ \E c : Ahead(c)' /\ Matches(c)'
  BY <1>k DEF Followed
<1>1. ~lost /\ ~missed
  <2>1. ASSUME NEW a, NEW s, NEW task, NetState(a, s, task) PROVE ~lost /\ ~missed
    <3>1. lost => lost'
      BY <2>1 DEF NetState, Reports
    <3>2. missed => missed'
      BY <2>1 DEF NetState, Reports
    <3> QED
      BY <3>1, <3>2
  <2>2. ASSUME NEW a, NetRetransmit(a) PROVE ~lost /\ ~missed
    BY <2>2 DEF NetRetransmit
  <2>3. CASE UNCHANGED <<lost, missed>>
    BY <2>3
  <2> QED
    BY <2>1, <2>2, <2>3 DEF Next, NewSocket, FreeSocket, DrainNet, vars
<1>2. ReportedAreTracked /\ \E c : Ahead(c) /\ Matches(c)
  BY <1>1 DEF Followed
<1>3. PICK c : Ahead(c) /\ Matches(c)
  BY <1>2
<1>v. /\ TRACKED_SOCKS \subseteq Addrs /\ shown \in [Addrs -> Nat \cup {None}]
      /\ sock \in [Addrs -> Socket \cup {None}] /\ TRACKED_SOCKS' \subseteq Addrs
  BY <1>t DEF TypeOK
<1>u. \A a \in Addrs : a \notin TRACKED_SOCKS => shown[a] = None
  BY <1>2 DEF ReportedAreTracked
<1> DEFINE Goal == ReportedAreTracked' /\ \E c2 : Ahead(c2)' /\ Matches(c2)'
<1>4. ASSUME NEW a \in Addrs, NEW p \in Tgids, NEW k \in ConnectionKey, NewSocket(a, p, k)
      PROVE  Goal
  <2>1. a \notin TRACKED_SOCKS
    BY <1>2, <1>4 DEF ReportedAreTracked, NewSocket
  <2>2. /\ UNCHANGED <<TRACKED_SOCKS, net_events, connections, shown>>
        /\ \A b \in TRACKED_SOCKS : sock'[b] = sock[b]
    BY <1>4, <1>v, <2>1 DEF NewSocket
  <2> QED
    BY <1>2, <1>3, <1>t, <1>u, <2>2, FollowedQuiet
<1>5. ASSUME NEW a \in Addrs, FreeSocket(a) PROVE Goal
  <2>1. a \notin TRACKED_SOCKS
    BY <1>2, <1>5 DEF ReportedAreTracked, FreeSocket
  <2>2. /\ UNCHANGED <<TRACKED_SOCKS, net_events, connections>>
        /\ \A b \in TRACKED_SOCKS : sock'[b] = sock[b] /\ shown'[b] = shown[b]
        /\ \A b \in Addrs : b \notin TRACKED_SOCKS => shown'[b] = None
    BY <1>5, <1>u, <1>v, <2>1 DEF FreeSocket
  <2> QED
    BY <1>2, <1>3, <1>t, <2>2, FollowedQuiet
<1>6. ASSUME NEW a \in Addrs, NEW s \in AnyState, NEW task, NetState(a, s, task)
      PROVE  Goal
  <2>1. /\ Live(a) /\ Becomes(a, s) /\ connections' = connections
        /\ \A b \in Addrs : b # a => sock'[b] = sock[b]
        /\ sock'[a] # None /\ sock'[a].state = s
        /\ sock[a].key.sport # 0 => sock'[a].key = sock[a].key
    <3>1. Live(a) /\ Becomes(a, s) /\ connections' = connections
      BY <1>6 DEF NetState
    <3> QED
      BY <1>t, <3>1, BecomesSockets, BecomesKey
  <2>2. CASE /\ a \notin TRACKED_SOCKS /\ turned_away(task)
             /\ UNCHANGED <<TRACKED_SOCKS, net_events, shown, taken, lost, missed>>
    <3>1. UNCHANGED <<TRACKED_SOCKS, net_events, connections, shown>>
      BY <2>1, <2>2
    <3>2. \A b \in TRACKED_SOCKS : sock'[b] = sock[b]
      BY <1>v, <2>1, <2>2
    <3> QED
      BY <1>2, <1>3, <1>t, <1>u, <3>1, <3>2, FollowedQuiet
  <2>3. CASE Reports(a, s)
    <3> DEFINE tracked == IF a \in TRACKED_SOCKS THEN TRACKED_SOCKS ELSE Track(a)
    <3>1. /\ missed' = (missed \/ a \notin tracked)
          /\ \/ /\ HasRoom
                /\ Output(Event(a, "StateChange", s))
                /\ TRACKED_SOCKS' = UntrackOnClose(a, s, tracked)
                /\ Shows(a, s, 0)
             \/ lost' = TRUE
      BY <2>3 DEF Reports
    <3>2. /\ a \in tracked
          /\ \A b \in Addrs : b # a => (b \in tracked <=> b \in TRACKED_SOCKS)
      BY <3>1 DEF Track
    <3> HIDE DEF tracked
    <3>3. /\ Output(Event(a, "StateChange", s))
          /\ TRACKED_SOCKS' = UntrackOnClose(a, s, tracked)
          /\ Shows(a, s, 0)
      BY <3>1
    <3>4. /\ a \in TRACKED_SOCKS' <=> s # TCP_CLOSE
          /\ \A b \in Addrs : b # a => (b \in TRACKED_SOCKS' <=> b \in TRACKED_SOCKS)
      BY <3>2, <3>3 DEF UntrackOnClose
    <3>5. PICK e : e = Event(a, "StateChange", s)
      OBVIOUS
    <3>6. e \in NetEvent /\ e.key = sock[a].key /\ e.state = s /\ e.kind = "StateChange"
      <4>1. sock[a] \in Socket
        BY <1>v, <2>1 DEF Live
      <4>2. e \in NetEvent
        BY <3>5, <4>1, EventType
      <4> QED
        BY <3>5, <4>2 DEF Event
    <3>7. Output(e) /\ Shows(a, e.state, IF e.kind = "Retransmit" THEN 1 ELSE 0)
      BY <3>3, <3>5, <3>6
    <3> QED
      BY <1>2, <1>3, <1>t, <1>v, <2>1, <3>4, <3>6, <3>7, FollowedOutput
  <2> QED
    BY <1>6, <2>2, <2>3, Zenon DEF NetState
<1>7. ASSUME NEW a \in Addrs, NetRetransmit(a) PROVE Goal
  <2>1. Live(a) /\ sock[a].state # TCP_CLOSE /\ UNCHANGED <<sock, TRACKED_SOCKS, connections>>
    BY <1>7 DEF NetRetransmit
  <2>2. CASE UNCHANGED <<net_events, shown>>
    BY <1>2, <1>3, <1>t, <1>u, <2>1, <2>2, FollowedQuiet
  <2>3. CASE /\ a \in TRACKED_SOCKS
             /\ Output(Event(a, "Retransmit", sock[a].state))
             /\ Shows(a, sock[a].state, 1)
    <3>1. sock[a] \in Socket /\ sock[a].state \in States
      BY <1>v, <2>1 DEF Live, Socket, AnyState
    <3>2. PICK e : e = Event(a, "Retransmit", sock[a].state)
      OBVIOUS
    <3>3. e \in NetEvent /\ e.key = sock[a].key /\ e.state = sock[a].state /\ e.kind = "Retransmit"
      <4>1. e \in NetEvent
        BY <3>1, <3>2, EventType
      <4> QED
        BY <3>2, <4>1 DEF Event
    <3>4. Output(e) /\ Shows(a, e.state, IF e.kind = "Retransmit" THEN 1 ELSE 0)
      BY <2>3, <3>2, <3>3
    <3>5. sock'[a] # None /\ sock'[a].state = e.state /\ sock' = sock
      BY <2>1, <3>3 DEF Live
    <3>6. a \in TRACKED_SOCKS' <=> e.state # TCP_CLOSE
      BY <2>1, <2>3, <3>3
    <3> QED
      BY <1>2, <1>3, <1>t, <1>v, <2>1, <3>3, <3>4, <3>5, <3>6, FollowedOutput
  <2> QED
    BY <1>7, <2>2, <2>3 DEF NetRetransmit
<1>8. CASE DrainNet
  <2>1. /\ net_events \in Seq(NetEvent) /\ net_events # << >> /\ net_events' = Tail(net_events)
        /\ connections' = Apply(connections, Head(net_events))
        /\ UNCHANGED <<sock, TRACKED_SOCKS, shown>>
    BY <1>8, <1>t DEF DrainNet, Apply, TypeOK
  <2>2. PICK u : /\ <<connections, Head(net_events), u>> \in DrainStep
                 /\ LeadsTo(DrainStep, Tail(net_events), u, c)
    BY <1>3, <2>1, LeadsToDrain DEF Ahead
  <2>3. u = connections'
    BY <2>1, <2>2 DEF DrainStep
  <2>4. Ahead(c)'
    BY <2>1, <2>2, <2>3 DEF Ahead
  <2>5. ReportedAreTracked'
    BY <1>2, <2>1 DEF ReportedAreTracked, Live
  <2>6. Matches(c)'
    BY <1>3, <2>1 DEF Matches, Reported
  <2> QED
    BY <2>4, <2>5, <2>6
<1>9. CASE UNCHANGED vars
  <2>1. UNCHANGED <<sock, TRACKED_SOCKS, net_events, connections, shown>>
    BY <1>9 DEF vars
  <2> QED
    BY <1>2, <1>3, <1>t, <1>u, <2>1, FollowedQuiet
<1> QED
  BY <1>4, <1>5, <1>6, <1>7, <1>8, <1>9 DEF Next

LEMMA FollowedInit == Init => Followed
<1> SUFFICES ASSUME Init PROVE Followed
  OBVIOUS
<1>1. Ahead(connections)
  BY LeadsToEmpty DEF Init, Ahead
<1>2. Matches(connections)
  BY DEF Init, Matches, Reported, Tables
<1>3. KeysDiffer /\ ReportedAreTracked
  BY DEF Init, KeysDiffer, ReportedAreTracked, Live
<1> QED
  BY <1>1, <1>2, <1>3 DEF Followed

(* The connection table shows the tracked sockets, each in its present     *)
(* state and with its exact number of retransmissions, once the ring is    *)
(* drained and as long as nothing overflowed.                              *)
THEOREM TableCorrect == Spec => []TableMatchesSockets
<1>1. Spec => [](IInv /\ Followed)
  BY FollowedInit, FollowedStep, Invariance, PTL DEF Spec
<1>2. IInv /\ Followed => TableMatchesSockets
  <2> SUFFICES ASSUME IInv, Followed, ~lost, ~missed, net_events = << >>,
                      NEW k \in ConnectionKey, k.sport # 0
               PROVE  LET of == {a \in TRACKED_SOCKS : sock[a].key = k /\ shown[a] # None}
                      IN  connections[k] = IF of = {} THEN None
                                           ELSE LET a == CHOOSE a \in of : TRUE
                                                IN  [state |-> sock[a].state,
                                                     retransmits |-> shown[a]]
    BY DEF TableMatchesSockets
  <2> DEFINE of == {a \in TRACKED_SOCKS : sock[a].key = k /\ shown[a] # None}
  <2>1. PICK c : Ahead(c) /\ Matches(c)
    BY DEF Followed
  <2>2. c = connections
    BY <2>1, LeadsToEmpty DEF Ahead
  <2>3. TRACKED_SOCKS \subseteq Addrs
    BY DEF IInv, TypeOK
  <2>4. CASE of = {}
    <3>1. connections[k] = None
      BY <2>1, <2>2, <2>3, <2>4 DEF Matches, Reported
    <3> QED
      BY <2>4, <3>1
  <2>5. CASE of # {}
    <3> DEFINE a == CHOOSE a \in of : TRUE
    <3>1. a \in of
      BY <2>5
    <3>2. Reported(a, k) /\ a \in Addrs
      BY <2>3, <3>1 DEF Reported
    <3> HIDE DEF a
    <3>3. connections[k] = [state |-> sock[a].state, retransmits |-> shown[a]]
      BY <2>1, <2>2, <3>2 DEF Matches
    <3> QED
      BY <2>5, <3>3 DEF a
  <2> QED
    BY <2>4, <2>5
<1> QED
  BY <1>1, <1>2, PTL

=============================================================================
