------------------------------ MODULE NetTrace ------------------------------
(***************************************************************************)
(* FR3, the network path: the inet_sock_set_state and tcp_retransmit_skb   *)
(* programs of peekbeam-ebpf, the TRACKED_SOCKS map with which they        *)
(* recognise the target's sockets outside its own context, the NET_EVENTS  *)
(* ring, and the drain_net_events closure of peekbeam's main.rs that keeps *)
(* the connection table.                                                   *)
(*                                                                         *)
(* Both tracepoints fire under the socket's lock, so a program is one      *)
(* step.  The kernel's sockets are external: their addresses are reused,   *)
(* a state change runs in its owner's context or in softirq on top of      *)
(* whatever task was running, and a connecting socket gets its local port  *)
(* only after its change to SYN_SENT has been traced.                      *)
(*                                                                         *)
(* matches_target looks at the current task's cgroup at every event.       *)
(* Movable are the processes that may be moved out of the target's cgroup  *)
(* and back, at any time: their sockets belong to the target, whichever    *)
(* event it is at which they are first recognised.                         *)
(***************************************************************************)
EXTENDS Integers, Sequences, FiniteSets

CONSTANTS
  Addrs,         \* addresses of struct sock
  Tgids,         \* processes that own sockets
  Target,        \* those that matches_target accepts, always or at times
  Movable,       \* those of them that it accepts at times: --container only
  SoftirqTasks,  \* tasks a softirq may find running
  Ports,         \* local ports; 0 is "none yet"
  Peers,         \* the rest of a connection's key: family, addresses, dport
  States,        \* TCP states other than TCP_CLOSE
  TrackedCap,    \* entries of TRACKED_SOCKS
  RingCap,       \* records NET_EVENTS holds before output fails
  MaxFires,      \* bound: how many times a tracepoint fires
  TCP_CLOSE,
  None           \* no socket, no row

ASSUME NetTraceAssumption ==
  /\ Target \subseteq Tgids /\ Movable \subseteq Target
  /\ Ports \subseteq Nat \ {0}
  /\ TrackedCap \in Nat /\ RingCap \in Nat \ {0} /\ MaxFires \in Nat
  /\ TCP_CLOSE \notin States
  /\ "softirq" \notin Tgids

VARIABLES
  sock,           \* external: the socket at each address
  TRACKED_SOCKS,
  net_events,     \* the NET_EVENTS ring
  connections,    \* ConnMap: key -> row or None
  shown,          \* history: retransmissions of the socket since the first
                  \* record with its whole key, None before that record
  taken,          \* history: the sockets that were recognised in a softirq
  fires,          \* how many tracepoints have fired
  lost,           \* history: a record did not fit into NET_EVENTS
  missed          \* history: a socket did not fit into TRACKED_SOCKS

vars == <<sock, TRACKED_SOCKS, net_events, connections, shown, taken, fires, lost, missed>>

-----------------------------------------------------------------------------
ConnectionKey == [sport : Ports \cup {0}, peer : Peers]

AnyState == States \cup {TCP_CLOSE}

Socket == [owner : Tgids, key : ConnectionKey, state : AnyState]

(* own is history, which no event carries: the socket's owner, or that it  *)
(* was recognised in a softirq.                                            *)
NetEvent ==
  [kind : {"StateChange"}, key : ConnectionKey, state : AnyState, own : Tgids \cup {"softirq"}]
  \cup [kind : {"Retransmit"}, key : ConnectionKey, state : States, own : Tgids \cup {"softirq"}]

ConnectionStats == [state : States, retransmits : Nat]

ASSUME NoneAssumption == None \notin Socket \cup ConnectionStats \cup Nat

TypeOK ==
  /\ sock \in [Addrs -> Socket \cup {None}]
  /\ TRACKED_SOCKS \subseteq Addrs /\ Cardinality(TRACKED_SOCKS) <= TrackedCap
  /\ net_events \in Seq(NetEvent) /\ Len(net_events) <= RingCap
  /\ connections \in [ConnectionKey -> ConnectionStats \cup {None}]
  /\ shown \in [Addrs -> Nat \cup {None}]
  /\ taken \subseteq Addrs
  /\ fires \in 0..MaxFires
  /\ lost \in BOOLEAN /\ missed \in BOOLEAN

Init ==
  /\ sock = [a \in Addrs |-> None]
  /\ TRACKED_SOCKS = {}
  /\ net_events = <<>>
  /\ connections = [k \in ConnectionKey |-> None]
  /\ shown = [a \in Addrs |-> None]
  /\ taken = {}
  /\ fires = 0
  /\ lost = FALSE /\ missed = FALSE

-----------------------------------------------------------------------------
(* The kernel's sockets (external).                                        *)

Live(a) == sock[a] # None

Free(k) == \A a \in Addrs : Live(a) => sock[a].key # k

(* A new socket: bound to a port, accepted from a listener, or neither.    *)
NewSocket(a, p, k) ==
  /\ ~Live(a)
  /\ k.sport # 0 => Free(k)
  /\ sock' = [sock EXCEPT ![a] = [owner |-> p, key |-> k, state |-> TCP_CLOSE]]
  /\ UNCHANGED <<TRACKED_SOCKS, net_events, connections, shown, taken, fires, lost,
                 missed>>

(* A closed socket is freed; its address may be used again.                *)
FreeSocket(a) ==
  /\ Live(a) /\ sock[a].state = TCP_CLOSE
  /\ sock' = [sock EXCEPT ![a] = None]
  /\ shown' = [shown EXCEPT ![a] = None]
  /\ taken' = taken \ {a}
  /\ UNCHANGED <<TRACKED_SOCKS, net_events, connections, fires, lost, missed>>

(* Its state changes; a local port it does not have yet is chosen.         *)
Becomes(a, state) ==
  /\ sock[a].state # state
  /\ \E port \in Ports :
       LET k == [sock[a].key EXCEPT !.sport = port]
       IN  /\ IF sock[a].key.sport = 0 THEN Free(k) ELSE k = sock[a].key
           /\ sock' = [sock EXCEPT ![a] = [owner |-> @.owner, key |-> k, state |-> state]]

-----------------------------------------------------------------------------
(* The two programs.                                                       *)

(* The filter may let the current task pass, or turn it away.              *)
matches_target(task) == task \in Target

turned_away(task) == task \notin Target \ Movable

(* What the history makes of a record about a that was output.             *)
Shows(a, state, n) ==
  shown' = [shown EXCEPT ![a] =
              IF state = TCP_CLOSE THEN None
              ELSE IF @ # None THEN @ + n
              ELSE IF sock[a].key.sport # 0 THEN n ELSE None]

Event(a, kind, state) ==
  [kind |-> kind, key |-> sock[a].key, state |-> state,
   own |-> IF a \in taken' THEN "softirq" ELSE sock[a].owner]

Output(rec) == net_events' = Append(net_events, rec)

HasRoom == Len(net_events) < RingCap

TrackAlways(a) == TRACKED_SOCKS \cup {a}  \* mutant: no limit

Track(a) ==
  IF Cardinality(TRACKED_SOCKS) < TrackedCap THEN TRACKED_SOCKS \cup {a}
  ELSE TRACKED_SOCKS

UntrackNever(a, state, tracked) == tracked  \* mutant: close does not remove

UntrackOnClose(a, state, tracked) ==
  IF state = TCP_CLOSE THEN tracked \ {a} ELSE tracked

(* What the history makes of a socket that is seen while task is current.  *)
Takes(a, task) ==
  taken' = IF a \notin TRACKED_SOCKS /\ task # sock[a].owner THEN taken \cup {a} ELSE taken

(* try_net_state from the insertion on.  On a full ring it returns before  *)
(* the removal of a closed socket.                                         *)
Reports(a, state) ==
  LET tracked == IF a \in TRACKED_SOCKS THEN TRACKED_SOCKS ELSE Track(a)
  IN  /\ missed' = (missed \/ a \notin tracked)
      /\ IF HasRoom
         THEN /\ Output(Event(a, "StateChange", state))
              /\ TRACKED_SOCKS' = UntrackOnClose(a, state, tracked)
              /\ Shows(a, state, 0)
              /\ UNCHANGED lost
         ELSE /\ TRACKED_SOCKS' = tracked
              /\ lost' = TRUE
              /\ UNCHANGED <<net_events, shown>>

(* try_net_state, with task the current one.                               *)
NetState(a, state, task) ==
  /\ Live(a)
  /\ Becomes(a, state)
  /\ fires < MaxFires /\ fires' = fires + 1
  /\ \/ /\ a \notin TRACKED_SOCKS /\ turned_away(task)
        /\ UNCHANGED <<TRACKED_SOCKS, net_events, shown, taken, lost, missed>>
     \/ /\ a \in TRACKED_SOCKS \/ matches_target(task)
        /\ Takes(a, task)
        /\ Reports(a, state)
  /\ UNCHANGED connections

(* try_net_retransmit: the retransmission timer, or an ACK, in any context.*)
NetRetransmit(a) ==
  /\ UNCHANGED <<sock, TRACKED_SOCKS, connections, taken, missed>>
  /\ Live(a) /\ sock[a].state # TCP_CLOSE
  /\ fires < MaxFires /\ fires' = fires + 1
  /\ IF a \notin TRACKED_SOCKS THEN UNCHANGED <<net_events, shown, lost>>
     ELSE IF HasRoom
          THEN /\ Output(Event(a, "Retransmit", sock[a].state))
               /\ Shows(a, sock[a].state, 1)
               /\ UNCHANGED lost
          ELSE lost' = TRUE /\ UNCHANGED <<net_events, shown>>

-----------------------------------------------------------------------------
(* One turn of drain_net_events' loop.                                     *)

CountAny(row, e) ==  \* mutant: every record counts as a retransmission
  IF e.kind = "StateChange" /\ e.state = TCP_CLOSE THEN None
  ELSE [state |-> e.state, retransmits |-> (IF row = None THEN 0 ELSE row.retransmits) + 1]

After(row, e) ==
  LET n == IF row = None THEN 0 ELSE row.retransmits
  IN  CASE e.kind = "StateChange" /\ e.state = TCP_CLOSE -> None
        [] e.kind = "StateChange" /\ e.state # TCP_CLOSE ->
             [state |-> e.state, retransmits |-> n]
        [] e.kind = "Retransmit" -> [state |-> e.state, retransmits |-> n + 1]

DrainNet ==
  /\ net_events # <<>>
  /\ LET e == Head(net_events)
     IN  connections' = [connections EXCEPT ![e.key] = After(@, e)]
  /\ net_events' = Tail(net_events)
  /\ UNCHANGED <<sock, TRACKED_SOCKS, shown, taken, fires, lost, missed>>

-----------------------------------------------------------------------------
Next ==
  \/ \E a \in Addrs :
       \/ \E p \in Tgids, k \in ConnectionKey : NewSocket(a, p, k)
       \/ FreeSocket(a)
       \/ Live(a) /\ \E s \in AnyState, task \in {sock[a].owner} \cup SoftirqTasks :
                       NetState(a, s, task)
       \/ NetRetransmit(a)
  \/ DrainNet

Spec == Init /\ [][Next]_vars

-----------------------------------------------------------------------------
(* Properties.                                                             *)

(* Sockets are recognised by address, and addresses are reused: still, as  *)
(* long as NET_EVENTS did not overflow, only the target's sockets are      *)
(* tracked and reported, also when TRACKED_SOCKS is full, and those that a *)
(* softirq on top of a target task was the first to touch: no other socket *)
(* inherits what was learnt of them, nor of the target's.                  *)
OnlyOwnSockets ==
  ~lost =>
    /\ \A a \in TRACKED_SOCKS : Live(a) /\ (sock[a].owner \in Target \/ a \in taken)
    /\ \A i \in 1..Len(net_events) : net_events[i].own \in Target \cup {"softirq"}

(* As long as nothing overflows, once the ring is drained the rows with a *)
(* local port are the tracked sockets reported with it and not closed      *)
(* since, each with its socket's present state and exact number of         *)
(* retransmissions.                                                        *)
TableMatchesSockets ==
  ~lost /\ ~missed /\ net_events = <<>> =>
    \A k \in ConnectionKey : k.sport # 0 =>
      LET of == {a \in TRACKED_SOCKS : sock[a].key = k /\ shown[a] # None}
      IN  connections[k] = IF of = {} THEN None
                           ELSE LET a == CHOOSE a \in of : TRUE
                                IN  [state |-> sock[a].state,
                                     retransmits |-> shown[a]]

(* TRACKED_SOCKS' comment, "sockets already confirmed to belong to the     *)
(* target": the same without provisos.                                     *)
TracksTargetOnly ==
  \A a \in TRACKED_SOCKS : Live(a) => sock[a].owner \in Target

(* FR3.3, "a live table of active connections", and NetEvent's comment     *)
(* that a change to TCP_CLOSE "marks the connection's end": when every     *)
(* socket is closed and the ring is drained, the table is empty.           *)
TableEnds ==
  net_events = <<>> /\ (\A a \in Addrs : Live(a) => sock[a].state = TCP_CLOSE) =>
    \A k \in ConnectionKey : connections[k] = None

=============================================================================
