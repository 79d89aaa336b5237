------------------------------ MODULE MemTrace ------------------------------
(***************************************************************************)
(* FR5.1, kernel allocations: the kmalloc and kfree programs of            *)
(* peekbeam-ebpf, the MEM_EVENTS ring, and the drain_mem_events closure of *)
(* peekbeam's main.rs that keeps the counters of the Memory panel.         *)
(*                                                                         *)
(* The kernel's allocator is external.  It serves a task that makes a call *)
(* or a softirq on top of one, whose work is nobody's; and an object is    *)
(* often freed by another than its allocator.  Nothing is kept per task,   *)
(* so that one that moves into or out of the target's cgroup is a member   *)
(* of Target before and another one, outside it, afterwards.               *)
(***************************************************************************)
EXTENDS Integers, Sequences

CONSTANTS
  Tgids,    \* processes
  Target,   \* those matches_target accepts
  Sizes,    \* bytes the allocator may set aside for a request
  Initial,  \* objects that exist when the programs attach
  Extra,    \* bound: how many more may exist at a time
  RingCap,  \* records MEM_EVENTS holds before output fails
  MaxCalls  \* bound: how many calls of kmalloc and of kfree

ASSUME MemTraceAssumption ==
  /\ Target \subseteq Tgids /\ "softirq" \notin Tgids
  /\ Sizes \subseteq Nat
  /\ Initial \in Nat /\ Extra \in Nat
  /\ RingCap \in Nat \ {0} /\ MaxCalls \in Nat

VARIABLES
  attached,    \* which of the two programs main has attached
  objects,     \* external: how many objects exist
  MEM_EVENTS,
  mem_events,  \* MemEventStats
  own,         \* history: the same for the calls the target itself made
  charged,     \* history: the same for those a softirq made on top of it
  calls,       \* how many calls there have been
  lost         \* history: a record did not fit

vars == <<attached, objects, MEM_EVENTS, mem_events, own, charged, calls, lost>>

-----------------------------------------------------------------------------
MemEvent == [kind : {"Alloc"}, bytes : Sizes]
            \cup [kind : {"Free"}, bytes : {0}]

MemEventStats == [alloc_count : Nat, alloc_bytes : Nat, free_count : Nat]

NoEvents == [alloc_count |-> 0, alloc_bytes |-> 0, free_count |-> 0]

TypeOK ==
  /\ attached \in {"none", "kmalloc", "both"}
  /\ objects \in 0..(Initial + Extra)
  /\ MEM_EVENTS \in Seq(MemEvent) /\ Len(MEM_EVENTS) <= RingCap
  /\ mem_events \in MemEventStats
  /\ own \in MemEventStats /\ charged \in MemEventStats
  /\ calls \in 0..MaxCalls
  /\ lost \in BOOLEAN

Init ==
  /\ attached = "none"
  /\ objects = Initial
  /\ MEM_EVENTS = <<>>
  /\ mem_events = NoEvents
  /\ own = NoEvents /\ charged = NoEvents
  /\ calls = 0
  /\ lost = FALSE

-----------------------------------------------------------------------------
(* main attaches kmalloc, then kfree.                                      *)
Attach ==
  /\ \/ attached = "none" /\ attached' = "kmalloc"
     \/ attached = "kmalloc" /\ attached' = "both"
  /\ UNCHANGED <<objects, MEM_EVENTS, mem_events, own, charged, calls, lost>>

MatchesAny(task) == TRUE  \* mutant: no filter

matches_target(task) == task \in Target

(* A call made by by, a process or a softirq, while task is current.       *)
Context(by, task) == by \in {task, "softirq"}

Counted(stats, e) ==  \* one more event
  [alloc_count |-> stats.alloc_count + IF e.kind = "Alloc" THEN 1 ELSE 0,
   alloc_bytes |-> stats.alloc_bytes + e.bytes,
   free_count  |-> stats.free_count + IF e.kind = "Free" THEN 1 ELSE 0]

(* The histories go by who really made the call, whatever is recorded.     *)
Happens(by, task, e) ==
  /\ own' = IF by \in Target THEN Counted(own, e) ELSE own
  /\ charged' = IF by = "softirq" /\ task \in Target THEN Counted(charged, e) ELSE charged

(* What the two programs share: nothing unless the current task matches,   *)
(* else the record, or its loss on a full ring.                            *)
Record(task, e) ==
  IF ~matches_target(task) THEN UNCHANGED <<MEM_EVENTS, lost>>
  ELSE \/ /\ Len(MEM_EVENTS) < RingCap
          /\ MEM_EVENTS' = Append(MEM_EVENTS, e)
          /\ UNCHANGED lost
       \/ /\ Len(MEM_EVENTS) = RingCap
          /\ lost' = TRUE
          /\ UNCHANGED MEM_EVENTS

Call == calls < MaxCalls /\ calls' = calls + 1

(* The record carries bytes_alloc, the bytes set aside, which may be more  *)
(* than were requested.                                                    *)
Kmalloc(by, task, n) ==
  LET e == [kind |-> "Alloc", bytes |-> n]
  IN  /\ attached # "none" /\ Context(by, task) /\ Call
      /\ objects < Initial + Extra /\ objects' = objects + 1
      /\ Happens(by, task, e) /\ Record(task, e)
      /\ UNCHANGED <<attached, mem_events>>

Kfree(by, task) ==
  LET e == [kind |-> "Free", bytes |-> 0]
  IN  /\ attached # "none" /\ Context(by, task) /\ Call
      /\ objects > 0 /\ objects' = objects - 1
      /\ IF attached = "both" THEN Happens(by, task, e) /\ Record(task, e)
                              ELSE UNCHANGED <<MEM_EVENTS, own, charged, lost>>
      /\ UNCHANGED <<attached, mem_events>>

-----------------------------------------------------------------------------
(* One turn of drain_mem_events' loop.                                     *)

CountsBoth(stats, e) ==  \* mutant: a free falls through to the allocations
  [alloc_count |-> stats.alloc_count + 1,
   alloc_bytes |-> stats.alloc_bytes + e.bytes,
   free_count  |-> stats.free_count + IF e.kind = "Free" THEN 1 ELSE 0]

FreeSubtracts(stats, e) ==  \* mutant: a free takes back an allocation
  IF e.kind = "Alloc"
  THEN [stats EXCEPT !.alloc_count = @ + 1, !.alloc_bytes = @ + e.bytes]
  ELSE [stats EXCEPT !.free_count = @ + 1, !.alloc_count = @ - 1]

After(stats, e) ==
  CASE e.kind = "Alloc" -> [stats EXCEPT !.alloc_count = @ + 1, !.alloc_bytes = @ + e.bytes]
    [] e.kind = "Free"  -> [stats EXCEPT !.free_count = @ + 1]

DrainMem ==
  /\ MEM_EVENTS # <<>>
  /\ mem_events' = After(mem_events, Head(MEM_EVENTS))
  /\ MEM_EVENTS' = Tail(MEM_EVENTS)
  /\ UNCHANGED <<attached, objects, own, charged, calls, lost>>

Next ==
  \/ Attach
  \/ \E by \in Tgids \cup {"softirq"}, task \in Tgids :
       \/ \E n \in Sizes : Kmalloc(by, task, n)
       \/ Kfree(by, task)
  \/ DrainMem

Spec == Init /\ [][Next]_vars

-----------------------------------------------------------------------------
(* Properties.                                                             *)

(* Own calls and calls charged to the target together.                     *)
Plus(x, y) ==
  [alloc_count |-> x.alloc_count + y.alloc_count,
   alloc_bytes |-> x.alloc_bytes + y.alloc_bytes,
   free_count  |-> x.free_count + y.free_count]

(* The panel counts the target's own calls and those of softirqs on top of *)
(* it, no call twice and no other's, whatever the ring has lost: the work  *)
(* of softirqs is all that the counters can have too much...               *)
NeverOverstated ==
  LET most == Plus(own, charged)
  IN  /\ mem_events.alloc_count <= most.alloc_count
      /\ mem_events.alloc_bytes <= most.alloc_bytes
      /\ mem_events.free_count <= most.free_count

(* ... and all of these calls once the ring is drained, when nothing was   *)
(* lost.                                                                   *)
CountsAreExact ==
  ~lost /\ MEM_EVENTS = <<>> => mem_events = Plus(own, charged)

=============================================================================
