------------------------------ MODULE Session -------------------------------
(***************************************************************************)
(* The life of one peekbeam process: main's startup, signals.rs, and the   *)
(* two front ends that call poll_events in a loop, headless::run and       *)
(* tui::run, until the process ends one way or another.                    *)
(*                                                                         *)
(* What the four rings carry is the other modules' business: here a ring   *)
(* is a number of records, which the target goes on producing while they   *)
(* are drained.  Signals, keys, time and failures come at any moment.      *)
(***************************************************************************)
EXTENDS Integers, Sequences

CONSTANTS
  Modes,     \* front ends: "tui", "stream" (--json alone), "window" (--duration)
  Programs,  \* the programs main attaches, in its order
  Rings,     \* the rings poll_events drains, in its order
  Feeds,     \* Feeds[r]: the programs that write to ring r
  RingCap,   \* records a ring holds
  Refresh,   \* --refresh-ms, in ticks
  Duration,  \* --duration, in ticks
  MaxTime    \* bound: how many ticks pass

ASSUME SessionAssumption ==
  /\ Modes \subseteq {"tui", "stream", "window"}
  /\ Len(Programs) \in Nat \ {0} /\ Len(Rings) \in Nat \ {0}
  /\ RingCap \in Nat \ {0}
  /\ Refresh \in Nat /\ Duration \in Nat /\ MaxTime \in Nat

VARIABLES
  mode,       \* the front end that the arguments ask for
  stage,      \* where peekbeam is: see Stages
  turn,       \* within attaching or draining: which program or ring is next
  handler,    \* signals::install has registered its handlers
  shutdown,   \* the flag those handlers raise
  raw,        \* external: the terminal is in raw mode
  alt,        \* external: the terminal shows the alternate screen
  rings,      \* how many records each ring holds
  stale,      \* history: how many of those were there when the last wait ended
  active,     \* external: the target is producing records
  now,        \* ticks since the front end started
  last,       \* last_emit or last_draw
  times,      \* history: when each summary was streamed, or each frame drawn
  finals,     \* history: final summaries printed
  outcome     \* history: how the process ended, "" while it runs

startup  == <<handler, raw, alt>>
data     == <<rings, stale>>
display  == <<last, times, finals>>
world    == <<mode, active, now>>
vars     == <<stage, turn, startup, shutdown, data, world, display, outcome>>

-----------------------------------------------------------------------------
(* The stages in order.  main: resolve the target, check privileges, load  *)
(* the object, fill the filter, attach, take the rings, install the        *)
(* handlers.  tui: enable raw mode, enter the alternate screen, make the   *)
(* Terminal, and on the way out undo the two.                              *)
Stages == {"prepare", "attach", "install",
           "raw", "alt", "terminal", "check", "input",
           "drain", "drained", "show", "sleep", "final",
           "unraw", "unalt", "ended"}

InLoop == {"check", "input", "drain", "drained", "show", "sleep", "final"}

Outcomes == {"", "ok", "setup failed", "failed", "restore failed", "killed", "panicked"}

TypeOK ==
  /\ mode \in Modes
  /\ stage \in Stages
  /\ turn \in 1..(Len(Programs) + Len(Rings) + 1)
  /\ handler \in BOOLEAN /\ shutdown \in BOOLEAN
  /\ raw \in BOOLEAN /\ alt \in BOOLEAN
  /\ rings \in [1..Len(Rings) -> 0..RingCap]
  /\ stale \in [1..Len(Rings) -> 0..RingCap]
  /\ active \in BOOLEAN
  /\ now \in 0..MaxTime
  /\ last \in (-Refresh)..MaxTime
  /\ times \in Seq(0..MaxTime) /\ finals \in Nat
  /\ outcome \in Outcomes

Init ==
  /\ mode \in Modes
  /\ stage = "prepare" /\ turn = 1
  /\ handler = FALSE /\ shutdown = FALSE
  /\ raw = FALSE /\ alt = FALSE
  /\ rings = [r \in 1..Len(Rings) |-> 0]
  /\ stale = [r \in 1..Len(Rings) |-> 0]
  /\ active \in BOOLEAN
  /\ now = 0 /\ last = 0
  /\ times = <<>> /\ finals = 0
  /\ outcome = ""

-----------------------------------------------------------------------------
(* The process ends: main returns and drops its Ebpf, or a signal kills it *)
(* and the kernel closes the programs' links.                              *)
Ends(how) == stage' = "ended" /\ outcome' = how

At(s) == stage = s /\ UNCHANGED world

Goes(s) == stage' = s /\ UNCHANGED outcome

(* Which programs are attached.                                            *)
Attached ==
  CASE stage \in {"prepare", "ended"} -> {}
    [] stage = "attach"               -> {Programs[i] : i \in 1..(turn - 1)}
    [] OTHER                          -> {Programs[i] : i \in 1..Len(Programs)}

-----------------------------------------------------------------------------
(* main up to the choice of a front end.  Every step may fail with `?`.    *)

Prepare ==
  /\ At("prepare")
  /\ Goes("attach")
  /\ UNCHANGED <<turn, startup, shutdown, data, display>>

Attach ==
  /\ At("attach")
  /\ IF turn < Len(Programs) THEN Goes("attach") /\ turn' = turn + 1
                             ELSE Goes("install") /\ turn' = 1
  /\ UNCHANGED <<startup, shutdown, data, display>>

(* A wait ends, and what the rings hold is there for the next poll.        *)
Wakes == stale' = rings

(* headless::run begins with a poll, tui::run with the terminal.           *)
Install ==
  /\ At("install")
  /\ handler' = TRUE
  /\ IF mode = "tui" THEN Goes("raw") /\ UNCHANGED stale
                     ELSE Goes("drain") /\ Wakes
  /\ UNCHANGED <<turn, raw, alt, shutdown, rings, display>>

StartupFails ==
  /\ \E s \in {"prepare", "attach", "install"} : At(s)
  /\ Ends("failed")
  /\ UNCHANGED <<turn, startup, shutdown, data, display>>

-----------------------------------------------------------------------------
(* poll_events: each ring in turn, record by record until it is empty.     *)

DrainRecord ==
  /\ At("drain")
  /\ rings[turn] > 0
  /\ rings' = [rings EXCEPT ![turn] = @ - 1]
  /\ stale' = [stale EXCEPT ![turn] = IF @ = 0 THEN 0 ELSE @ - 1]
  /\ UNCHANGED <<stage, turn, outcome, startup, shutdown, display>>

OneRecord(r) == TRUE  \* mutant: if let instead of while let

Drained(r) == rings[r] = 0

DrainNext ==
  /\ At("drain")
  /\ Drained(turn)
  /\ IF turn < Len(Rings) THEN Goes("drain") /\ turn' = turn + 1
                          ELSE Goes("drained") /\ turn' = 1
  /\ UNCHANGED <<startup, shutdown, data, display>>

-----------------------------------------------------------------------------
(* headless::run.  After the poll: the flag, then the window or the        *)
(* refresh interval.                                                       *)

Headless == mode # "tui"

Unpolled == FALSE  \* mutant: the flag is not looked at

requested == shutdown

ExpiredAtOnly == mode = "window" /\ now = Duration  \* mutant: == for >=

ExpiredEarly == mode = "window" /\ now + 1 >= Duration  \* mutant: off by one

Expired == mode = "window" /\ now >= Duration

Stop ==
  /\ Headless /\ At("drained")
  /\ requested \/ Expired
  /\ Goes("final")
  /\ UNCHANGED <<turn, startup, shutdown, data, display>>

Due == now - last >= Refresh

Stream ==
  /\ Headless /\ At("drained") /\ ~requested /\ ~Expired
  /\ Goes(IF mode = "stream" /\ Due THEN "show" ELSE "sleep")
  /\ UNCHANGED <<turn, startup, shutdown, data, display>>

CatchUp == last + Refresh  \* mutant: last_emit += refresh

ResetTimer == now

(* The summary is printed or the frame drawn, and the timer starts anew,   *)
(* however long after Due was looked at.                                   *)
Show ==
  /\ At("show")
  /\ times' = Append(times, now) /\ last' = ResetTimer
  /\ Goes(IF Headless THEN "sleep" ELSE "check")
  /\ UNCHANGED <<turn, startup, shutdown, data, finals>>

Sleep ==
  /\ At("sleep")
  /\ Goes("drain")
  /\ Wakes
  /\ UNCHANGED <<turn, startup, shutdown, rings, display>>

Final ==
  /\ At("final")
  /\ finals' = finals + 1
  /\ Ends("ok")
  /\ UNCHANGED <<turn, startup, shutdown, data, last, times>>

(* println! panics when standard output is closed, as a broken pipe is.    *)
PrintFails ==
  /\ Headless
  /\ At("final") \/ At("show")
  /\ Ends("panicked")
  /\ UNCHANGED <<turn, startup, shutdown, data, display>>

-----------------------------------------------------------------------------
(* tui::run.                                                               *)

EnableRaw ==
  /\ At("raw")
  /\ Goes("alt") /\ raw' = TRUE
  /\ UNCHANGED <<turn, handler, alt, shutdown, data, display>>

EnterAlternate ==
  /\ At("alt")
  /\ Goes("terminal") /\ alt' = TRUE
  /\ UNCHANGED <<turn, handler, raw, shutdown, data, display>>

(* last_draw starts one interval back, so that the first frame is due; but *)
(* where the clock cannot go back that far, checked_sub fails and it is    *)
(* the present.                                                            *)
NewTerminal ==
  /\ At("terminal")
  /\ Goes("check")
  /\ last' \in {now - Refresh, now}
  /\ UNCHANGED <<turn, startup, shutdown, data, times, finals>>

SetupFails ==
  /\ \E s \in {"raw", "alt", "terminal"} : At(s)
  /\ Ends("setup failed")
  /\ UNCHANGED <<turn, startup, shutdown, data, display>>

(* run_loop: the flag, then up to 50 ms for a key, then poll_events, then  *)
(* a frame when one is due.                                                *)
Check ==
  /\ At("check")
  /\ Goes(IF requested THEN "unraw" ELSE "input")
  /\ UNCHANGED <<turn, startup, shutdown, data, display>>

Input ==
  /\ At("input")
  /\ Goes("drain")
  /\ Wakes
  /\ UNCHANGED <<turn, startup, shutdown, rings, display>>

(* q, Esc or Ctrl-C.                                                       *)
Quit ==
  /\ At("input")
  /\ Goes("unraw")
  /\ UNCHANGED <<turn, startup, shutdown, data, display>>

Frame ==
  /\ ~Headless /\ At("drained")
  /\ Goes(IF Due THEN "show" ELSE "check")
  /\ UNCHANGED <<turn, startup, shutdown, data, display>>

LeaveAtOnce(s) == Ends("failed")  \* mutant: `?` on run_loop's result

AfterLoop(s) == Goes(s)

(* Reading an event or drawing a frame fails: run_loop returns the error,  *)
(* and run restores the terminal before it returns it.                     *)
LoopFails ==
  /\ ~Headless
  /\ At("input") \/ At("show")
  /\ AfterLoop("unraw")
  /\ UNCHANGED <<turn, startup, shutdown, data, display>>

DisableRaw ==
  /\ At("unraw")
  /\ Goes("unalt") /\ raw' = FALSE
  /\ UNCHANGED <<turn, handler, alt, shutdown, data, display>>

LeaveAlternate ==
  /\ At("unalt")
  /\ Ends("ok") /\ alt' = FALSE
  /\ UNCHANGED <<turn, handler, raw, shutdown, data, display>>

RestoreFails ==
  /\ At("unraw") \/ At("unalt")
  /\ Ends("restore failed")
  /\ UNCHANGED <<turn, startup, shutdown, data, display>>

-----------------------------------------------------------------------------
(* The world outside.                                                      *)

(* SIGINT or SIGTERM: the flag if there is a handler, else the default.    *)
Signal ==
  /\ stage # "ended"
  /\ IF handler THEN shutdown' = TRUE /\ UNCHANGED <<stage, outcome>>
                ELSE Ends("killed") /\ UNCHANGED shutdown
  /\ UNCHANGED <<turn, startup, data, world, display>>

(* A program outputs a record of the target's; on a full ring it is lost.  *)
Unlimited(r) == TRUE  \* mutant: the ring is never full

HasRoom(r) == rings[r] < RingCap

Produce ==
  /\ active
  /\ \E r \in 1..Len(Rings) :
       /\ Feeds[Rings[r]] \cap Attached # {}
       /\ HasRoom(r)
       /\ rings' = [rings EXCEPT ![r] = @ + 1]
  /\ UNCHANGED <<stage, turn, outcome, startup, shutdown, stale, world, display>>

(* The target pauses, resumes or exits.                                    *)
Toggle ==
  /\ active' = ~active
  /\ UNCHANGED <<stage, turn, outcome, startup, shutdown, data, mode, now, display>>

Tick ==
  /\ stage \in InLoop
  /\ now < MaxTime /\ now' = now + 1
  /\ UNCHANGED <<stage, turn, outcome, startup, shutdown, data, mode, active, display>>

-----------------------------------------------------------------------------
(* What peekbeam does of its own accord.                                   *)
Proceed ==
  \/ Prepare \/ Attach \/ Install
  \/ DrainRecord \/ DrainNext
  \/ Stop \/ Stream \/ Show \/ Sleep \/ Final
  \/ EnableRaw \/ EnterAlternate \/ NewTerminal
  \/ Check \/ Input \/ Frame \/ DisableRaw \/ LeaveAlternate

Fails == StartupFails \/ PrintFails \/ SetupFails \/ LoopFails \/ RestoreFails

Next == Proceed \/ Fails \/ Quit \/ Signal \/ Produce \/ Toggle \/ Tick

Spec == Init /\ [][Next]_vars

(* The scheduler runs peekbeam, and time passes.  Nothing is assumed of    *)
(* the target, the user or whoever sends signals.                          *)
FairSpec == Spec /\ WF_vars(Proceed) /\ WF_vars(Tick)

-----------------------------------------------------------------------------
(* Properties.                                                             *)

(* Whenever the signal, key, error or failed attach comes, the process     *)
(* never ends with the terminal in raw mode or on the alternate screen,    *)
(* unless a call that sets up or restores the terminal itself failed.      *)
TerminalRestored ==
  stage = "ended" /\ outcome \notin {"setup failed", "restore failed"}
    => ~raw /\ ~alt

(* A headless run that ends well ends with its one summary, and only when  *)
(* a signal came or the window is over, never sooner.  It ends without one *)
(* only when the startup failed, when println! panicked, or when a signal  *)
(* came before there were handlers.                                        *)
OneFinalSummary ==
  Headless =>
    /\ finals = IF outcome = "ok" THEN 1 ELSE 0
    /\ outcome = "ok" => shutdown \/ (mode = "window" /\ now >= Duration)
    /\ outcome = "killed" => ~handler

(* What was in the rings when the last wait ended, or for the first poll   *)
(* of a headless run when it began, is in the summary or frame that is     *)
(* shown next, whatever arrives in the meantime, and so in the final one.  *)
SummaryIsFresh ==
  stage \in {"drained", "show", "final", "sleep"} =>
    \A r \in 1..Len(Rings) : stale[r] = 0

(* However long a poll or a print takes, a summary or frame comes no       *)
(* sooner than one refresh interval after the one before: time lost is not *)
(* caught up with a burst.  The first summary, too, waits for an interval. *)
RefreshRate ==
  /\ \A i \in 2..Len(times) : times[i] - times[i - 1] >= Refresh
  /\ Headless /\ times # <<>> => times[1] >= Refresh

(* FR8.3: a signal ends the process, provided the target pauses at last.   *)
SignalEnds == <>[]~active => (shutdown ~> stage = "ended")

(* FR7.3: so does the end of the window.                                   *)
WindowEnds ==
  <>[]~active => (mode = "window" /\ now >= Duration ~> stage = "ended")

(* tui.rs: "Restores the terminal on every exit path".                     *)
TerminalAlwaysRestored == stage = "ended" => ~raw /\ ~alt

=============================================================================
