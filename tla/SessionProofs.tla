--------------------------- MODULE SessionProofs ---------------------------
(***************************************************************************)
(* Theorems about Session, for every front end, every list of programs and *)
(* rings, every ring size, interval and window.                            *)
(***************************************************************************)
EXTENDS Session, TLAPS

(* The terminal is changed only while tui::run is at work, with handlers.  *)
TerminalHeld ==
  /\ raw => \/ stage \in {"alt", "terminal", "check", "input", "drain", "drained", "show", "unraw"}
            \/ stage = "ended" /\ outcome \in {"setup failed", "restore failed"}
  /\ alt => \/ stage \in {"terminal", "check", "input", "drain", "drained", "show", "unraw", "unalt"}
            \/ stage = "ended" /\ outcome \in {"setup failed", "restore failed"}
  /\ raw \/ alt => handler

(* The two front ends share no stage but those of poll_events.             *)
OwnStages ==
  /\ outcome = "" <=> stage # "ended"
  /\ Headless => stage \notin {"raw", "alt", "terminal", "check", "input", "unraw", "unalt"}
                 /\ ~raw /\ ~alt
  /\ ~Headless => stage \notin {"sleep", "final"}
  /\ stage \in {"prepare", "attach", "install"} => ~handler
  /\ stage \notin {"prepare", "attach", "install", "ended"} => handler

WindowOver == mode = "window" /\ now >= Duration

SummaryDue == stage = "final" => shutdown \/ WindowOver

(* poll_events has been through the rings before turn, so that what was    *)
(* there when it began is gone from them.                                  *)
StaleAhead ==
  /\ \A r \in 1..Len(Rings) : stale[r] <= rings[r]
  /\ stage = "drain" => \A r \in 1..Len(Rings) : r < turn => stale[r] = 0
  /\ stage = "drain" => turn <= Len(Rings)
  /\ stage \in {"raw", "alt", "terminal", "check", "input", "drained", "show", "sleep", "final"} =>
       turn = 1
  /\ stage \in {"prepare", "attach", "install", "drained", "show", "sleep", "final"} =>
       \A r \in 1..Len(Rings) : stale[r] = 0
  /\ stage \in {"prepare", "install"} => turn = 1
  /\ stage = "attach" => turn <= Len(Programs)

(* Enough of the type invariant for these.                                 *)
Counts ==
  /\ turn \in Nat \ {0} /\ finals \in Nat /\ now \in Nat
  /\ rings \in [1..Len(Rings) -> Nat] /\ stale \in [1..Len(Rings) -> Nat]

(* The inductive invariant.                                                *)
IInv ==
  /\ TerminalHeld /\ OwnStages
  /\ SummaryDue /\ OneFinalSummary
  /\ Counts /\ StaleAhead

-----------------------------------------------------------------------------
LEMMA InitIInv == Init => IInv
<1> SUFFICES ASSUME Init PROVE IInv
  OBVIOUS
<1>1. TerminalHeld /\ OwnStages
  BY DEF Init, TerminalHeld, OwnStages
<1>2. SummaryDue /\ OneFinalSummary
  BY DEF Init, SummaryDue, OneFinalSummary
<1>3. /\ stage = "prepare" /\ turn = 1 /\ now = 0 /\ finals = 0
      /\ rings = [r \in 1..Len(Rings) |-> 0] /\ stale = [r \in 1..Len(Rings) |-> 0]
  BY DEF Init
<1>4. Counts /\ StaleAhead
  <2>1. Counts
    BY <1>3 DEF Counts
  <2>2. \A r \in 1..Len(Rings) : stale[r] = 0 /\ rings[r] = 0
    BY <1>3
  <2> QED
    BY <1>3, <2>1, <2>2 DEF StaleAhead
<1> QED
  BY <1>1, <1>2, <1>4 DEF IInv

(* Up to the choice of the front end nothing has touched the terminal, the *)
(* rings are undrained and nothing in them is stale.                       *)
LEMMA StartupStep ==
  ASSUME IInv, Prepare \/ Attach \/ Install \/ StartupFails
  PROVE  IInv'
<1> USE DEF Prepare, Attach, Install, StartupFails, At, Goes, Ends, startup, data,
            display, world
<1>1. UNCHANGED <<mode, raw, alt, rings, now, shutdown, finals>>
  OBVIOUS
<1>2. /\ stage \in {"prepare", "attach", "install"}
      /\ stage' \in {"attach", "install", "raw", "drain", "ended"}
      /\ outcome' = IF stage' = "ended" THEN "failed" ELSE outcome
  OBVIOUS
<1>3. stage' = "raw" => ~Headless
  BY <1>2 DEF Headless
<1>4. ~raw /\ ~alt /\ ~handler /\ outcome = ""
  BY <1>2 DEF IInv, TerminalHeld, OwnStages
<1>5. stage' \in {"attach", "install"} => ~handler'
  BY <1>4
<1>6. TerminalHeld' /\ OwnStages'
  BY <1>1, <1>2, <1>3, <1>4, <1>5 DEF TerminalHeld, OwnStages, Headless
<1>7. SummaryDue' /\ OneFinalSummary'
  BY <1>1, <1>2, <1>4 DEF IInv, SummaryDue, OneFinalSummary, Headless
<1>8. Counts' /\ StaleAhead'
  <2>1. turn' \in Nat \ {0} /\ (stage' = "attach" => turn' <= Len(Programs))
        /\ (stage' \in {"install", "raw", "drain"} => turn' = 1)
    BY SessionAssumption DEF IInv, Counts, StaleAhead
  <2>2. \A r \in 1..Len(Rings) : stale[r] = 0 /\ stale[r] <= rings[r]
    BY <1>2 DEF IInv, StaleAhead
  <2>3. stale' = stale \/ (stage' = "drain" /\ stale' = rings)
    BY DEF Wakes
  <2>4. /\ stale' \in [1..Len(Rings) -> Nat]
        /\ \A r \in 1..Len(Rings) : stale'[r] <= rings'[r]
        /\ stage' # "drain" => \A r \in 1..Len(Rings) : stale'[r] = 0
    BY <1>1, <2>2, <2>3 DEF IInv, Counts
  <2>5. Counts'
    BY <1>1, <2>1, <2>4 DEF IInv, Counts
  <2>6. stage' = "drain" => turn' <= Len(Rings) /\ \A r \in 1..Len(Rings) : ~(r < turn')
    BY <2>1, SessionAssumption
  <2> QED
    BY <1>2, <2>1, <2>4, <2>5, <2>6 DEF StaleAhead
<1> QED
  BY <1>6, <1>7, <1>8 DEF IInv

(* A ring is left only when it is empty, and then nothing in it is stale.  *)
LEMMA PollStep ==
  ASSUME IInv, DrainRecord \/ DrainNext
  PROVE  IInv'
<1> USE DEF DrainRecord, DrainNext, Drained, At, Goes, startup, data, display, world
<1>1. UNCHANGED <<mode, handler, raw, alt, shutdown, now, finals, outcome>>
  OBVIOUS
<1>2. stage = "drain" /\ stage' \in {"drain", "drained"}
  OBVIOUS
<1>3. TerminalHeld' /\ OwnStages'
  <2> HIDE DEF DrainRecord, DrainNext, Drained, At, Goes, startup, data, display, world
  <2>1. TerminalHeld'
    BY <1>1, <1>2 DEF IInv, TerminalHeld
  <2>2. OwnStages'
    BY <1>1, <1>2 DEF IInv, OwnStages, Headless
  <2> QED
    BY <2>1, <2>2
<1>4. SummaryDue' /\ OneFinalSummary'
  BY <1>1, <1>2 DEF IInv, SummaryDue, OneFinalSummary, Headless
<1>5. Counts' /\ StaleAhead'
  <2>1. turn \in Nat \ {0} /\ turn <= Len(Rings) /\ Len(Rings) \in Nat
    BY <1>2, SessionAssumption DEF IInv, Counts, StaleAhead
  <2>2. CASE DrainRecord
    <3>1. stage' = "drain" /\ turn' = turn
      BY <1>2, <2>2
    <3>2. Counts'
      BY <1>1, <2>1, <2>2, <3>1 DEF IInv, Counts
    <3>3. \A r \in 1..Len(Rings) : stale'[r] <= rings'[r] /\ (r < turn => stale'[r] = 0)
      BY <1>2, <2>2 DEF IInv, Counts, StaleAhead
    <3> QED
      BY <2>1, <3>1, <3>2, <3>3 DEF StaleAhead
  <2>3. CASE DrainNext
    <3>1. UNCHANGED <<rings, stale>>
      BY <2>3
    <3>2. \A r \in 1..Len(Rings) : r < turn + 1 => stale[r] = 0
      BY <1>2, <2>1, <2>3 DEF IInv, Counts, StaleAhead
    <3>3. \/ stage' = "drain" /\ turn' = turn + 1 /\ turn < Len(Rings)
          \/ stage' = "drained" /\ turn' = 1 /\ turn = Len(Rings)
      BY <2>1, <2>3
    <3> QED
      BY <1>1, <2>1, <3>1, <3>2, <3>3 DEF IInv, Counts, StaleAhead
  <2> QED
    BY <2>2, <2>3
<1> QED
  BY <1>3, <1>4, <1>5 DEF IInv

LEMMA HeadlessStep ==
  ASSUME IInv, Stop \/ Stream \/ Sleep \/ Final
  PROVE  IInv'
<1> USE DEF Stop, Stream, Sleep, Final, Wakes, At, Goes, Ends, startup, data, display, world
<1>1. UNCHANGED <<mode, turn, handler, raw, alt, shutdown, now, rings>>
  OBVIOUS
<1>2. /\ stage \in {"drained", "sleep", "final"} /\ Headless
      /\ stage = "drained" => stage' \in IF requested \/ Expired THEN {"final"}
                                                               ELSE {"show", "sleep"}
      /\ stage = "sleep" => stage' = "drain"
      /\ stage = "final" => stage' = "ended"
      /\ outcome' = IF stage = "final" THEN "ok" ELSE outcome
      /\ finals' = IF stage = "final" THEN finals + 1 ELSE finals
      /\ stale' = IF stage = "sleep" THEN rings ELSE stale
  BY DEF IInv, OwnStages
<1>3. ~raw /\ ~alt
  BY <1>2 DEF IInv, OwnStages
<1>4. TerminalHeld' /\ OwnStages'
  <2>1. stage' \in {"show", "sleep", "final", "drain", "ended"}
    BY <1>2
  <2>2. outcome' = "" <=> stage' # "ended"
    BY <1>2 DEF IInv, OwnStages
  <2>3. handler
    BY <1>2 DEF IInv, OwnStages
  <2>4. TerminalHeld'
    BY <1>1, <1>3 DEF TerminalHeld
  <2> QED
    BY <1>1, <1>2, <1>3, <2>1, <2>2, <2>3, <2>4 DEF OwnStages, Headless
<1>5. SummaryDue'
  BY <1>1, <1>2 DEF SummaryDue, requested, Expired, WindowOver
<1>6. OneFinalSummary'
  <2>1. outcome = ""
    BY <1>2 DEF IInv, OwnStages
  <2>2. finals = 0
    BY <1>2, <2>1 DEF IInv, OneFinalSummary
  <2>3. outcome' = "ok" => shutdown' \/ (mode = "window" /\ now' >= Duration)
    BY <1>1, <1>2, <2>1 DEF IInv, SummaryDue, WindowOver
  <2>4. outcome' # "killed"
    BY <1>2, <2>1
  <2>5. CASE stage = "final"
    BY <1>2, <2>2, <2>3, <2>4, <2>5 DEF OneFinalSummary
  <2>6. CASE stage # "final"
    BY <1>2, <2>1, <2>2, <2>6 DEF OneFinalSummary
  <2> QED
    BY <2>5, <2>6
<1>7. Counts' /\ StaleAhead'
  <2>1. turn = 1
    BY <1>2 DEF IInv, StaleAhead
  <2>2. stage' = "drain" => stage = "sleep" /\ stale' = rings
    BY <1>2
  <2>3. stage # "sleep" => stale' = stale /\ \A r \in 1..Len(Rings) : stale[r] = 0
    BY <1>2 DEF IInv, StaleAhead
  <2>4. \A r \in 1..Len(Rings) : stale'[r] <= rings'[r]
    BY <1>1, <1>2, <2>3 DEF IInv, Counts, StaleAhead
  <2>5. Counts'
    BY <1>1, <1>2, <2>1 DEF IInv, Counts
  <2>6. stage' = "drain" => stage = "sleep"
    BY <1>2
  <2>7. stage' \in {"show", "sleep", "final"} => stage # "sleep"
    BY <1>2
  <2>8. stage' \in {"show", "sleep", "final", "drain", "ended"}
    BY <1>2
  <2> QED
    BY <1>1, <2>1, <2>3, <2>4, <2>5, <2>7, <2>8, SessionAssumption DEF Counts, StaleAhead
<1> QED
  BY <1>4, <1>5, <1>6, <1>7 DEF IInv

(* A summary or frame changes nothing but the timer and its history.       *)
LEMMA ShowStep ==
  ASSUME IInv, Show
  PROVE  IInv'
<1> USE DEF Show, At, Goes, startup, data, world
<1>1. UNCHANGED <<mode, turn, handler, raw, alt, shutdown, rings, stale, now, finals, outcome>>
  OBVIOUS
<1>2. stage = "show" /\ stage' = IF Headless THEN "sleep" ELSE "check"
  OBVIOUS
<1> HIDE DEF Show, At, Goes, startup, data, world
<1>3. handler /\ outcome = ""
  BY <1>2 DEF IInv, OwnStages
<1>4. TerminalHeld' /\ OwnStages'
  BY <1>1, <1>2, <1>3 DEF IInv, TerminalHeld, OwnStages, Headless
<1>5. SummaryDue' /\ OneFinalSummary'
  BY <1>1, <1>2 DEF IInv, SummaryDue, OneFinalSummary, Headless
<1>6. Counts' /\ StaleAhead'
  BY <1>1, <1>2 DEF IInv, Counts, StaleAhead
<1> QED
  BY <1>4, <1>5, <1>6 DEF IInv

(* A panic in println! ends a headless run, which has not touched the      *)
(* terminal nor printed its final summary.                                 *)
LEMMA PrintStep ==
  ASSUME IInv, PrintFails
  PROVE  IInv'
<1> USE DEF PrintFails, At, Ends, startup, data, display, world
<1>1. /\ stage \in {"show", "final"} /\ stage' = "ended" /\ outcome' = "panicked"
      /\ UNCHANGED <<mode, turn, handler, raw, alt, shutdown, rings, stale, now, finals>>
  OBVIOUS
<1>2. Headless /\ ~raw /\ ~alt /\ handler /\ outcome = ""
  BY <1>1 DEF IInv, OwnStages, Headless
<1> HIDE DEF PrintFails, At, Ends, startup, data, display, world
<1>3. TerminalHeld' /\ OwnStages'
  <2>1. TerminalHeld'
    BY <1>1, <1>2 DEF TerminalHeld
  <2>2. Headless'
    BY <1>1, <1>2 DEF Headless
  <2>3. OwnStages'
    BY <1>1, <1>2, <2>2 DEF OwnStages
  <2> QED
    BY <2>1, <2>3
<1>4. SummaryDue' /\ OneFinalSummary'
  BY <1>1, <1>2 DEF IInv, SummaryDue, OneFinalSummary, Headless
<1>5. Counts' /\ StaleAhead'
  <2>1. Counts'
    BY <1>1 DEF IInv, Counts
  <2>2. StaleAhead'
    BY <1>1 DEF IInv, StaleAhead
  <2> QED
    BY <2>1, <2>2
<1> QED
  BY <1>3, <1>4, <1>5 DEF IInv

(* tui::run up to its loop, where a failure leaves the terminal as it is.  *)
LEMMA SetupStep ==
  ASSUME IInv, EnableRaw \/ EnterAlternate \/ NewTerminal \/ SetupFails
  PROVE  IInv'
<1> USE DEF EnableRaw, EnterAlternate, NewTerminal, SetupFails, At, Goes, Ends, startup,
            data, display, world
<1>1. UNCHANGED <<mode, turn, handler, shutdown, rings, stale, now, finals>>
  OBVIOUS
<1>2. /\ stage \in {"raw", "alt", "terminal"}
      /\ stage' \in {"alt", "terminal", "check", "ended"}
      /\ outcome' = IF stage' = "ended" THEN "setup failed" ELSE outcome
  OBVIOUS
<1>3. alt' => (stage' \in {"terminal", "check"} \/ stage' = "ended")
  BY DEF IInv, TerminalHeld
<1>4. ~Headless /\ outcome = ""
  BY <1>2 DEF IInv, OwnStages
<1>5. handler'
  <2>1. handler
    BY <1>2 DEF IInv, OwnStages
  <2> QED
    BY <1>1, <2>1
<1>6. TerminalHeld' /\ OwnStages'
  <2>1. TerminalHeld'
    BY <1>2, <1>3, <1>4, <1>5 DEF TerminalHeld
  <2>2. OwnStages'
    BY <1>2, <1>4, <1>5 DEF OwnStages, Headless
  <2> QED
    BY <2>1, <2>2
<1>7. SummaryDue' /\ OneFinalSummary'
  BY <1>2, <1>4 DEF SummaryDue, OneFinalSummary, Headless
<1>8. Counts' /\ StaleAhead'
  BY <1>1, <1>2 DEF IInv, Counts, StaleAhead
<1> QED
  BY <1>6, <1>7, <1>8 DEF IInv

(* run_loop: every way out of it, the failing ones too, goes to unraw.     *)
LEMMA LoopStep ==
  ASSUME IInv, Check \/ Input \/ Quit \/ Frame \/ LoopFails
  PROVE  IInv'
<1> USE DEF Check, Input, Quit, Frame, LoopFails, AfterLoop, Wakes, At, Goes, startup,
            data, display, world
<1>1. UNCHANGED <<mode, turn, handler, raw, alt, shutdown, rings, now, finals, outcome>>
  OBVIOUS
<1>2. /\ stage \in {"check", "input", "drained", "show"}
      /\ stage' \in {"input", "drain", "show", "check", "unraw"}
      /\ stage' = "show" => stage = "drained"
      /\ stale' = IF stage' = "drain" THEN rings ELSE stale
  OBVIOUS
<1>3. ~Headless /\ outcome = ""
  <2>1. stage \in {"drained", "show"} => ~Headless
    OBVIOUS
  <2> QED
    BY <1>2, <2>1 DEF IInv, OwnStages
<1>4. TerminalHeld' /\ OwnStages'
  BY <1>1, <1>2, <1>3 DEF IInv, TerminalHeld, OwnStages, Headless
<1>5. SummaryDue' /\ OneFinalSummary'
  BY <1>2, <1>3 DEF SummaryDue, OneFinalSummary, Headless
<1>6. Counts' /\ StaleAhead'
  <2>1. turn = 1
    BY <1>2 DEF IInv, StaleAhead
  <2>2. Counts'
    BY <1>1, <1>2 DEF IInv, Counts
  <2>3. \A r \in 1..Len(Rings) : stale'[r] <= rings'[r]
    BY <1>1, <1>2 DEF IInv, Counts, StaleAhead
  <2>4. stage' = "drain" => \A r \in 1..Len(Rings) : ~(r < turn')
    BY <1>1, <2>1
  <2>5. stage' = "drain" => turn' <= Len(Rings)
    BY <1>1, <2>1, SessionAssumption
  <2>6. stage' = "show" => \A r \in 1..Len(Rings) : stale'[r] = 0
    BY <1>2 DEF IInv, StaleAhead
  <2> QED
    BY <1>1, <1>2, <2>1, <2>2, <2>3, <2>4, <2>5, <2>6 DEF StaleAhead
<1> QED
  BY <1>4, <1>5, <1>6 DEF IInv

LEMMA RestoreStep ==
  ASSUME IInv, DisableRaw \/ LeaveAlternate \/ RestoreFails
  PROVE  IInv'
<1> USE DEF DisableRaw, LeaveAlternate, RestoreFails, At, Goes, Ends, startup, data,
            display, world
<1>1. UNCHANGED <<mode, turn, handler, shutdown, rings, stale, now, finals>>
  OBVIOUS
<1>2. /\ stage \in {"unraw", "unalt"} /\ stage' \in {"unalt", "ended"}
      /\ outcome' = "" <=> stage' # "ended"
  BY DEF IInv, OwnStages
<1>3. ~Headless
  BY <1>2 DEF IInv, OwnStages
<1>4. handler'
  BY <1>1, <1>2 DEF IInv, OwnStages
<1>5. raw' => stage' = "ended" /\ outcome' = "restore failed"
  BY DEF IInv, TerminalHeld
<1>6. alt' => stage' = "unalt" \/ (stage' = "ended" /\ outcome' = "restore failed")
  OBVIOUS
<1>7. TerminalHeld' /\ OwnStages'
  BY <1>2, <1>3, <1>4, <1>5, <1>6 DEF TerminalHeld, OwnStages, Headless
<1>8. SummaryDue' /\ OneFinalSummary'
  BY <1>2, <1>3 DEF SummaryDue, OneFinalSummary, Headless
<1>9. Counts' /\ StaleAhead'
  BY <1>1, <1>2 DEF IInv, Counts, StaleAhead
<1> QED
  BY <1>7, <1>8, <1>9 DEF IInv

LEMMA WorldStep ==
  ASSUME IInv, Signal \/ Produce \/ Toggle \/ Tick \/ UNCHANGED vars
  PROVE  IInv'
<1> USE DEF startup, data, display, world
<1>1. CASE Signal
  <2> USE DEF Signal, Ends
  <2>1. UNCHANGED <<mode, turn, handler, raw, alt, rings, stale, now, finals>>
    BY <1>1
  <2>2. \/ handler /\ shutdown' = TRUE /\ UNCHANGED <<stage, outcome>>
        \/ ~handler /\ stage' = "ended" /\ outcome' = "killed"
    BY <1>1
  <2>3. CASE handler /\ shutdown' = TRUE /\ UNCHANGED <<stage, outcome>>
    <3>1. TerminalHeld' /\ OwnStages'
      BY <2>1, <2>3 DEF IInv, TerminalHeld, OwnStages, Headless
    <3>2. SummaryDue' /\ OneFinalSummary'
      BY <2>1, <2>3 DEF IInv, SummaryDue, OneFinalSummary, Headless
    <3>3. Counts' /\ StaleAhead'
      BY <2>1, <2>3 DEF IInv, Counts, StaleAhead
    <3> QED
      BY <3>1, <3>2, <3>3 DEF IInv
  <2>4. CASE ~handler /\ stage' = "ended" /\ outcome' = "killed"
    <3>1. ~raw /\ ~alt
      BY <2>4 DEF IInv, TerminalHeld
    <3>2. TerminalHeld' /\ OwnStages'
      BY <2>1, <2>4, <3>1 DEF TerminalHeld, OwnStages, Headless
    <3>3. outcome = ""
      BY <1>1 DEF IInv, OwnStages
    <3>4. SummaryDue' /\ OneFinalSummary'
      BY <2>1, <2>4, <3>3 DEF IInv, SummaryDue, OneFinalSummary, Headless
    <3>5. Counts' /\ StaleAhead'
      BY <2>1, <2>4 DEF IInv, Counts, StaleAhead
    <3> QED
      BY <3>2, <3>4, <3>5 DEF IInv
  <2> QED
    BY <2>2, <2>3, <2>4
<1>2. CASE Produce
  <2> USE DEF Produce
  <2>1. UNCHANGED <<mode, stage, turn, outcome, handler, raw, alt, shutdown, stale, now, finals>>
    BY <1>2
  <2>2. TerminalHeld' /\ OwnStages' /\ SummaryDue' /\ OneFinalSummary'
    BY <2>1 DEF IInv, TerminalHeld, OwnStages, SummaryDue, OneFinalSummary, Headless,
                WindowOver
  <2>3. PICK r \in 1..Len(Rings) : rings' = [rings EXCEPT ![r] = rings[r] + 1]
    BY <1>2
  <2>4. rings' \in [1..Len(Rings) -> Nat] /\ \A q \in 1..Len(Rings) : rings[q] <= rings'[q]
    <3> HIDE DEF Produce
    <3>1. rings \in [1..Len(Rings) -> Nat]
      BY DEF IInv, Counts
    <3>2. \A q \in 1..Len(Rings) : rings'[q] = IF q = r THEN rings[q] + 1 ELSE rings[q]
      BY <2>3, <3>1
    <3> QED
      BY <2>3, <3>1, <3>2
  <2>5. Counts' /\ StaleAhead'
    <3>1. Counts'
      BY <2>1, <2>4 DEF IInv, Counts
    <3>2. \A q \in 1..Len(Rings) : stale[q] <= rings[q] => stale[q] <= rings'[q]
      BY <2>4 DEF IInv, Counts
    <3> QED
      BY <2>1, <3>1, <3>2 DEF IInv, StaleAhead
  <2> QED
    BY <2>2, <2>5 DEF IInv
<1>3. CASE Toggle \/ Tick \/ UNCHANGED vars
  <2>1. UNCHANGED <<mode, stage, turn, outcome, handler, raw, alt, shutdown, rings, stale, finals>>
    BY <1>3 DEF Toggle, Tick, vars
  <2>2. now' = now \/ now' = now + 1
    BY <1>3 DEF Toggle, Tick, vars
  <2>3. now \in Nat => (now >= Duration => now' >= Duration)
    BY <2>2, SessionAssumption
  <2>4. TerminalHeld' /\ OwnStages'
    BY <2>1 DEF IInv, TerminalHeld, OwnStages, Headless
  <2>5. SummaryDue' /\ OneFinalSummary'
    BY <2>1, <2>3 DEF IInv, SummaryDue, OneFinalSummary, Headless, WindowOver, Counts
  <2>6. Counts' /\ StaleAhead'
    BY <2>1, <2>2 DEF IInv, Counts, StaleAhead
  <2> QED
    BY <2>4, <2>5, <2>6 DEF IInv
<1> QED
  BY <1>1, <1>2, <1>3

-----------------------------------------------------------------------------
(* The inductive invariant holds throughout.                               *)
THEOREM Invariance == Spec => []IInv
<1>1. ASSUME IInv, [Next]_vars PROVE IInv'
  BY <1>1, StartupStep, PollStep, HeadlessStep, ShowStep, PrintStep, SetupStep, LoopStep, RestoreStep,
     WorldStep DEF Next, Proceed, Fails
<1> QED
  BY <1>1, InitIInv, PTL DEF Spec

(* However it ends, peekbeam leaves the terminal as it found it, unless a  *)
(* call that sets up or restores the terminal failed.                      *)
THEOREM RestoredCorrect == Spec => []TerminalRestored
<1>1. IInv => TerminalRestored
  BY DEF IInv, TerminalHeld, TerminalRestored
<1> QED
  BY <1>1, Invariance, PTL

(* A headless run prints its one final summary, at its end and not before  *)
(* the window is over or a signal came.                                    *)
THEOREM FinalCorrect == Spec => []OneFinalSummary
<1>1. IInv => OneFinalSummary
  BY DEF IInv
<1> QED
  BY <1>1, Invariance, PTL

(* No summary and no frame leaves out a record that was there before its   *)
(* poll.                                                                   *)
THEOREM FreshCorrect == Spec => []SummaryIsFresh
<1>1. IInv => SummaryIsFresh
  BY DEF IInv, StaleAhead, SummaryIsFresh
<1> QED
  BY <1>1, Invariance, PTL

-----------------------------------------------------------------------------
(* A second invariant, of what the first leaves out: the type invariant,   *)
(* and that the timer is set at every summary or frame, so that one is     *)
(* about to be shown only when an interval has passed since the last one.  *)
Early == {"prepare", "attach", "install", "raw", "alt", "terminal"}

Spaced ==
  /\ last <= now
  /\ stage = "show" => Due
  /\ stage \in Early => times = <<>>
  /\ Headless /\ times = <<>> => last = 0
  /\ \A i \in 1..Len(times) : times[i] <= last
  /\ RefreshRate

JInv == TypeOK /\ Spaced

(* What a step does to the stage, to the rings and to the clock.           *)
StageStep ==
  /\ mode' = mode
  /\ stage' \in Stages /\ outcome' \in Outcomes
  /\ handler' \in BOOLEAN /\ shutdown' \in BOOLEAN
  /\ raw' \in BOOLEAN /\ alt' \in BOOLEAN /\ active' \in BOOLEAN
  /\ turn' \in {1, turn} \/ (turn' = turn + 1 /\ turn < Len(Programs) + Len(Rings))

RingStep ==
  \/ UNCHANGED data
  \/ stale' = rings /\ UNCHANGED rings
  \/ \E r \in 1..Len(Rings) :
       \/ /\ rings[r] > 0
          /\ rings' = [rings EXCEPT ![r] = @ - 1]
          /\ stale' = [stale EXCEPT ![r] = IF @ = 0 THEN 0 ELSE @ - 1]
       \/ /\ rings[r] < RingCap /\ UNCHANGED stale
          /\ rings' = [rings EXCEPT ![r] = @ + 1]

ClockStep ==
  \/ /\ UNCHANGED <<now, last, times>>
     /\ stage' = "show" => stage = "show" \/ Due
     /\ stage' \in Early => stage \in Early
  \/ now < MaxTime /\ now' = now + 1 /\ UNCHANGED <<stage, last, times>>
  \/ /\ stage = "show" /\ stage' \notin Early \cup {"show"}
     /\ times' = Append(times, now) /\ last' = now /\ UNCHANGED now
  \/ /\ stage = "terminal" /\ stage' = "check" /\ ~Headless
     /\ last' \in {now - Refresh, now} /\ UNCHANGED <<now, times>>

LEMMA StartupKinds ==
  ASSUME IInv, TypeOK, Prepare \/ Attach \/ Install \/ StartupFails
  PROVE  StageStep /\ RingStep /\ ClockStep
<1> USE DEF Prepare, Attach, Install, StartupFails, At, Goes, Ends, Wakes,
            startup, data, display, world
<1>1. StageStep
  <2>1. turn' \in {1, turn} \/ (turn' = turn + 1 /\ turn < Len(Programs) + Len(Rings))
    <3>1. CASE Attach /\ turn < Len(Programs)
      <4>1. turn' = turn + 1
        BY <3>1
      <4> QED
        BY <3>1, <4>1, SessionAssumption DEF TypeOK
    <3>2. CASE ~(Attach /\ turn < Len(Programs))
      BY <3>2
    <3> QED
      BY <3>1, <3>2
  <2>2. /\ mode' = mode /\ stage' \in Stages /\ outcome' \in Outcomes
        /\ handler' \in BOOLEAN /\ UNCHANGED <<shutdown, raw, alt, active>>
    BY DEF TypeOK, Stages, Outcomes
  <2> QED
    BY <2>1, <2>2 DEF StageStep, TypeOK
<1>2. RingStep
  BY DEF RingStep
<1>3. ClockStep
  BY DEF ClockStep, Early
<1> QED
  BY <1>1, <1>2, <1>3

LEMMA PollKinds ==
  ASSUME IInv, TypeOK, DrainRecord \/ DrainNext
  PROVE  StageStep /\ RingStep /\ ClockStep
<1> USE DEF DrainRecord, DrainNext, At, Goes, startup, data, display, world
<1>2. turn \in 1..Len(Rings)
  BY SessionAssumption DEF IInv, StaleAhead, TypeOK
<1>1. StageStep
  <2>1. turn' \in {1, turn} \/ (turn' = turn + 1 /\ turn < Len(Programs) + Len(Rings))
    <3>1. CASE DrainNext /\ turn < Len(Rings)
      <4>1. turn' = turn + 1
        BY <3>1
      <4> QED
        BY <3>1, <4>1, SessionAssumption DEF TypeOK
    <3>2. CASE ~(DrainNext /\ turn < Len(Rings))
      BY <3>2
    <3> QED
      BY <3>1, <3>2
  <2>2. /\ mode' = mode /\ stage' \in Stages /\ outcome' \in Outcomes
        /\ UNCHANGED <<handler, shutdown, raw, alt, active>>
    BY DEF TypeOK, Stages, Outcomes
  <2> QED
    BY <2>1, <2>2 DEF StageStep, TypeOK
<1>3. RingStep
  BY <1>2 DEF RingStep
<1>4. ClockStep
  BY DEF ClockStep, Early
<1> QED
  BY <1>1, <1>3, <1>4

LEMMA HeadlessKinds ==
  ASSUME IInv, TypeOK, Stop \/ Stream \/ Show \/ Sleep \/ Final \/ PrintFails
  PROVE  StageStep /\ RingStep /\ ClockStep
<1> USE DEF Stop, Stream, Show, Sleep, Final, PrintFails, Wakes, ResetTimer, At, Goes, Ends,
            startup, data, display, world
<1>1. StageStep
  BY DEF StageStep, TypeOK, Stages, Outcomes
<1>2. RingStep
  BY DEF RingStep
<1>3. ClockStep
  BY DEF ClockStep, Early
<1> QED
  BY <1>1, <1>2, <1>3

LEMMA TuiKinds ==
  ASSUME IInv, TypeOK,
         \/ EnableRaw \/ EnterAlternate \/ NewTerminal \/ SetupFails
         \/ Check \/ Input \/ Quit \/ Frame \/ LoopFails
         \/ DisableRaw \/ LeaveAlternate \/ RestoreFails
  PROVE  StageStep /\ RingStep /\ ClockStep
<1> USE DEF EnableRaw, EnterAlternate, NewTerminal, SetupFails, Check, Input, Quit, Frame,
            LoopFails, DisableRaw, LeaveAlternate, RestoreFails, AfterLoop, Wakes,
            At, Goes, Ends, startup, data, display, world
<1>1. StageStep
  <2>1. CASE EnableRaw \/ EnterAlternate \/ NewTerminal \/ SetupFails
    BY <2>1 DEF StageStep, TypeOK, Stages, Outcomes
  <2>2. CASE Check \/ Input \/ Quit
    BY <2>2 DEF StageStep, TypeOK, Stages, Outcomes
  <2>3. CASE Frame \/ LoopFails
    BY <2>3 DEF StageStep, TypeOK, Stages, Outcomes
  <2>4. CASE DisableRaw \/ LeaveAlternate \/ RestoreFails
    BY <2>4 DEF StageStep, TypeOK, Stages, Outcomes
  <2> HIDE DEF EnableRaw, EnterAlternate, NewTerminal, SetupFails, Check, Input, Quit, Frame,
               LoopFails, DisableRaw, LeaveAlternate, RestoreFails
  <2> QED
    BY <2>1, <2>2, <2>3, <2>4
<1>2. RingStep
  BY DEF RingStep
<1>3. ClockStep
  <2>1. stage = "terminal" => ~Headless
    BY DEF IInv, OwnStages
  <2> QED
    BY <2>1 DEF ClockStep, Early
<1> QED
  BY <1>1, <1>2, <1>3

LEMMA WorldKinds ==
  ASSUME IInv, TypeOK, Signal \/ Produce \/ Toggle \/ Tick \/ UNCHANGED vars
  PROVE  StageStep /\ RingStep /\ ClockStep
<1> USE DEF Signal, Produce, HasRoom, Toggle, Tick, Ends, startup, data, display, world, vars
<1>1. StageStep
  <2>1. /\ mode' = mode /\ turn' = turn
        /\ stage' \in {stage, "ended"} /\ outcome' \in {outcome, "killed"}
        /\ UNCHANGED <<handler, raw, alt>>
    OBVIOUS
  <2>2. shutdown' \in BOOLEAN /\ active' \in BOOLEAN
    BY DEF TypeOK
  <2> QED
    <3>1. /\ stage \in Stages /\ outcome \in Outcomes
          /\ handler \in BOOLEAN /\ raw \in BOOLEAN /\ alt \in BOOLEAN
      BY DEF TypeOK
    <3>2. stage' \in Stages /\ outcome' \in Outcomes
      BY <2>1, <3>1 DEF Stages, Outcomes
    <3>3. handler' \in BOOLEAN /\ raw' \in BOOLEAN /\ alt' \in BOOLEAN
      BY <2>1, <3>1
    <3> QED
      BY <2>1, <2>2, <3>2, <3>3 DEF StageStep
<1>2. RingStep
  BY DEF RingStep
<1>3. ClockStep
  BY DEF ClockStep, Early
<1> QED
  BY <1>1, <1>2, <1>3

LEMMA JInvStep ==
  ASSUME IInv, IInv', JInv, [Next]_vars
  PROVE  JInv'
<1>1. StageStep /\ RingStep /\ ClockStep
  BY StartupKinds, PollKinds, HeadlessKinds, TuiKinds, WorldKinds DEF JInv, Next, Proceed, Fails
<1>2. /\ stage' \in Stages /\ outcome' \in Outcomes /\ mode' \in Modes
      /\ handler' \in BOOLEAN /\ shutdown' \in BOOLEAN
      /\ raw' \in BOOLEAN /\ alt' \in BOOLEAN /\ active' \in BOOLEAN /\ finals' \in Nat
      /\ turn' \in 1..(Len(Programs) + Len(Rings) + 1)
  <2>1. turn' \in 1..(Len(Programs) + Len(Rings) + 1)
    <3>1. /\ turn \in 1..(Len(Programs) + Len(Rings) + 1)
          /\ Len(Programs) \in Nat /\ Len(Rings) \in Nat
      BY SessionAssumption DEF JInv, TypeOK
    <3>2. turn' \in {1, turn} \/ (turn' = turn + 1 /\ turn < Len(Programs) + Len(Rings))
      BY <1>1 DEF StageStep
    <3> QED
      BY <3>1, <3>2
  <2>2. finals' \in Nat /\ mode' \in Modes
    BY <1>1 DEF StageStep, IInv, Counts, JInv, TypeOK
  <2> QED
    BY <1>1, <2>1, <2>2 DEF StageStep
<1>3. rings' \in [1..Len(Rings) -> 0..RingCap] /\ stale' \in [1..Len(Rings) -> 0..RingCap]
  <2>1. /\ rings \in [1..Len(Rings) -> 0..RingCap] /\ stale \in [1..Len(Rings) -> 0..RingCap]
        /\ RingCap \in Nat
    BY SessionAssumption DEF JInv, TypeOK
  <2>2. CASE UNCHANGED data \/ (stale' = rings /\ UNCHANGED rings)
    BY <2>1, <2>2 DEF data
  <2>3. CASE \E r \in 1..Len(Rings) :
               /\ rings[r] > 0
               /\ rings' = [rings EXCEPT ![r] = @ - 1]
               /\ stale' = [stale EXCEPT ![r] = IF @ = 0 THEN 0 ELSE @ - 1]
    BY <2>1, <2>3
  <2>4. CASE \E r \in 1..Len(Rings) :
               /\ rings[r] < RingCap /\ UNCHANGED stale
               /\ rings' = [rings EXCEPT ![r] = @ + 1]
    BY <2>1, <2>4
  <2> QED
    BY <1>1, <2>2, <2>3, <2>4 DEF RingStep
<1>4. now' \in 0..MaxTime /\ last' \in (-Refresh)..MaxTime /\ times' \in Seq(0..MaxTime)
  <2>1. now \in 0..MaxTime /\ last \in (-Refresh)..MaxTime /\ times \in Seq(0..MaxTime)
    BY DEF JInv, TypeOK
  <2>2. times' = times \/ times' = Append(times, now)
    BY <1>1 DEF ClockStep
  <2>3. times' \in Seq(0..MaxTime)
    <3> DEFINE T == 0..MaxTime
    <3>1. times \in Seq(T) /\ now \in T
      BY <2>1
    <3> HIDE DEF T
    <3>2. times' \in Seq(T)
      BY <2>2, <3>1
    <3> QED
      BY <3>2 DEF T
  <2>4. now' \in 0..MaxTime /\ last' \in (-Refresh)..MaxTime
    BY <1>1, <2>1, SessionAssumption DEF ClockStep
  <2> QED
    BY <2>3, <2>4
<1>5. Spaced'
  <2>1. /\ times \in Seq(0..MaxTime) /\ last \in Int /\ now \in Nat /\ Refresh \in Nat
        /\ \A i \in 1..Len(times) : times[i] \in Nat
    BY SessionAssumption DEF JInv, TypeOK
  <2>2. Headless' = Headless
    BY <1>1 DEF StageStep, Headless
  <2>3. CASE /\ UNCHANGED <<now, last, times>>
             /\ stage' = "show" => stage = "show" \/ Due
             /\ stage' \in Early => stage \in Early
    BY <2>2, <2>3 DEF JInv, Spaced, Due, RefreshRate
  <2>4. CASE now' = now + 1 /\ UNCHANGED <<stage, last, times>>
    <3>1. last' <= now' /\ (stage' = "show" => Due')
      BY <2>1, <2>4 DEF JInv, Spaced, Due
    <3> QED
      BY <2>2, <2>4, <3>1 DEF JInv, Spaced, RefreshRate
  <2>5. CASE /\ stage = "show" /\ stage' \notin Early \cup {"show"}
             /\ times' = Append(times, now) /\ last' = now /\ UNCHANGED now
    <3>1. now - last >= Refresh /\ last <= now
      BY <2>5 DEF JInv, Spaced, Due
    <3>2. /\ Len(times') = Len(times) + 1 /\ Len(times) \in Nat
          /\ \A i \in 1..Len(times) : times'[i] = times[i]
          /\ times'[Len(times) + 1] = now
      BY <2>1, <2>5
    <3>3. \A i \in 1..Len(times) : times[i] <= last
      BY DEF JInv, Spaced
    <3>4. \A i \in 1..Len(times') : times'[i] <= last'
      BY <2>1, <2>5, <3>1, <3>2, <3>3
    <3>5. ASSUME NEW i \in 2..Len(times') PROVE times'[i] - times'[i - 1] >= Refresh
      <4>1. CASE i = Len(times) + 1
        <5>1. i - 1 \in 1..Len(times) /\ times'[i] = now
          BY <3>2, <3>5, <4>1
        <5>2. times'[i - 1] <= last /\ times'[i - 1] \in Nat
          BY <2>1, <3>2, <3>3, <5>1
        <5> QED
          BY <2>1, <3>1, <5>1, <5>2
      <4>2. CASE i # Len(times) + 1
        <5>1. i \in 2..Len(times) /\ i \in 1..Len(times) /\ i - 1 \in 1..Len(times)
          BY <3>2, <3>5, <4>2
        <5>2. times[i] - times[i - 1] >= Refresh
          BY <5>1 DEF JInv, Spaced, RefreshRate
        <5> QED
          BY <3>2, <5>1, <5>2
      <4> QED
        BY <4>1, <4>2
    <3>6. Headless => times'[1] >= Refresh
      <4>1. CASE times = <<>>
        BY <2>1, <3>1, <3>2, <4>1 DEF JInv, Spaced
      <4>2. CASE times # <<>>
        <5>1. 1 \in 1..Len(times)
          BY <2>1, <4>2
        <5> QED
          BY <3>2, <4>2, <5>1 DEF JInv, Spaced, RefreshRate
      <4> QED
        BY <4>1, <4>2
    <3>7. RefreshRate'
      BY <2>2, <3>5, <3>6 DEF RefreshRate
    <3>8. times' # <<>>
      BY <2>1, <2>5
    <3> QED
      BY <2>1, <2>5, <3>4, <3>7, <3>8 DEF Spaced
  <2>6. CASE /\ stage = "terminal" /\ stage' = "check" /\ ~Headless
             /\ last' \in {now - Refresh, now} /\ UNCHANGED <<now, times>>
    <3>1. times = <<>> /\ last' <= now'
      BY <2>1, <2>6 DEF JInv, Spaced, Early
    <3> QED
      BY <2>2, <2>6, <3>1 DEF Spaced, Early, RefreshRate
  <2> QED
    BY <1>1, <2>3, <2>4, <2>5, <2>6 DEF ClockStep
<1> QED
  BY <1>2, <1>3, <1>4, <1>5 DEF JInv, TypeOK

LEMMA JInvariance == Spec => []JInv
<1>1. ASSUME Init PROVE JInv
  <2>0. /\ turn = 1 /\ now = 0 /\ last = 0 /\ times = <<>> /\ finals = 0
        /\ rings = [r \in 1..Len(Rings) |-> 0] /\ stale = [r \in 1..Len(Rings) |-> 0]
    BY <1>1 DEF Init
  <2>1. Spaced
    <3>1. stage = "prepare" /\ Len(times) = 0
      BY <1>1, <2>0 DEF Init
    <3> QED
      BY <2>0, <3>1 DEF Spaced, Early, RefreshRate
  <2>2. turn \in 1..(Len(Programs) + Len(Rings) + 1)
    BY <2>0, SessionAssumption
  <2>3. rings \in [1..Len(Rings) -> 0..RingCap] /\ stale \in [1..Len(Rings) -> 0..RingCap]
    BY <2>0, SessionAssumption
  <2>4. /\ now \in 0..MaxTime /\ last \in (-Refresh)..MaxTime
        /\ times \in Seq(0..MaxTime) /\ finals \in Nat
    BY <2>0, SessionAssumption
  <2>5. /\ mode \in Modes /\ stage \in Stages /\ outcome \in Outcomes /\ active \in BOOLEAN
        /\ handler \in BOOLEAN /\ shutdown \in BOOLEAN /\ raw \in BOOLEAN /\ alt \in BOOLEAN
    BY <1>1 DEF Init, Stages, Outcomes
  <2> QED
    BY <2>1, <2>2, <2>3, <2>4, <2>5 DEF JInv, TypeOK
<1> QED
  BY <1>1, JInvStep, Invariance, PTL DEF Spec

(* The type invariant; in particular no ring ever exceeds its limit.       *)
THEOREM TypeCorrect == Spec => []TypeOK
<1>1. JInv => TypeOK
  BY DEF JInv
<1> QED
  BY <1>1, JInvariance, PTL

(* However long polls and prints take, headless::run and run_loop leave at *)
(* least one refresh interval between two summaries or frames.             *)
THEOREM RateCorrect == Spec => []RefreshRate
<1>1. JInv => RefreshRate
  BY DEF JInv, Spaced
<1> QED
  BY <1>1, JInvariance, PTL

=============================================================================
