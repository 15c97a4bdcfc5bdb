----------------------------- MODULE BootButton -----------------------------
(***************************************************************************)
(* boot_button.c of the ESP8266 firmware: the task that polls the BOOT key *)
(* and reports a short press, which opens the door, when it is released,   *)
(* and a long press, which starts provisioning, while it is held.  Time is *)
(* the tick count of FreeRTOS, which wraps around; tick 0 also stands for  *)
(* "not pressed".                                                          *)
(*                                                                         *)
(* Abstracted: the two reads of the tick count in one poll are one.        *)
(***************************************************************************)
EXTENDS Integers, Sequences

CONSTANTS Ticks,       \* values of TickType_t (2^32)
          PollTicks,   \* pollMs
          ShortTicks,  \* shortPressTicks
          LongTicks,   \* longPressTicks
          MaxLate,     \* bound: ticks by which other tasks make a poll late
          MaxBlock     \* bound: ticks that a callback may take

MaxPoll == PollTicks + MaxLate

ASSUME TicksAssumption ==
  /\ Ticks \in Nat /\ PollTicks \in Nat \ {0} /\ MaxLate \in Nat
  /\ MaxBlock \in Nat
  /\ ShortTicks \in Nat \ {0} /\ LongTicks \in Nat /\ ShortTicks <= LongTicks
  /\ LongTicks + MaxPoll < Ticks /\ MaxPoll + MaxBlock < Ticks

VARIABLES
  tick,            \* xTaskGetTickCount()
  pressStartTick, longReported,
  step,            \* what the task does next
  pressed,         \* history: the last poll found the key down
  held,            \* history: how long, since the first poll of the press
  reports          \* history: what was reported of this press or the last

vars == <<tick, pressStartTick, longReported, step, pressed, held, reports>>

\* bound: beyond it no poll depends on how long the key is held
MaxHeld == LongTicks + MaxPoll

Init ==
  /\ tick \in 0..Ticks - 1
  /\ pressStartTick = 0 /\ longReported = FALSE
  /\ step = "poll"
  /\ pressed = FALSE /\ held = 0 /\ reports = <<>>

\* Arithmetic of TickType_t.
Later(t, d) == IF t + d < Ticks THEN t + d ELSE t + d - Ticks

Elapsed(start) == IF tick >= start THEN tick - start ELSE tick - start + Ticks

Report(kind) == reports' = Append(IF pressed THEN reports ELSE <<>>, kind)
NoReport == reports' = IF pressed THEN reports ELSE <<>>

-----------------------------------------------------------------------------
\* Mutant of LongPress: every poll reports it.
LongAgain(start) == Elapsed(start) >= LongTicks

\* Mutant of LongPress: the time is not converted to ticks of 10 ms.
LongInMs(start) == ~longReported /\ Elapsed(start) >= 10 * LongTicks

LongPress(start) == ~longReported /\ Elapsed(start) >= LongTicks

\* The key is down: the press is timed from now on if it was not, and reported
\* when it is long, once.
PollDown ==
  /\ step = "poll"
  /\ pressed' = TRUE
  /\ held' = IF pressed THEN held ELSE 0
  /\ LET start == IF pressStartTick = 0 THEN tick ELSE pressStartTick
     IN /\ pressStartTick' = start
        /\ longReported' = (longReported \/ LongPress(start))
        /\ IF LongPress(start) THEN Report("long") /\ step' = "callback"
           ELSE NoReport /\ step' = "delay"
  /\ UNCHANGED tick

\* Mutant of Release: the report is left.
ReleaseKeepsReport == pressStartTick' = 0 /\ UNCHANGED longReported

Release == pressStartTick' = 0 /\ longReported' = FALSE

\* The key is up: a press that was long enough, and not reported, was short.
PollUp ==
  /\ step = "poll"
  /\ pressed' = FALSE
  /\ LET pressedTicks == IF pressStartTick > 0 THEN Elapsed(pressStartTick) ELSE 0
     IN IF ~longReported /\ pressedTicks >= ShortTicks
        THEN Report("short") /\ step' = "callback"
        ELSE UNCHANGED reports /\ step' = "delay"
  /\ Release
  /\ UNCHANGED <<tick, held>>

\* The callback takes its time; then the task sleeps until the next poll, which
\* other tasks may delay.
Sleep ==
  /\ step # "poll"
  /\ \E d \in PollTicks..(MaxPoll + MaxBlock) :
       /\ step = "delay" => d <= MaxPoll
       /\ tick' = Later(tick, d)
       /\ held' = IF ~pressed THEN held
                  ELSE IF held + d < MaxHeld THEN held + d ELSE MaxHeld
  /\ step' = "poll"
  /\ UNCHANGED <<pressStartTick, longReported, pressed, reports>>

Next == PollDown \/ PollUp \/ Sleep

Spec == Init /\ [][Next]_vars

-----------------------------------------------------------------------------
ButtonTypeOK ==
  /\ tick \in 0..Ticks - 1 /\ pressStartTick \in 0..Ticks - 1
  /\ longReported \in BOOLEAN /\ pressed \in BOOLEAN
  /\ step \in {"poll", "delay", "callback"}
  /\ held \in 0..MaxHeld
  /\ reports \in Seq({"short", "long"})

\* A press is reported once or not at all, as short only when it is over.
ReportedOnce ==
  reports \in IF pressed THEN {<<>>, <<"long">>} ELSE {<<>>, <<"short">>, <<"long">>}

\* Wherever the tick count wraps, what is reported is what the key was held for:
\* as the press begins at the poll that finds it, and one that begins at tick 0
\* is timed from the poll after, a report may come one poll late.
ReportTellsHeld ==
  step # "poll" /\ pressed =>
    /\ reports = <<"long">> => held >= LongTicks
    /\ held >= LongTicks + MaxPoll => reports = <<"long">>

\* A poll that finds the key up reports a press that was neither too short, nor
\* long, as short.
ShortWhenReleased ==
  [][PollUp /\ pressed =>
       /\ reports' = <<"short">> => held >= ShortTicks /\ reports = <<>>
       /\ held >= ShortTicks + MaxPoll => reports' # <<>>]_vars
=============================================================================
