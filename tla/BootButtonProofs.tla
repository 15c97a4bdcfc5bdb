-------------------------- MODULE BootButtonProofs --------------------------
(***************************************************************************)
(* Proofs about BootButton for every width of the tick count and all       *)
(* lengths of the poll, of the presses and of the callbacks.               *)
(***************************************************************************)
EXTENDS BootButton, TLAPS

USE TicksAssumption DEF MaxPoll

TicksInv ==
  /\ tick \in 0..Ticks - 1 /\ pressStartTick \in 0..Ticks - 1
  /\ held \in 0..MaxHeld

\* What is reported goes with the state of the task.
ReportInv ==
  /\ longReported \in BOOLEAN /\ pressed \in BOOLEAN
  /\ step \in {"poll", "delay", "callback"}
  /\ pressed => reports = IF longReported THEN <<"long">> ELSE <<>>
  /\ ~pressed => /\ pressStartTick = 0 /\ ~longReported
                 /\ reports \in {<<>>, <<"short">>, <<"long">>}
  /\ pressed /\ step = "callback" => longReported

\* Until the press is reported as long, its measured length falls short of what
\* it was held for by one poll at most: the poll that was lost if it began at
\* tick 0.  Less than Ticks have passed since, so the difference is exact.
TimedInv ==
  pressed =>
    \/ longReported /\ held >= LongTicks
    \/ ~longReported /\ pressStartTick = 0 /\ (step = "poll" <=> tick # 0)
         /\ held <= IF step = "poll" THEN MaxPoll ELSE 0
    \/ ~longReported /\ pressStartTick # 0
         /\ Elapsed(pressStartTick) <= held
         /\ held <= Elapsed(pressStartTick) + MaxPoll
         /\ Elapsed(pressStartTick) <
              LongTicks + (IF step = "poll" THEN MaxPoll ELSE 0)

ButtonInv == TicksInv /\ ReportInv /\ TimedInv

\* Ticks that pass are added to what has elapsed, wherever the count wraps.
LEMMA ElapsedAdds ==
  ASSUME TicksInv, NEW d \in Nat, Elapsed(pressStartTick) + d < Ticks,
         tick' = Later(tick, d), pressStartTick' = pressStartTick
  PROVE  Elapsed(pressStartTick)' = Elapsed(pressStartTick) + d
  BY DEF TicksInv, Elapsed, Later

-----------------------------------------------------------------------------
LEMMA InitInv == Init => ButtonInv
<1> SUFFICES ASSUME Init PROVE ButtonInv
  OBVIOUS
<1>1. TicksInv
  BY DEF Init, TicksInv, MaxHeld
<1>2. ReportInv /\ TimedInv
  BY DEF Init, ReportInv, TimedInv
<1>3. QED
  BY <1>1, <1>2 DEF ButtonInv

LEMMA PollDownInv == ASSUME ButtonInv, PollDown PROVE ButtonInv'
<1> DEFINE start == IF pressStartTick = 0 THEN tick ELSE pressStartTick
<1> USE DEF ButtonInv
<1>1. /\ step = "poll" /\ pressed' = TRUE /\ tick' = tick
      /\ pressStartTick' = start
      /\ held' = IF pressed THEN held ELSE 0
      /\ longReported' = (longReported \/ LongPress(start))
  BY DEF PollDown
<1>2. TicksInv'
  BY <1>1 DEF TicksInv, MaxHeld
<1>3. start = 0 <=> pressStartTick = 0 /\ tick = 0
  OBVIOUS
<1>4. /\ Elapsed(start) \in Nat
      /\ Elapsed(start)' = Elapsed(start)
      /\ pressStartTick = 0 => Elapsed(start) = 0
  BY <1>1 DEF Elapsed, TicksInv
<1>5. Elapsed(pressStartTick)' = Elapsed(start)
  BY <1>1, <1>4 DEF Elapsed
<1>6. CASE longReported
  <2>1. pressed /\ held >= LongTicks /\ ~LongPress(start) /\ longReported'
    BY <1>1, <1>6 DEF TimedInv, LongPress, ReportInv
  <2>2. reports' = <<"long">> /\ step' = "delay"
    BY <1>6, <2>1 DEF PollDown, NoReport, ReportInv
  <2>3. ReportInv'
    BY <1>1, <1>6, <2>1, <2>2 DEF ReportInv
  <2>4. TimedInv'
    BY <1>1, <2>1 DEF TimedInv
  <2>5. QED
    BY <1>2, <2>3, <2>4
<1>7. CASE ~longReported /\ LongPress(start)
  <2>1. Elapsed(start) >= LongTicks
    BY <1>7 DEF LongPress
  <2>2. pressStartTick # 0 /\ start = pressStartTick
    BY <1>4, <2>1
  <2>3. pressed
    BY <2>2 DEF ReportInv
  <2>4. reports' = <<"long">> /\ step' = "callback" /\ longReported'
    <3>1. Report("long") /\ step' = "callback"
      BY <1>7 DEF PollDown
    <3>2. reports = <<>>
      BY <1>7, <2>3 DEF ReportInv
    <3>3. longReported'
      BY <1>1, <1>7
    <3>4. QED
      BY <2>3, <3>1, <3>2, <3>3 DEF Report
  <2>5. held >= LongTicks /\ held' = held
    BY <1>1, <1>4, <1>7, <2>1, <2>2, <2>3 DEF TimedInv, TicksInv, MaxHeld
  <2>6. ReportInv'
    BY <1>1, <1>7, <2>4 DEF ReportInv
  <2>7. TimedInv'
    BY <1>1, <2>4, <2>5 DEF TimedInv
  <2>8. QED
    BY <1>2, <2>6, <2>7
<1>8. CASE ~longReported /\ ~LongPress(start)
  <2>1. ~longReported' /\ reports' = <<>> /\ step' = "delay"
    BY <1>1, <1>8 DEF PollDown, NoReport, ReportInv
  <2>2. Elapsed(start) < LongTicks
    BY <1>4, <1>8 DEF LongPress
  <2>3. ReportInv'
    BY <1>1, <1>8, <2>1 DEF ReportInv
  <2>4. CASE pressStartTick # 0
    <3>1. pressed /\ held' = held /\ start = pressStartTick
      BY <1>1, <2>4 DEF ReportInv
    <3>2. Elapsed(start) <= held /\ held <= Elapsed(start) + MaxPoll
      BY <1>8, <2>4, <3>1 DEF TimedInv
    <3>3. TimedInv'
      BY <1>1, <1>5, <2>1, <2>2, <2>4, <3>1, <3>2 DEF TimedInv
    <3>4. QED
      BY <1>2, <2>3, <3>3
  <2>5. CASE pressStartTick = 0
    <3>1. held' <= MaxPoll /\ held' >= 0
      BY <1>1, <1>8, <2>5 DEF TimedInv, TicksInv
    <3>2. start = tick /\ Elapsed(start) = 0
      BY <1>4, <2>5
    <3>3. tick = 0 => held' = 0
      BY <1>1, <1>8, <2>5 DEF TimedInv
    <3>4. TimedInv'
      BY <1>1, <1>5, <2>1, <2>2, <3>1, <3>2, <3>3 DEF TimedInv
    <3>5. QED
      BY <1>2, <2>3, <3>4
  <2>6. QED
    BY <2>4, <2>5
<1>9. QED
  BY <1>6, <1>7, <1>8, Zenon

LEMMA PollUpInv == ASSUME ButtonInv, PollUp PROVE ButtonInv'
<1> USE DEF ButtonInv
<1>1. /\ step = "poll" /\ pressed' = FALSE /\ UNCHANGED <<tick, held>>
      /\ pressStartTick' = 0 /\ longReported' = FALSE
  BY DEF PollUp, Release
<1>2. TicksInv'
  BY <1>1 DEF TicksInv
<1>3. \/ Report("short") /\ step' = "callback" /\ ~longReported
         /\ pressStartTick # 0
      \/ UNCHANGED reports /\ step' = "delay"
  BY DEF PollUp, TicksInv
<1>4. reports' \in {<<>>, <<"short">>, <<"long">>} /\ step' \in {"delay", "callback"}
  <2>1. CASE Report("short") /\ step' = "callback" /\ ~longReported /\ pressStartTick # 0
    <3>1. pressed /\ reports = <<>>
      BY <2>1 DEF ReportInv
    <3>2. QED
      BY <2>1, <3>1 DEF Report
  <2>2. CASE UNCHANGED reports /\ step' = "delay"
    <3>1. reports \in {<<>>, <<"short">>, <<"long">>}
      BY DEF ReportInv
    <3>2. QED
      BY <2>2, <3>1
  <2>3. QED
    BY <1>3, <2>1, <2>2, Zenon
<1>5. ReportInv' /\ TimedInv'
  BY <1>1, <1>4 DEF ReportInv, TimedInv
<1>6. QED
  BY <1>2, <1>5

LEMMA SleepInv == ASSUME ButtonInv, Sleep PROVE ButtonInv'
<1> USE DEF ButtonInv
<1>1. /\ step # "poll" /\ step' = "poll"
      /\ UNCHANGED <<pressStartTick, longReported, pressed, reports>>
  BY DEF Sleep
<1>2. PICK d \in PollTicks..(MaxPoll + MaxBlock) :
        /\ step = "delay" => d <= MaxPoll
        /\ tick' = Later(tick, d)
        /\ held' = IF ~pressed THEN held
                   ELSE IF held + d < MaxHeld THEN held + d ELSE MaxHeld
  BY Zenon DEF Sleep
<1>3. TicksInv'
  BY <1>1, <1>2 DEF TicksInv, Later, MaxHeld
<1>4. ReportInv'
  BY <1>1 DEF ReportInv
<1>5. CASE ~pressed
  BY <1>1, <1>3, <1>4, <1>5 DEF TimedInv
<1>6. CASE pressed /\ longReported
  <2>1. held' >= LongTicks
    BY <1>2, <1>6 DEF TimedInv, TicksInv, MaxHeld
  <2>2. QED
    BY <1>1, <1>3, <1>4, <1>6, <2>1 DEF TimedInv
<1>7. CASE pressed /\ ~longReported
  <2>1. d \in PollTicks..MaxPoll
    BY <1>1, <1>2, <1>7 DEF ReportInv
  <2>2. CASE pressStartTick = 0
    <3>1. tick = 0 /\ held = 0
      BY <1>1, <1>7, <2>2 DEF TimedInv, TicksInv
    <3>2. tick' # 0 /\ held' <= MaxPoll
      BY <1>2, <1>7, <2>1, <3>1 DEF Later, MaxHeld
    <3>3. TimedInv'
      BY <1>1, <1>7, <2>2, <3>2 DEF TimedInv
    <3>4. QED
      BY <1>3, <1>4, <3>3
  <2>3. CASE pressStartTick # 0
    <3>1. /\ Elapsed(pressStartTick) <= held
          /\ held <= Elapsed(pressStartTick) + MaxPoll
          /\ Elapsed(pressStartTick) < LongTicks
          /\ Elapsed(pressStartTick) \in Nat
      BY <1>1, <1>7, <2>3 DEF TimedInv, TicksInv, Elapsed
    <3>2. Elapsed(pressStartTick)' = Elapsed(pressStartTick) + d
      BY <1>1, <1>2, <2>1, <3>1, ElapsedAdds
    <3>3. /\ Elapsed(pressStartTick)' <= held'
          /\ held' <= Elapsed(pressStartTick)' + MaxPoll
      BY <1>2, <1>7, <2>1, <3>1, <3>2 DEF MaxHeld, TicksInv
    <3>4. Elapsed(pressStartTick)' < LongTicks + MaxPoll
      BY <2>1, <3>1, <3>2
    <3>5. TimedInv'
      BY <1>1, <1>7, <2>3, <3>3, <3>4 DEF TimedInv
    <3>6. QED
      BY <1>3, <1>4, <3>5
  <2>4. QED
    BY <2>2, <2>3
<1>8. QED
  BY <1>5, <1>6, <1>7 DEF ReportInv

THEOREM ButtonInvariant == Spec => []ButtonInv
<1>1. ButtonInv /\ [Next]_vars => ButtonInv'
  <2> SUFFICES ASSUME ButtonInv, [Next]_vars PROVE ButtonInv'
    OBVIOUS
  <2>1. CASE UNCHANGED vars
    BY <2>1 DEF vars, ButtonInv, TicksInv, ReportInv, TimedInv, Elapsed
  <2>2. QED
    BY <2>1, PollDownInv, PollUpInv, SleepInv DEF Next
<1>2. QED
  BY <1>1, InitInv, PTL DEF Spec

-----------------------------------------------------------------------------
\* Types: the arithmetic of the tick count stays within its width.
THEOREM TypeCorrect == Spec => []ButtonTypeOK
<1>1. ButtonInv => ButtonTypeOK
  <2> SUFFICES ASSUME ButtonInv PROVE ButtonTypeOK
    OBVIOUS
  <2>1. reports \in {<<>>, <<"short">>, <<"long">>}
    BY DEF ButtonInv, ReportInv
  <2>2. reports \in Seq({"short", "long"})
    <3>1. <<>> \in Seq({"short", "long"})
      OBVIOUS
    <3>2. "short" \in {"short", "long"} /\ "long" \in {"short", "long"}
      OBVIOUS
    <3>3. ASSUME NEW S, NEW x \in S PROVE <<x>> \in Seq(S)
      OBVIOUS
    <3>4. QED
      BY <2>1, <3>1, <3>2, <3>3, Zenon
  <2>3. TicksInv /\ ReportInv
    BY DEF ButtonInv
  <2>4. QED
    BY <2>2, <2>3 DEF TicksInv, ReportInv, ButtonTypeOK
<1>2. QED
  BY <1>1, ButtonInvariant, PTL

\* A press is never reported twice, nor while it lasts as short.
THEOREM PressReportedOnce == Spec => []ReportedOnce
<1>1. ButtonInv => ReportedOnce
  BY DEF ButtonInv, ReportInv, ReportedOnce
<1>2. QED
  BY <1>1, ButtonInvariant, PTL

\* A long press is reported when it is long, wherever the tick count wraps.
THEOREM LongTold == Spec => []ReportTellsHeld
<1>1. ButtonInv => ReportTellsHeld
  <2> SUFFICES ASSUME ButtonInv, step # "poll", pressed
               PROVE  /\ reports = <<"long">> => held >= LongTicks
                      /\ held >= LongTicks + MaxPoll => reports = <<"long">>
    BY DEF ReportTellsHeld
  <2>1. TicksInv /\ ReportInv /\ TimedInv
    BY DEF ButtonInv
  <2>2. CASE longReported
    BY <2>1, <2>2 DEF ReportInv, TimedInv
  <2>3. CASE ~longReported
    <3>1. reports = <<>>
      BY <2>1, <2>3 DEF ReportInv
    <3>2. held < LongTicks + MaxPoll
      BY <2>1, <2>3 DEF TimedInv, TicksInv, Elapsed
    <3>3. QED
      BY <2>1, <3>1, <3>2 DEF TicksInv, MaxHeld
  <2>4. QED
    BY <2>2, <2>3
<1>2. QED
  BY <1>1, ButtonInvariant, PTL

\* A released press is reported as short when it was, wherever the count wraps.
THEOREM ShortTold == Spec => ShortWhenReleased
<1> DEFINE Told == PollUp /\ pressed =>
       /\ reports' = <<"short">> => held >= ShortTicks /\ reports = <<>>
       /\ held >= ShortTicks + MaxPoll => reports' # <<>>
<1>1. ButtonInv /\ [Next]_vars => [Told]_vars
  <2> SUFFICES ASSUME ButtonInv, PollUp, pressed PROVE Told
    BY DEF vars
  <2>1. TicksInv /\ ReportInv /\ TimedInv /\ step = "poll"
    BY DEF ButtonInv, PollUp
  <2>2. CASE longReported
    <3>1. reports = <<"long">> /\ reports' = reports
      BY <2>1, <2>2 DEF PollUp, ReportInv
    <3>2. QED
      BY <3>1
  <2>3. CASE ~longReported /\ pressStartTick = 0
    <3>1. reports = <<>> /\ reports' = reports
      BY <2>1, <2>3 DEF PollUp, ReportInv
    <3>2. held < ShortTicks + MaxPoll
      BY <2>1, <2>3 DEF TimedInv, TicksInv, MaxHeld
    <3>3. QED
      BY <2>1, <3>1, <3>2 DEF TicksInv, MaxHeld
  <2>4. CASE ~longReported /\ pressStartTick # 0
    <3>1. /\ Elapsed(pressStartTick) \in Nat
          /\ Elapsed(pressStartTick) <= held
          /\ held <= Elapsed(pressStartTick) + MaxPoll
          /\ held \in Nat
      BY <2>1, <2>4 DEF TimedInv, TicksInv, Elapsed, MaxHeld
    <3>2. reports = <<>>
      BY <2>1, <2>4 DEF ReportInv
    <3>3. reports' = IF Elapsed(pressStartTick) >= ShortTicks
                     THEN <<"short">> ELSE <<>>
      BY <2>1, <2>4, <3>2 DEF PollUp, Report, TicksInv
    <3>4. QED
      BY <3>1, <3>2, <3>3
  <2>5. QED
    BY <2>2, <2>3, <2>4
<1>2. QED
  BY <1>1, ButtonInvariant, PTL DEF Spec, ShortWhenReleased
=============================================================================
