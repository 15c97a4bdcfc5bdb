SPECIFICATION Spec
CONSTANTS
  Ticks <- TickCount
  PollTicks = 5
  ShortTicks = 8
  LongTicks = 30
  MaxLate = 2
  MaxBlock = 7
INVARIANTS ReportedOnce ReportTellsHeld
PROPERTY ShortWhenReleased
