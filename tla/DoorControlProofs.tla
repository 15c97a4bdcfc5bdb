-------------------------- MODULE DoorControlProofs --------------------------
(***************************************************************************)
(* Proofs about DoorControl for any number of websocket clients and any    *)
(* length of the timer command queue.                                      *)
(***************************************************************************)
EXTENDS DoorControl, TLAPS

USE TaskAssumption, QueueAssumption DEF Caller, Task

-----------------------------------------------------------------------------
(* Types and control flow.                                                 *)

TypeInv == TypeOK /\ Control

\* Posting a command about a timer that exists keeps a well-formed queue.
LEMMA PostType ==
  ASSUME TypeOK, NEW kind \in {"stop", "changePeriod", "start"},
         autoCloseTimer # NoTimer, Post(kind)
  PROVE  /\ timerQueue' \in Seq(Command)
         /\ Len(timerQueue') <= QueueLen
         /\ armDropped' \in BOOLEAN
<1>1. [kind |-> kind, timer |-> autoCloseTimer] \in Command
  BY DEF TypeOK, Command
<1>2. QueueFull \in BOOLEAN
  BY DEF QueueFull
<1>3. armDropped' \in BOOLEAN
  BY <1>2, Zenon DEF Post, TypeOK
<1>4. CASE QueueFull
  BY <1>3, <1>4 DEF Post, TypeOK
<1>5. CASE ~QueueFull
  <2>1. timerQueue' = Append(timerQueue, [kind |-> kind, timer |-> autoCloseTimer])
    BY <1>5, Zenon DEF Post
  <2>2. Len(timerQueue) < QueueLen
    BY <1>5 DEF QueueFull, TypeOK
  <2>3. QED
    BY <1>1, <1>3, <2>1, <2>2 DEF TypeOK
<1>6. QED
  BY <1>2, <1>4, <1>5

\* The steps of an open or a close keep the types and the control flow.
LEMMA DoorStepType ==
  ASSUME TypeInv, NEW t \in Task, DoorStep(t)
  PROVE  TypeInv'
<1> USE DEF TypeInv, TypeOK, Control, Step, Goto
<1>1. CASE SetOpen(t)
  BY <1>1 DEF SetOpen
<1>2. CASE CancelAutoClose(t)
  <2>1. /\ timerQueue' \in Seq(Command)
        /\ Len(timerQueue') <= QueueLen
        /\ armDropped' \in BOOLEAN
    BY <1>2, PostType DEF CancelAutoClose
  <2>2. QED
    BY <1>2, <2>1 DEF CancelAutoClose
<1>3. CASE SetClosed(t)
  BY <1>3 DEF SetClosed
<1>4. CASE NotifyState(t)
  BY <1>4 DEF NotifyState
<1>5. CASE ReportDoorStatus(t)
  BY <1>5 DEF ReportDoorStatus
<1>6. CASE Publish(t)
  BY <1>6 DEF Publish
<1>7. CASE SetAngle(t)
  BY <1>7 DEF SetAngle
<1>8. CASE CheckTimer(t)
  BY <1>8 DEF CheckTimer
<1>9. CASE CreateTimer(t)
  BY <1>9 DEF CreateTimer
<1>10. CASE CreateFails(t)
  BY <1>10 DEF CreateFails
<1>11. CASE ScheduleAutoClose(t)
  <2>1. CASE NoTimerToArm(t)
    BY <2>1 DEF NoTimerToArm
  <2>2. ASSUME NEW kind \in {"stop", "changePeriod", "start"},
               NEW next \in {"changePeriod", "start", "idle"},
               autoCloseTimer # NoTimer, PostCommand(t, kind, next)
        PROVE  TypeInv'
    <3>1. /\ timerQueue' \in Seq(Command)
          /\ Len(timerQueue') <= QueueLen
          /\ armDropped' \in BOOLEAN
      BY <2>2, PostType DEF PostCommand
    <3>2. QED
      BY <2>2, <3>1 DEF PostCommand
  <2>3. QED
    BY <1>11, <2>1, <2>2 DEF ScheduleAutoClose, PostCommand
<1>12. QED
  BY <1>1, <1>2, <1>3, <1>4, <1>5, <1>6, <1>7, <1>8, <1>9, <1>10, <1>11
  DEF DoorStep

\* Type correctness, with the control flow that each task is confined to: the
\* timer service only ever closes the door, and a timer that is armed exists.
LEMMA TypeInvariant == Spec => []TypeInv
<1>1. Init => TypeInv
  <2>1. ASSUME Init
        PROVE  timerQueue \in Seq(Command) /\ Len(timerQueue) <= QueueLen
    BY <2>1 DEF Init
  <2>2. QED
    BY <2>1 DEF Init, TypeInv, TypeOK, Control, Step
<1>2. TypeInv /\ [Next]_vars => TypeInv'
  <2> SUFFICES ASSUME TypeInv, [Next]_vars PROVE TypeInv'
    OBVIOUS
  <2> USE DEF TypeInv, TypeOK, Control, Step, Goto
  <2>1. ASSUME NEW t \in Caller, NEW o \in {"open", "close"}, Request(t, o)
        PROVE  TypeInv'
    BY <2>1 DEF Request, BeginCall
  <2>2. ASSUME NEW t \in Task, DoorStep(t)
        PROVE  TypeInv'
    BY <2>2, DoorStepType
  <2>3. CASE TimerCommand
    <3>1. Head(timerQueue) \in Command /\ Tail(timerQueue) \in Seq(Command)
          /\ Len(Tail(timerQueue)) <= QueueLen
      BY <2>3 DEF TimerCommand
    <3>2. QED
      BY <2>3, <3>1 DEF TimerCommand, Command
  <2>4. CASE TimerExpires
    BY <2>4 DEF TimerExpires
  <2>5. CASE AutoCloseCallback
    <3>1. CASE isOpen
      BY <2>5, <3>1 DEF AutoCloseCallback, BeginCall
    <3>2. CASE ~isOpen
      BY <2>5, <3>2 DEF AutoCloseCallback
    <3>3. QED
      BY <3>1, <3>2
  <2>6. CASE UNCHANGED vars
    BY <2>6 DEF vars
  <2>7. QED
    BY <2>1, <2>2, <2>3, <2>4, <2>5, <2>6 DEF Next, TimerStep
<1>3. QED
  BY <1>1, <1>2, PTL DEF Spec

\* TypeOK for any number of clients and any queue length: the timer queue never
\* holds more commands than it has room for, each of a timer that was created.
THEOREM TypeCorrect == Spec => []TypeOK
<1>1. TypeInv => TypeOK
  BY DEF TypeInv
<1>2. QED
  BY <1>1, TypeInvariant, PTL

-----------------------------------------------------------------------------
(* Auto-close: an open door always has a closing step ahead of it.         *)

\* Processing the head of the command queue does not change which timers run
\* once the queue is empty.
LEMMA ArmedKept ==
  ASSUME TypeInv, TimerCommand, NEW tm \in Caller, Armed(tm)
  PROVE  Armed(tm)'
<1> DEFINE q == timerQueue
<1>1. /\ q \in Seq(Command) /\ q # <<>>
      /\ timerQueue' = Tail(q)
      /\ active' = IF q[1].kind = "stop" THEN active \ {q[1].timer}
                   ELSE active \cup {q[1].timer}
  <2>1. q \in Seq(Command) /\ q # <<>> /\ timerQueue' = Tail(q)
    BY DEF TimerCommand, TypeInv, TypeOK
  <2>2. Head(q) = q[1]
    BY <2>1
  <2>3. active' = IF Head(q).kind = "stop" THEN active \ {Head(q).timer}
                  ELSE active \cup {Head(q).timer}
    BY Zenon DEF TimerCommand
  <2>4. QED
    BY <2>1, <2>2, <2>3
<1>2. /\ Len(q) \in Nat \ {0}
      /\ Len(timerQueue') = Len(q) - 1
      /\ \A m \in 1..(Len(q) - 1) : timerQueue'[m] = q[m + 1]
  BY <1>1
<1>3. CASE \E k \in 2..Len(q) :
             /\ q[k].timer = tm /\ q[k].kind # "stop"
             /\ \A m \in (k + 1)..Len(q) : q[m].timer = tm => q[m].kind # "stop"
  <2>1. PICK k \in 2..Len(q) :
             /\ q[k].timer = tm /\ q[k].kind # "stop"
             /\ \A m \in (k + 1)..Len(q) : q[m].timer = tm => q[m].kind # "stop"
    BY <1>3
  <2>2. /\ k - 1 \in 1..Len(timerQueue')
        /\ timerQueue'[k - 1].timer = tm /\ timerQueue'[k - 1].kind # "stop"
    BY <1>2, <2>1
  <2>3. \A m \in ((k - 1) + 1)..Len(timerQueue') :
          timerQueue'[m].timer = tm => timerQueue'[m].kind # "stop"
    BY <1>2, <2>1
  <2>4. QED
    BY <2>2, <2>3 DEF Armed
<1>4. CASE /\ tm \in active'
           /\ \A m \in 2..Len(q) : q[m].timer = tm => q[m].kind # "stop"
  <2>1. \A m \in 1..Len(timerQueue') :
          timerQueue'[m].timer = tm => timerQueue'[m].kind # "stop"
    BY <1>2, <1>4
  <2>2. QED
    BY <1>4, <2>1 DEF Armed
<1>5. QED
  <2>1. CASE \E k \in 1..Len(q) :
               /\ q[k].timer = tm /\ q[k].kind # "stop"
               /\ \A m \in (k + 1)..Len(q) : q[m].timer = tm => q[m].kind # "stop"
    <3>1. PICK k \in 1..Len(q) :
               /\ q[k].timer = tm /\ q[k].kind # "stop"
               /\ \A m \in (k + 1)..Len(q) : q[m].timer = tm => q[m].kind # "stop"
      BY <2>1
    <3>2. CASE k = 1
      BY <1>1, <1>4, <3>1, <3>2
    <3>3. CASE k # 1
      BY <1>2, <1>3, <3>1, <3>3
    <3>4. QED
      BY <3>2, <3>3
  <2>2. CASE /\ tm \in active
             /\ \A m \in 1..Len(q) : q[m].timer = tm => q[m].kind # "stop"
    BY <1>1, <1>2, <1>4, <2>2
  <2>3. QED
    BY <2>1, <2>2 DEF Armed

\* The command that starts the timer either arms it or is dropped.
LEMMA StartArms ==
  ASSUME TypeInv, Post("start"), ~armDropped', UNCHANGED autoCloseTimer
  PROVE  Armed(autoCloseTimer)'
<1>1. ~QueueFull
  BY DEF Post
<1>2. timerQueue' = Append(timerQueue, [kind |-> "start", timer |-> autoCloseTimer])
  BY <1>1, Zenon DEF Post
<1>3. timerQueue \in Seq(Command)
  BY DEF TypeInv, TypeOK
<1>4. /\ Len(timerQueue') = Len(timerQueue) + 1
      /\ Len(timerQueue) \in Nat
      /\ timerQueue'[Len(timerQueue')] = [kind |-> "start", timer |-> autoCloseTimer]
  BY <1>2, <1>3
<1>5. \A m \in (Len(timerQueue') + 1)..Len(timerQueue') : FALSE
  BY <1>4
<1> DEFINE k == Len(timerQueue')
<1>6. \E j \in 1..Len(timerQueue') :
        /\ timerQueue'[j].timer = autoCloseTimer /\ timerQueue'[j].kind # "stop"
        /\ \A m \in (j + 1)..Len(timerQueue') : FALSE
  <2>1. k \in 1..Len(timerQueue')
    BY <1>4
  <2>2. WITNESS k \in 1..Len(timerQueue')
  <2>3. QED
    BY <1>4, <1>5
<1>7. QED
  BY <1>6 DEF Armed

\* A task whose step leaves it arming, or about to clear s_isOpen, keeps the
\* invariant whatever happens to the queue.
LEMMA DoorStepArm ==
  ASSUME TypeInv, ArmInv, NEW t \in Task, DoorStep(t)
  PROVE  ArmInv'
<1> USE DEF TypeInv, TypeOK, Control, Goto
<1>1. CASE SetOpen(t)
  <2>1. Arming(t)'
    BY <1>1 DEF SetOpen, Arming
  <2>2. QED
    BY <2>1 DEF ArmInv
<1>2. CASE CancelAutoClose(t)
  <2>1. Closing(t)'
    BY <1>2 DEF CancelAutoClose, Closing
  <2>2. QED
    BY <2>1 DEF ArmInv
<1>3. CASE SetClosed(t)
  BY <1>3 DEF SetClosed, ArmInv
<1>4. ASSUME UNCHANGED <<isOpen, active, timerQueue, armDropped>>,
             \/ UNCHANGED autoCloseTimer
             \/ Arming(t)',
             Arming(t) => Arming(t)',
             Closing(t) => Closing(t)',
             \A u \in Task \ {t} : pc'[u] = pc[u] /\ op'[u] = op[u]
      PROVE  ArmInv'
  <2>1. \A u \in Task : (Arming(u) => Arming(u)') /\ (Closing(u) => Closing(u)')
    BY <1>4 DEF Arming, Closing
  <2>2. \A tm \in Caller : Armed(tm) => Armed(tm)'
    BY <1>4 DEF Armed
  <2>3. CASE Arming(t)'
    BY <2>3 DEF ArmInv
  <2>4. CASE UNCHANGED autoCloseTimer
    BY <1>4, <2>1, <2>2, <2>4 DEF ArmInv
  <2>5. QED
    BY <1>4, <2>3, <2>4
<1>5. CASE NotifyState(t)
  BY <1>4, <1>5 DEF NotifyState, Arming, Closing
<1>6. CASE ReportDoorStatus(t)
  BY <1>4, <1>6 DEF ReportDoorStatus, Arming, Closing
<1>7. CASE Publish(t)
  BY <1>4, <1>7 DEF Publish, Arming, Closing
<1>8. CASE SetAngle(t)
  BY <1>4, <1>8 DEF SetAngle, Arming, Closing
<1>9. CASE CheckTimer(t)
  BY <1>4, <1>9 DEF CheckTimer, Arming, Closing
<1>10. CASE CreateTimer(t)
  BY <1>4, <1>10 DEF CreateTimer, Arming, Closing
<1>11. CASE CreateFails(t)
  BY <1>4, <1>11 DEF CreateFails, Arming, Closing
<1>12. CASE ScheduleAutoClose(t)
  <2>1. CASE \/ PostCommand(t, "stop", "changePeriod")
             \/ PostCommand(t, "changePeriod", "start")
    <3>1. Arming(t)'
      BY <2>1 DEF PostCommand, Arming
    <3>2. QED
      BY <3>1 DEF ArmInv
  <2>2. CASE PostCommand(t, "start", "idle")
    <3>1. UNCHANGED autoCloseTimer /\ Post("start")
      BY <2>2 DEF PostCommand
    <3>2. autoCloseTimer # NoTimer => autoCloseTimer' \in Caller
      BY <3>1
    <3>3. ~armDropped' => Armed(autoCloseTimer)'
      BY <3>1, StartArms
    <3>4. QED
      BY <3>1, <3>2, <3>3 DEF ArmInv
  <2>3. CASE NoTimerToArm(t)
    BY <2>3 DEF NoTimerToArm, ArmInv
  <2>4. QED
    BY <1>12, <2>1, <2>2, <2>3 DEF ScheduleAutoClose
<1>13. QED
  BY <1>1, <1>2, <1>3, <1>5, <1>6, <1>7, <1>8, <1>9, <1>10, <1>11, <1>12
  DEF DoorStep

\* AutoCloseArmed for any number of clients and any queue length: the step
\* that will close an open door is never lost between the tasks.
THEOREM AutoClose == Spec => []AutoCloseArmed
<1>1. Init => ArmInv
  BY DEF Init, ArmInv
<1>2. TypeInv /\ ArmInv /\ [Next]_vars => ArmInv'
  <2> SUFFICES ASSUME TypeInv, ArmInv, [Next]_vars PROVE ArmInv'
    OBVIOUS
  <2> USE DEF TypeInv, TypeOK, Control, Goto
  <2>1. ASSUME NEW t \in Caller, NEW o \in {"open", "close"}, Request(t, o)
        PROVE  ArmInv'
    <3>1. UNCHANGED <<isOpen, autoCloseTimer, armDropped, active, timerQueue>>
      BY <2>1 DEF Request
    <3>2. \A u \in Task : (Arming(u) => Arming(u)') /\ (Closing(u) => Closing(u)')
      BY <2>1 DEF Request, BeginCall, Arming, Closing
    <3>3. \A tm \in Caller : Armed(tm) => Armed(tm)'
      BY <3>1 DEF Armed
    <3>4. QED
      BY <3>1, <3>2, <3>3 DEF ArmInv
  <2>2. ASSUME NEW t \in Task, DoorStep(t)
        PROVE  ArmInv'
    BY <2>2, DoorStepArm
  <2>3. CASE TimerCommand
    <3>1. UNCHANGED <<pc, op, isOpen, autoCloseTimer, armDropped>>
      BY <2>3 DEF TimerCommand
    <3>2. \A tm \in Caller : Armed(tm) => Armed(tm)'
      BY <2>3, ArmedKept
    <3>3. \A u \in Task : (Arming(u) => Arming(u)') /\ (Closing(u) => Closing(u)')
      BY <3>1 DEF Arming, Closing
    <3>4. QED
      BY <3>1, <3>2, <3>3 DEF ArmInv
  <2>4. CASE TimerExpires
    <3>1. Closing(TimerTask)'
      BY <2>4 DEF TimerExpires, Closing
    <3>2. QED
      BY <3>1 DEF ArmInv
  <2>5. CASE AutoCloseCallback
    <3>1. CASE isOpen
      <4>1. Closing(TimerTask)'
        BY <2>5, <3>1 DEF AutoCloseCallback, BeginCall, Closing
      <4>2. QED
        BY <4>1 DEF ArmInv
    <3>2. CASE ~isOpen
      BY <2>5, <3>2 DEF AutoCloseCallback, ArmInv
    <3>3. QED
      BY <3>1, <3>2
  <2>6. CASE UNCHANGED vars
    BY <2>6 DEF vars, ArmInv, Armed, Arming, Closing
  <2>7. QED
    BY <2>1, <2>2, <2>3, <2>4, <2>5, <2>6 DEF Next, TimerStep
<1>3. ArmInv => AutoCloseArmed
  BY DEF ArmInv, AutoCloseArmed, Quiescent, Arming, Closing
<1>4. QED
  BY <1>1, <1>2, <1>3, TypeInvariant, PTL DEF Spec

-----------------------------------------------------------------------------
(* Agreement of servo, flag and cloud status after a call that ran alone.  *)

\* A call that runs alone establishes at each step what the next relies on.
LEMMA DoorStepSerial ==
  ASSUME TypeInv, SerialInv, NEW t \in Task, DoorStep(t)
  PROVE  SerialInv'
<1> SUFFICES ASSUME ~overlapped PROVE SerialInv'
  <2>1. overlapped' = overlapped
    BY DEF DoorStep, SetOpen, CancelAutoClose, SetClosed, NotifyState,
           ReportDoorStatus, Publish, SetAngle, CheckTimer, CreateTimer,
           CreateFails, ScheduleAutoClose, PostCommand, NoTimerToArm
  <2>2. QED
    BY <2>1 DEF SerialInv
<1> USE DEF TypeInv, TypeOK, Control, Goto
<1>1. /\ Busy(t) /\ Established(t)
      /\ \A u \in Task \ {t} : ~Busy(u)
  BY DEF SerialInv, Busy, DoorStep, SetOpen, CancelAutoClose, SetClosed,
         NotifyState, ReportDoorStatus, Publish, SetAngle, CheckTimer,
         CreateTimer, CreateFails, ScheduleAutoClose, PostCommand, NoTimerToArm
<1>2. \A u \in Task \ {t} : pc'[u] = pc[u]
  BY DEF DoorStep, SetOpen, CancelAutoClose, SetClosed, NotifyState,
         ReportDoorStatus, Publish, SetAngle, CheckTimer, CreateTimer,
         CreateFails, ScheduleAutoClose, PostCommand, NoTimerToArm
<1>3. \A u \in Task \ {t} : ~Busy(u)'
  BY <1>1, <1>2 DEF Busy
<1>4. SUFFICES /\ Busy(t)' => Established(t)'
               /\ ~Busy(t)' => /\ servo' = IF isOpen' THEN "open" ELSE "close"
                               /\ lastDoorStatus' = isOpen'
  BY <1>3 DEF SerialInv
<1> USE DEF Busy, Established
<1>5. CASE SetOpen(t)
  BY <1>1, <1>5 DEF SetOpen
<1>6. CASE CancelAutoClose(t)
  BY <1>1, <1>6 DEF CancelAutoClose
<1>7. CASE SetClosed(t)
  BY <1>1, <1>7 DEF SetClosed
<1>8. CASE NotifyState(t)
  <2>1. pc[t] = "notify" /\ isOpen = (op[t] = "open")
    BY <1>1, <1>8 DEF NotifyState
  <2>2. doorStatus'[t] = isOpen
    BY <1>8 DEF NotifyState
  <2>3. doorStatus'[t] = (op[t] = "open")
    BY <2>1, <2>2, Zenon
  <2>4. pc'[t] = "report" /\ op' = op /\ isOpen' = isOpen
    BY <1>8 DEF NotifyState
  <2>5. QED
    BY <2>1, <2>3, <2>4
<1>9. CASE ReportDoorStatus(t)
  <2>1. pc[t] = "report" /\ (isOpen <=> op[t] = "open")
    BY <1>1, <1>9 DEF ReportDoorStatus
  <2>2. doorStatus[t] = (op[t] = "open")
    BY <1>1, <2>1
  <2>3. lastDoorStatus' = (op[t] = "open")
    BY <1>9, <2>2, Zenon DEF ReportDoorStatus
  <2>4. pc'[t] \in {"publish", "servo"} /\ op' = op /\ isOpen' = isOpen
    BY <1>9 DEF ReportDoorStatus
  <2>5. QED
    BY <2>1, <2>3, <2>4
<1>10. CASE Publish(t)
  BY <1>1, <1>10 DEF Publish
<1>11. CASE SetAngle(t)
  BY <1>1, <1>11, ZenonT(40) DEF SetAngle
<1>12. CASE CheckTimer(t)
  BY <1>1, <1>12, ZenonT(40) DEF CheckTimer
<1>13. CASE CreateTimer(t)
  BY <1>1, <1>13, ZenonT(40) DEF CreateTimer
<1>14. CASE CreateFails(t)
  BY <1>1, <1>14, ZenonT(40) DEF CreateFails
<1>15. CASE ScheduleAutoClose(t)
  BY <1>1, <1>15 DEF ScheduleAutoClose, PostCommand, NoTimerToArm
<1>16. QED
  BY <1>5, <1>6, <1>7, <1>8, <1>9, <1>10, <1>11, <1>12, <1>13, <1>14, <1>15
  DEF DoorStep

\* SerialAgreement for any number of clients: a call that ran alone leaves the
\* servo, s_isOpen and s_lastDoorStatus in agreement.
THEOREM Serial == Spec => []SerialAgreement
<1>1. Init => SerialInv
  BY DEF Init, SerialInv, Busy
<1>2. TypeInv /\ SerialInv /\ [Next]_vars => SerialInv'
  <2> SUFFICES ASSUME TypeInv, SerialInv, [Next]_vars PROVE SerialInv'
    OBVIOUS
  <2> USE DEF TypeInv, TypeOK, Control, Goto
  <2>1. ASSUME NEW t \in Caller, NEW o \in {"open", "close"}, Request(t, o)
        PROVE  SerialInv'
    <3> SUFFICES ASSUME ~overlapped' PROVE SerialInv'
      BY DEF SerialInv
    <3>1. /\ pc'[t] \in {"setOpen", "cancel"}
          /\ \A u \in Task \ {t} : ~Busy(u) /\ pc'[u] = pc[u]
      BY <2>1 DEF Request, BeginCall, Busy
    <3>2. Busy(t)' /\ Established(t)' /\ \A u \in Task \ {t} : ~Busy(u)'
      BY <3>1 DEF Busy, Established
    <3>3. QED
      BY <3>2 DEF SerialInv
  <2>2. ASSUME NEW t \in Task, DoorStep(t)
        PROVE  SerialInv'
    BY <2>2, DoorStepSerial
  <2>3. CASE TimerCommand
    BY <2>3 DEF TimerCommand, SerialInv, Busy, Established
  <2>4. CASE TimerExpires
    BY <2>4 DEF TimerExpires, SerialInv, Busy, Established
  <2>5. CASE AutoCloseCallback
    <3>1. CASE ~isOpen
      BY <2>5, <3>1 DEF AutoCloseCallback, SerialInv, Busy, Established
    <3>2. CASE isOpen
      <4> SUFFICES ASSUME ~overlapped' PROVE SerialInv'
        BY DEF SerialInv
      <4>1. /\ pc'[TimerTask] = "cancel"
            /\ \A u \in Task \ {TimerTask} : ~Busy(u) /\ pc'[u] = pc[u]
        BY <2>5, <3>2 DEF AutoCloseCallback, BeginCall, Busy
      <4>2. /\ Busy(TimerTask)' /\ Established(TimerTask)'
            /\ \A u \in Task \ {TimerTask} : ~Busy(u)'
        BY <4>1 DEF Busy, Established
      <4>3. QED
        BY <4>2 DEF SerialInv
    <3>3. QED
      BY <3>1, <3>2
  <2>6. CASE UNCHANGED vars
    BY <2>6 DEF vars, SerialInv, Busy, Established
  <2>7. QED
    BY <2>1, <2>2, <2>3, <2>4, <2>5, <2>6 DEF Next, TimerStep
<1>3. SerialInv => SerialAgreement
  BY DEF SerialInv, SerialAgreement, Quiescent, Busy
<1>4. QED
  BY <1>1, <1>2, <1>3, TypeInvariant, PTL DEF Spec
=============================================================================
