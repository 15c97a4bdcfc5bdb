----------------------------- MODULE DoorControl -----------------------------
(***************************************************************************)
(* The door controller of the ESP8266 firmware, door_control.c, together   *)
(* with what it calls: the servo, the door_status report of onenet_mqtt.c, *)
(* and the FreeRTOS timer service that runs the auto-close callback.       *)
(*                                                                         *)
(* door_control_open and door_control_close are called with no lock by the *)
(* boot-button task (a short press opens), by one task per websocket       *)
(* client, by the MQTT task (a property set from the cloud) and, through   *)
(* the auto-close callback, by the timer service task.  Every access to a  *)
(* variable the tasks share is a step of its own; a task's pc names the    *)
(* next such access.                                                       *)
(*                                                                         *)
(* Abstracted: s_openCount, s_closeCount, s_lastSource and s_lastOpenMs    *)
(* only feed the log and the status text; the time a timer runs for (an    *)
(* active timer may expire at any later moment).  A task's op and          *)
(* doorStatus return to their initial value after their last use.          *)
(***************************************************************************)
EXTENDS Naturals, Sequences

CONSTANTS Client,     \* tasks of the connected websocket clients
          Button,     \* boot_btn_task
          Mqtt,       \* mqtt_task, which runs the event handler
          TimerTask,  \* the FreeRTOS timer service task
          QueueLen,   \* configTIMER_QUEUE_LENGTH (10 in the firmware)
          NoTimer     \* s_autoCloseTimer == NULL

Caller == Client \cup {Button, Mqtt}
Task == Caller \cup {TimerTask}

ASSUME TaskAssumption ==
  /\ Button \notin Client
  /\ Mqtt \notin Client
  /\ Button # Mqtt
  /\ TimerTask \notin Caller
  /\ NoTimer \notin Task
ASSUME QueueAssumption == QueueLen \in Nat \ {0}

VARIABLES
  pc,              \* the next step of each task
  op,              \* the call a task is in: "open" or "close"
  doorStatus,      \* each task's argument of the state callback
  isOpen,          \* s_isOpen
  lastDoorStatus,  \* s_lastDoorStatus of onenet_mqtt.c
  servo,           \* the angle last commanded: "open" (90) or "close" (0)
  autoCloseTimer,  \* s_autoCloseTimer: the task that created it, or NoTimer
  active,          \* the timers that are running
  timerQueue,      \* commands the timer service has not processed
  armDropped,      \* history: the latest arming command found a full queue
  overlapped       \* history: the latest door call began during another one

vars == <<pc, op, doorStatus, isOpen, lastDoorStatus, servo, autoCloseTimer,
          active, timerQueue, armDropped, overlapped>>

Step == {"idle", "setOpen", "cancel", "setClosed", "notify", "report",
         "publish", "servo", "create", "make", "stop", "changePeriod",
         "start", "callback"}
Command == [kind : {"stop", "changePeriod", "start"}, timer : Caller]

\* A task is inside door_control_open or door_control_close.
Busy(t) == pc[t] \notin {"idle", "callback"}
Quiescent == \A t \in Task : pc[t] = "idle"

Init ==
  /\ pc = [t \in Task |-> "idle"]
  /\ op = [t \in Task |-> "close"]
  /\ doorStatus = [t \in Task |-> FALSE]
  /\ isOpen = FALSE
  /\ lastDoorStatus = FALSE
  /\ servo = "close"          \* servo_control_init drives the closed angle
  /\ autoCloseTimer = NoTimer
  /\ active = {}
  /\ timerQueue = <<>>
  /\ armDropped = FALSE
  /\ overlapped = FALSE

Goto(t, step) == pc' = [pc EXCEPT ![t] = step]

\* t enters a door call: does another task have one in progress?
BeginCall(t, o) ==
  /\ op' = [op EXCEPT ![t] = o]
  /\ overlapped' = \E u \in Task \ {t} : Busy(u)
  /\ Goto(t, IF o = "open" THEN "setOpen" ELSE "cancel")

\* xTimerGenericCommand with a block time of 0: a full queue drops the command
\* and the caller ignores the result.  Stop disarms a timer, the two others
\* both insert it in the active list.
\* Mutant of QueueFull: one command more than the queue has room for.
QueueOverfull == Len(timerQueue) > QueueLen

QueueFull == Len(timerQueue) >= QueueLen
Post(kind) ==
  /\ timerQueue' = IF QueueFull THEN timerQueue
                   ELSE Append(timerQueue,
                               [kind |-> kind, timer |-> autoCloseTimer])
  /\ armDropped' = IF kind = "stop" THEN armDropped ELSE QueueFull

-----------------------------------------------------------------------------
(* The requests.                                                           *)

\* A short press of the boot button opens; a websocket client sends "open" or
\* "close"; the MQTT task dispatches a property set.
Request(t, o) ==
  /\ pc[t] = "idle"
  /\ t = Button => o = "open"
  /\ BeginCall(t, o)
  /\ UNCHANGED <<doorStatus, isOpen, lastDoorStatus, servo, autoCloseTimer,
                 active, timerQueue, armDropped>>

-----------------------------------------------------------------------------
(* The steps of door_control_open and door_control_close.                  *)

SetOpen(t) ==
  /\ pc[t] = "setOpen"
  /\ isOpen' = TRUE
  /\ Goto(t, "notify")
  /\ UNCHANGED <<op, doorStatus, lastDoorStatus, servo, autoCloseTimer,
                 active, timerQueue, armDropped, overlapped>>

\* door_control_cancel_auto_close
CancelAutoClose(t) ==
  /\ pc[t] = "cancel"
  /\ IF autoCloseTimer = NoTimer
     THEN UNCHANGED <<timerQueue, armDropped>>
     ELSE Post("stop")
  /\ Goto(t, "setClosed")
  /\ UNCHANGED <<op, doorStatus, isOpen, lastDoorStatus, servo,
                 autoCloseTimer, active, overlapped>>

SetClosed(t) ==
  /\ pc[t] = "setClosed"
  /\ isOpen' = FALSE
  /\ Goto(t, "notify")
  /\ UNCHANGED <<op, doorStatus, lastDoorStatus, servo, autoCloseTimer,
                 active, timerQueue, armDropped, overlapped>>

\* door_control_notify_state passes the s_isOpen it reads at the call, which
\* another task may have changed since this one stored it.
NotifyState(t) ==
  /\ pc[t] = "notify"
  /\ doorStatus' = [doorStatus EXCEPT ![t] = isOpen]
  /\ Goto(t, "report")
  /\ UNCHANGED <<op, isOpen, lastDoorStatus, servo, autoCloseTimer, active,
                 timerQueue, armDropped, overlapped>>

\* Mutant of ReportDoorStatus: the status is stored only if it is published.
ReportIfConnected(t) ==
  /\ pc[t] = "report"
  /\ \E step \in {"publish", "servo"} :
       /\ Goto(t, step)
       /\ lastDoorStatus' = IF step = "publish" THEN doorStatus[t]
                            ELSE lastDoorStatus
  /\ doorStatus' = [doorStatus EXCEPT ![t] = FALSE]
  /\ UNCHANGED <<op, isOpen, servo, autoCloseTimer, active, timerQueue,
                 armDropped, overlapped>>

\* onenet_mqtt_report_door_status: remember the status, then publish it if a
\* client is connected (either may be the case here).
ReportDoorStatus(t) ==
  /\ pc[t] = "report"
  /\ lastDoorStatus' = doorStatus[t]
  /\ doorStatus' = [doorStatus EXCEPT ![t] = FALSE]
  /\ \E step \in {"publish", "servo"} : Goto(t, step)
  /\ UNCHANGED <<op, isOpen, servo, autoCloseTimer, active, timerQueue,
                 armDropped, overlapped>>

\* esp_mqtt_client_publish waits for the API lock of the client, which the
\* MQTT task holds while it dispatches an event, and may take itself again.
Publish(t) ==
  /\ pc[t] = "publish"
  /\ t = Mqtt \/ pc[Mqtt] = "idle"
  /\ Goto(t, "servo")
  /\ UNCHANGED <<op, doorStatus, isOpen, lastDoorStatus, servo,
                 autoCloseTimer, active, timerQueue, armDropped, overlapped>>

\* servo_control_set_angle: the last shared access of a close.
SetAngle(t) ==
  /\ pc[t] = "servo"
  /\ servo' = op[t]
  /\ op' = [op EXCEPT ![t] = "close"]
  /\ Goto(t, IF op[t] = "open" THEN "create" ELSE "idle")
  /\ UNCHANGED <<doorStatus, isOpen, lastDoorStatus, autoCloseTimer,
                 active, timerQueue, armDropped, overlapped>>

\* door_control_schedule_auto_close: is there a timer yet?
CheckTimer(t) ==
  /\ pc[t] = "create"
  /\ Goto(t, IF autoCloseTimer = NoTimer THEN "make" ELSE "stop")
  /\ UNCHANGED <<op, doorStatus, isOpen, lastDoorStatus, servo,
                 autoCloseTimer, active, timerQueue, armDropped, overlapped>>

\* xTimerCreate, whose result replaces the handle: two first calls that both
\* saw NULL create two timers.
CreateTimer(t) ==
  /\ pc[t] = "make"
  /\ autoCloseTimer' = t
  /\ Goto(t, "stop")
  /\ UNCHANGED <<op, doorStatus, isOpen, lastDoorStatus, servo, active,
                 timerQueue, armDropped, overlapped>>

\* The heap has no room for a timer: xTimerCreate returns NULL.  (That this NULL
\* replaces a timer another task created since CheckTimer is left out.)
CreateFails(t) ==
  /\ pc[t] = "make"
  /\ autoCloseTimer = NoTimer
  /\ Goto(t, "stop")
  /\ UNCHANGED <<op, doorStatus, isOpen, lastDoorStatus, servo,
                 autoCloseTimer, active, timerQueue, armDropped, overlapped>>

\* xTimerStop, xTimerChangePeriod and xTimerStart, in this order, if there is
\* a timer.
PostCommand(t, kind, next) ==
  /\ pc[t] = kind
  /\ Post(kind)
  /\ Goto(t, next)
  /\ UNCHANGED <<op, doorStatus, isOpen, lastDoorStatus, servo,
                 autoCloseTimer, active, overlapped>>

NoTimerToArm(t) ==
  /\ pc[t] = "stop"
  /\ autoCloseTimer = NoTimer
  /\ Goto(t, "idle")
  /\ UNCHANGED <<op, doorStatus, isOpen, lastDoorStatus, servo,
                 autoCloseTimer, active, timerQueue, armDropped, overlapped>>

\* Mutant of ScheduleAutoClose: a timer that exists is only stopped.
ScheduleStopOnly(t) ==
  \/ autoCloseTimer # NoTimer /\ PostCommand(t, "stop", "idle")
  \/ NoTimerToArm(t)

ScheduleAutoClose(t) ==
  \/ autoCloseTimer # NoTimer /\ PostCommand(t, "stop", "changePeriod")
  \/ PostCommand(t, "changePeriod", "start")
  \/ PostCommand(t, "start", "idle")
  \/ NoTimerToArm(t)

DoorStep(t) ==
  \/ SetOpen(t) \/ CancelAutoClose(t) \/ SetClosed(t)
  \/ NotifyState(t) \/ ReportDoorStatus(t) \/ Publish(t) \/ SetAngle(t)
  \/ CheckTimer(t) \/ CreateTimer(t) \/ CreateFails(t)
  \/ ScheduleAutoClose(t)

-----------------------------------------------------------------------------
(* The timer service task, timers.c.                                       *)

\* prvProcessReceivedCommands takes a command: a stop only removes the timer
\* from the active list, the two others (re)insert it.
TimerCommand ==
  /\ pc[TimerTask] = "idle"
  /\ timerQueue # <<>>
  /\ timerQueue' = Tail(timerQueue)
  /\ LET c == Head(timerQueue)
     IN active' = IF c.kind = "stop" THEN active \ {c.timer}
                  ELSE active \cup {c.timer}
  /\ UNCHANGED <<pc, op, doorStatus, isOpen, lastDoorStatus, servo,
                 autoCloseTimer, armDropped, overlapped>>

\* prvProcessExpiredTimer: a one-shot timer leaves the active list, then its
\* callback runs.
TimerExpires ==
  /\ pc[TimerTask] = "idle"
  /\ \E tm \in active : active' = active \ {tm}
  /\ Goto(TimerTask, "callback")
  /\ UNCHANGED <<op, doorStatus, isOpen, lastDoorStatus, servo,
                 autoCloseTimer, timerQueue, armDropped, overlapped>>

\* Mutant of AutoCloseCallback: it leaves alone a door the cloud was told of.
CallbackSkipsReported ==
  /\ pc[TimerTask] = "callback"
  /\ IF isOpen /\ ~lastDoorStatus
     THEN BeginCall(TimerTask, "close")
     ELSE Goto(TimerTask, "idle") /\ UNCHANGED <<op, overlapped>>
  /\ UNCHANGED <<doorStatus, isOpen, lastDoorStatus, servo, autoCloseTimer,
                 active, timerQueue, armDropped>>

\* door_control_auto_close_cb
AutoCloseCallback ==
  /\ pc[TimerTask] = "callback"
  /\ IF isOpen
     THEN BeginCall(TimerTask, "close")
     ELSE Goto(TimerTask, "idle") /\ UNCHANGED <<op, overlapped>>
  /\ UNCHANGED <<doorStatus, isOpen, lastDoorStatus, servo, autoCloseTimer,
                 active, timerQueue, armDropped>>

TimerStep == TimerCommand \/ TimerExpires \/ AutoCloseCallback

-----------------------------------------------------------------------------
Next ==
  \/ \E t \in Caller, o \in {"open", "close"} : Request(t, o)
  \/ \E t \in Task : DoorStep(t)
  \/ TimerStep

Spec == Init /\ [][Next]_vars

\* The processor does not idle while one of the tasks can run, whichever it
\* prefers.  Requests need not come.
Fairness == WF_vars((\E t \in Task : DoorStep(t)) \/ TimerStep)

FairSpec == Spec /\ Fairness

-----------------------------------------------------------------------------
TypeOK ==
  /\ pc \in [Task -> Step]
  /\ op \in [Task -> {"open", "close"}]
  /\ doorStatus \in [Task -> BOOLEAN]
  /\ isOpen \in BOOLEAN
  /\ lastDoorStatus \in BOOLEAN
  /\ servo \in {"open", "close"}
  /\ autoCloseTimer \in Caller \cup {NoTimer}
  /\ active \subseteq Caller
  /\ timerQueue \in Seq(Command)
  /\ Len(timerQueue) <= QueueLen
  /\ armDropped \in BOOLEAN
  /\ overlapped \in BOOLEAN

\* The timer runs once the service has worked through its queue.
Armed(tm) ==
  \/ \E k \in 1..Len(timerQueue) :
       /\ timerQueue[k].timer = tm /\ timerQueue[k].kind # "stop"
       /\ \A m \in (k + 1)..Len(timerQueue) :
            timerQueue[m].timer = tm => timerQueue[m].kind # "stop"
  \/ /\ tm \in active
     /\ \A m \in 1..Len(timerQueue) :
          timerQueue[m].timer = tm => timerQueue[m].kind # "stop"

\* However the open and close calls of several tasks interleave with each
\* other and with the expiry of the timer, a door that is logically open when
\* no call is in progress has a timer that will close it, unless no timer could
\* be created or the command that should have armed it was dropped.
AutoCloseArmed ==
  Quiescent /\ isOpen /\ autoCloseTimer # NoTimer /\ ~armDropped
    => \E tm \in Caller : Armed(tm)

\* Where the last call ran alone, the servo, s_isOpen and the status kept for
\* the cloud agree with each other when it is over.
SerialAgreement ==
  Quiescent /\ ~overlapped
    => /\ servo = IF isOpen THEN "open" ELSE "close"
       /\ lastDoorStatus = isOpen

\* Once the requests stop, every call ends (no publish waits for ever) and an
\* open door closes by itself and stays closed, unless its timer could not be
\* created or armed.
RequestsStop ==
  <>[][~\E t \in Caller, o \in {"open", "close"} : Request(t, o)]_vars
AutoCloses ==
  RequestsStop /\ <>[](autoCloseTimer # NoTimer /\ ~armDropped)
    => <>[](Quiescent /\ ~isOpen)

-----------------------------------------------------------------------------
(* The inductive invariant behind the three safety properties.             *)

\* Where each task can be: only a caller opens, the timer service only closes,
\* and the handle the last two commands use is set.
Control ==
  /\ \A t \in Task : pc[t] = "setOpen" => op[t] = "open"
  /\ \A t \in Task : pc[t] \in {"cancel", "setClosed"} => op[t] = "close"
  /\ \A t \in Task :
       pc[t] \in {"changePeriod", "start"} => autoCloseTimer # NoTimer
  /\ \A t \in Caller : pc[t] # "callback"
  /\ op[TimerTask] = "close"
  /\ pc[TimerTask] \in {"idle", "callback", "cancel", "setClosed", "notify",
                        "report", "publish", "servo"}

\* An open call that has set s_isOpen and has yet to start the timer.
Arming(t) ==
  \/ pc[t] \in {"notify", "report", "publish", "servo"} /\ op[t] = "open"
  \/ pc[t] \in {"create", "make", "stop", "changePeriod", "start"}

\* A step is at hand that clears s_isOpen (or finds it clear).
Closing(t) ==
  \/ pc[t] = "setClosed"
  \/ t = TimerTask /\ pc[t] \in {"callback", "cancel"}

ArmInv ==
  isOpen /\ autoCloseTimer # NoTimer /\ ~armDropped
    => \/ \E tm \in Caller : Armed(tm)
       \/ \E t \in Task : Arming(t) \/ Closing(t)

\* What a call that runs alone has established when it is at its next step.
Established(t) ==
  LET opening == op[t] = "open"
  IN /\ pc[t] \in {"notify", "report", "publish", "servo"} => isOpen = opening
     /\ pc[t] = "report" => doorStatus[t] = opening
     /\ pc[t] \in {"publish", "servo"} => lastDoorStatus = opening
     /\ pc[t] \in {"create", "make", "stop", "changePeriod", "start"}
          => isOpen /\ lastDoorStatus /\ servo = "open"

SerialInv ==
  ~overlapped
    => /\ \A t, u \in Task : Busy(t) /\ Busy(u) => t = u
       /\ \A t \in Task : Busy(t) => Established(t)
       /\ (\A t \in Task : ~Busy(t))
            => /\ servo = IF isOpen THEN "open" ELSE "close"
               /\ lastDoorStatus = isOpen

-----------------------------------------------------------------------------
(* What the code does not guarantee.                                       *)

\* The status page shows a closed door ("the door is closed") when s_isOpen is
\* false: with no call in progress, the bolt is then closed.
ShownClosedIsClosed == Quiescent /\ ~isOpen => servo = "close"
=============================================================================
