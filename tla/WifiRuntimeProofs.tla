-------------------------- MODULE WifiRuntimeProofs ---------------------------
(***************************************************************************)
(* Proofs about WifiRuntime for any number of identities of the start task *)
(* and any length of the queue of events, where no address is obtained     *)
(* while the button task switches to provisioning mode (CalmSwitch).       *)
(***************************************************************************)
EXTENDS WifiRuntime, SequenceTheorems, TLAPS

Event == {"start", "disconnected", "gotIp"}
HasGotIp == \E i \in 1..Len(events) : events[i] = "gotIp"

StarterSteps == {"none", "check", "mdns", "mqtt", "ws", "end", "forget"}
ButtonSteps == {"idle", "stopServer", "waitServer", "deleteTask", "clearTask",
                "stopServices", "clearFlags", "restartWifi", "startWeb", "gone"}

TypeInv ==
  /\ inProvisionMode \in BOOLEAN /\ web \in BOOLEAN /\ credentials \in BOOLEAN
  /\ startFailed \in BOOLEAN /\ overlapped \in BOOLEAN
  /\ servicesStarted \in BOOLEAN /\ startPending \in BOOLEAN
  /\ startTask \in StartTask \cup {NoTask}
  /\ starter \in [StartTask -> StarterSteps]
  /\ event \in {"idle", "stopServer", "stopMqtt", "leaveProvision", "gotIp"}
  /\ button \in ButtonSteps
  /\ running \subseteq {"mdns", "mqtt"} /\ failed \subseteq {"mqtt", "ws"}
  /\ server \in {"down", "up", "stopping", "stale"}
  /\ station \in {"idle", "connecting", "connected"}
  /\ mode \in {"sta", "apsta"}

\* LeaveProvisionMode, which posts two events without waiting for room, has taken
\* one from a queue that was not over its bound.
QueueInv ==
  /\ events \in Seq(Event)
  /\ Len(events) <= MaxEvents + 2
  /\ event = "leaveProvision" => Len(events) <= MaxEvents
  /\ inProvisionMode /\ HasGotIp => Len(events) <= MaxEvents

\* While the button task switches, no address is handled or waits to be.
SwitchInv ==
  button # "idle" => ~HasGotIp /\ event \notin {"leaveProvision", "gotIp"}

ModeInv ==
  /\ ~inProvisionMode => mode = "sta" /\ ~web /\ button = "idle"
  /\ event = "gotIp" => ~inProvisionMode
  /\ event = "leaveProvision" => inProvisionMode /\ ~web
  /\ button = "startWeb" => mode = "apsta" /\ station # "connected"
  /\ inProvisionMode /\ button = "idle" =>
       /\ mode = "apsta"
       /\ web \/ event = "leaveProvision"
       /\ station = "connected" => HasGotIp \/ event = "leaveProvision"

HandedOver ==
  \/ button \in {"stopServices", "clearFlags", "restartWifi", "startWeb"}
  \/ inProvisionMode /\ button = "idle"

\* The start task has been deleted before the web server of provisioning mode
\* runs, and the server of station mode is down.
HandoverInv ==
  /\ startTask # NoTask =>
       /\ ~web
       /\ startPending \/ starter[startTask] = "forget" \/ button = "clearTask"
  /\ HandedOver => startTask = NoTask /\ server = "down"
  /\ server = "stopping" => event = "stopServer" \/ button = "waitServer"
  /\ button \in {"deleteTask", "clearTask"} => server = "down"
  /\ button = "clearTask" => \A s \in StartTask : starter[s] = "none"

\* A task is on its way to clear s_staServicesStarted, or the button task is no more.
Stopping ==
  \/ event \in {"stopServer", "stopMqtt"}
  \/ button \in {"waitServer", "deleteTask", "clearTask", "stopServices",
                 "clearFlags", "gone"}

\* A start task that has found the services stopped starts them one by one.
ServicesInv ==
  /\ \A s \in StartTask :
       /\ starter[s] \in {"mqtt", "ws"} => "mdns" \in running \/ Stopping
       /\ starter[s] = "ws" => "mqtt" \in running \cup failed \/ Stopping
       /\ starter[s] \in {"end", "forget"} => servicesStarted \/ button # "idle"
  /\ servicesStarted /\ ~Stopping =>
       /\ "mdns" \in running /\ "mqtt" \in running \cup failed
       /\ server = "up" \/ "ws" \in failed

WifiInv ==
  /\ TypeInv /\ QueueInv /\ SwitchInv /\ ModeInv
  /\ StartTaskTracked /\ HandoverInv /\ ServicesInv

-----------------------------------------------------------------------------
(* What the actions do to the queue.                                       *)

LEMMA Posting ==
  ASSUME QueueInv, NEW e \in Event, Posted(e)
  PROVE  /\ events' \in Seq(Event) /\ Len(events') <= MaxEvents
         /\ Len(events') \in Nat
         /\ HasGotIp' <=> HasGotIp \/ e = "gotIp"
<1>1. /\ events' \in Seq(Event) /\ Len(events') = Len(events) + 1
      /\ \A i \in 1..Len(events) : events'[i] = events[i]
      /\ events'[Len(events) + 1] = e
  BY AppendProperties DEF QueueInv, Posted
<1>2. Len(events) \in Nat /\ Len(events) < MaxEvents
  BY LenProperties DEF QueueInv, Posted
<1>3. Len(events') \in Nat /\ Len(events') <= MaxEvents
  BY <1>1, <1>2, EventsAssumption
<1>4. HasGotIp => HasGotIp'
  <2>1. \A i \in 1..Len(events) : i \in 1..Len(events')
    BY <1>1, <1>2
  <2> QED
    BY <1>1, <2>1 DEF HasGotIp
<1>5. e = "gotIp" => HasGotIp'
  <2>1. Len(events) + 1 \in 1..Len(events')
    BY <1>1, <1>2
  <2> QED
    BY <1>1, <2>1 DEF HasGotIp
<1>6. HasGotIp' => HasGotIp \/ e = "gotIp"
  <2>1. \A i \in 1..Len(events') : i \in 1..Len(events) \/ i = Len(events) + 1
    BY <1>1, <1>2
  <2> QED
    BY <1>1, <2>1 DEF HasGotIp
<1> QED
  BY <1>1, <1>3, <1>4, <1>5, <1>6

LEMMA Dropping ==
  ASSUME QueueInv, NEW e, Take(e), Drop
  PROVE  /\ event = "idle"
         /\ events' \in Seq(Event) /\ Len(events') = Len(events) - 1
         /\ Len(events) \in Nat /\ Len(events') \in Nat
         /\ HasGotIp' => HasGotIp
         /\ e # "gotIp" /\ HasGotIp => HasGotIp'
         /\ e = "gotIp" => HasGotIp
<1>1. events \in Seq(Event) /\ events # <<>> /\ Head(events) = e
  BY DEF QueueInv, Take
<1>2. /\ events' \in Seq(Event) /\ Len(events') = Len(events) - 1
      /\ \A i \in 1..Len(events') : events'[i] = events[i + 1]
  BY <1>1, HeadTailProperties DEF Drop
<1>3. Len(events) \in Nat \ {0} /\ events[1] = e
  BY <1>1, EmptySeq, LenProperties
<1>4. 1 \in 1..Len(events) /\ \A i \in 1..Len(events') : i + 1 \in 1..Len(events)
  BY <1>2, <1>3
<1>5. HasGotIp' => HasGotIp
  BY <1>2, <1>4 DEF HasGotIp
<1>6. e = "gotIp" => HasGotIp
  BY <1>3, <1>4 DEF HasGotIp
<1>7. ASSUME e # "gotIp", HasGotIp PROVE HasGotIp'
  <2>1. PICK i \in 1..Len(events) : events[i] = "gotIp"
    BY <1>7 DEF HasGotIp
  <2>2. i # 1
    BY <1>3, <1>7, <2>1
  <2>3. i - 1 \in 1..Len(events') /\ i - 1 + 1 = i
    BY <1>2, <1>3, <2>1, <2>2
  <2>4. events'[i - 1] = "gotIp"
    BY <1>2, <2>1, <2>3
  <2> QED
    BY <2>3, <2>4 DEF HasGotIp
<1>8. Len(events) \in Nat /\ Len(events') \in Nat
  BY <1>2, <1>3
<1> QED
  BY <1>2, <1>5, <1>6, <1>7, <1>8 DEF Take

\* Wi-Fi is started anew.
LEMMA Restarting ==
  ASSUME QueueInv,
         events' = events \o (IF Busy(station) THEN <<"disconnected">> ELSE <<>>)
                          \o <<"start">>
  PROVE  /\ events' \in Seq(Event) /\ Len(events') <= Len(events) + 2
         /\ Len(events) \in Nat /\ Len(events') \in Nat
         /\ HasGotIp' => HasGotIp
<1> DEFINE lost == IF Busy(station) THEN <<"disconnected">> ELSE <<>>
           before == events \o lost
<1>1. /\ lost \in Seq(Event) /\ Len(lost) \in 0..1
      /\ \A i \in 1..Len(lost) : lost[i] = "disconnected"
  <2>1. CASE Busy(station)
    BY <2>1 DEF Event
  <2>2. CASE ~Busy(station)
    <3>1. lost = <<>>
      BY <2>2
    <3>2. lost \in Seq(Event) /\ Len(lost) = 0 /\ 1..0 = {}
      BY <3>1, EmptySeq
    <3> QED
      BY <3>2
  <2> QED
    BY <2>1, <2>2
<1>2. events' = before \o <<"start">> /\ before = events \o lost
  OBVIOUS
<1> HIDE DEF before, lost
<1>3. events \in Seq(Event) /\ Len(events) \in Nat
  BY LenProperties DEF QueueInv
<1>4. /\ before \in Seq(Event) /\ Len(before) = Len(events) + Len(lost)
      /\ \A i \in 1..(Len(events) + Len(lost)) : before[i] =
           IF i <= Len(events) THEN events[i] ELSE lost[i - Len(events)]
  BY <1>1, <1>2, <1>3, ConcatProperties
<1>5. <<"start">> \in Seq(Event) /\ Len(<<"start">>) = 1 /\ <<"start">>[1] = "start"
  BY DEF Event
<1>6. /\ events' \in Seq(Event) /\ Len(events') = Len(before) + 1
      /\ \A i \in 1..(Len(before) + 1) : events'[i] =
           IF i <= Len(before) THEN before[i] ELSE <<"start">>[i - Len(before)]
  BY <1>2, <1>4, <1>5, ConcatProperties
<1>7. ASSUME HasGotIp' PROVE HasGotIp
  <2>1. PICK i \in 1..Len(events') : events'[i] = "gotIp"
    BY <1>7 DEF HasGotIp
  <2>2. Len(before) \in Nat /\ i \in 1..(Len(before) + 1)
    BY <1>1, <1>3, <1>4, <1>6, <2>1
  <2>3. i <= Len(before)
    <3> SUFFICES ASSUME ~(i <= Len(before)) PROVE FALSE
      OBVIOUS
    <3>1. i - Len(before) = 1
      BY <2>2
    <3> QED
      BY <1>5, <1>6, <2>1, <2>2, <3>1
  <2>4. before[i] = "gotIp"
    BY <1>6, <2>1, <2>2, <2>3
  <2>5. i \in 1..(Len(events) + Len(lost))
    BY <1>4, <2>2, <2>3
  <2>6. i <= Len(events)
    <3> SUFFICES ASSUME ~(i <= Len(events)) PROVE FALSE
      OBVIOUS
    <3>1. i - Len(events) \in 1..Len(lost)
      BY <1>1, <1>3, <2>5
    <3>2. before[i] = lost[i - Len(events)]
      BY <1>4, <2>5
    <3> QED
      BY <1>1, <2>4, <3>1, <3>2
  <2>7. events[i] = "gotIp" /\ i \in 1..Len(events)
    BY <1>3, <1>4, <2>4, <2>5, <2>6
  <2> QED
    BY <2>7 DEF HasGotIp
<1>8. Len(events') \in Nat /\ Len(events') <= Len(events) + 2
  BY <1>1, <1>3, <1>4, <1>6
<1> QED
  BY <1>3, <1>6, <1>7, <1>8

-----------------------------------------------------------------------------
(* Every action keeps the invariant.                                       *)


LEMMA GetAddressKeeps ==
  ASSUME WifiInv, CalmSwitch, GetAddress
  PROVE  WifiInv'
<1>1. /\ station = "connecting" /\ button = "idle"
      /\ station' = "connected" /\ Posted("gotIp")
      /\ UNCHANGED <<inProvisionMode, servicesStarted, startPending, running,
                     server, web, mode, credentials, startTask, startFailed,
                     failed, overlapped, starter, event, button>>
  BY DEF GetAddress, flagVars, serviceVars, wifiVars, taskVars, historyVars
<1>2. TypeInv /\ QueueInv /\ SwitchInv /\ ModeInv /\ StartTaskTracked
      /\ HandoverInv /\ ServicesInv
  BY DEF WifiInv
<1>3. /\ events' \in Seq(Event) /\ Len(events') <= MaxEvents
      /\ Len(events') \in Nat /\ (HasGotIp' <=> TRUE)
  BY <1>1, <1>2, Posting DEF Event
<1>5. TypeInv'
  BY <1>1, <1>2 DEF TypeInv, ButtonSteps
<1>6. QueueInv'
  BY <1>1, <1>2, <1>3, EventsAssumption DEF QueueInv, SwitchInv, ModeInv, TypeInv
<1>7. SwitchInv' /\ ModeInv'
  BY <1>1, <1>2, <1>3 DEF SwitchInv, ModeInv, TypeInv
<1>8. StartTaskTracked' /\ HandoverInv'
  BY <1>1, <1>2, StartTaskAssumption
     DEF StartTaskTracked, HandoverInv, HandedOver, ModeInv, SwitchInv,
         TypeInv
<1>9. ServicesInv'
  BY <1>1, <1>2, StartTaskAssumption
     DEF ServicesInv, Stopping, StartTaskTracked, HandoverInv, HandedOver,
         TypeInv
<1> QED
  BY <1>5, <1>6, <1>7, <1>8, <1>9 DEF WifiInv

LEMMA LoseLinkKeeps ==
  ASSUME WifiInv, CalmSwitch, LoseLink
  PROVE  WifiInv'
<1>1. /\ station' = "idle" /\ Posted("disconnected")
      /\ UNCHANGED <<inProvisionMode, servicesStarted, startPending, running,
                     server, web, mode, credentials, startTask, startFailed,
                     failed, overlapped, starter, event, button>>
  BY DEF LoseLink, flagVars, serviceVars, wifiVars, taskVars, historyVars
<1>2. TypeInv /\ QueueInv /\ SwitchInv /\ ModeInv /\ StartTaskTracked
      /\ HandoverInv /\ ServicesInv
  BY DEF WifiInv
<1>3. /\ events' \in Seq(Event) /\ Len(events') <= MaxEvents
      /\ Len(events') \in Nat /\ (HasGotIp' <=> HasGotIp)
  BY <1>1, <1>2, Posting DEF Event
<1>5. TypeInv'
  BY <1>1, <1>2 DEF TypeInv, ButtonSteps
<1>6. QueueInv'
  BY <1>1, <1>2, <1>3, EventsAssumption DEF QueueInv, SwitchInv, ModeInv, TypeInv
<1>7. SwitchInv' /\ ModeInv'
  BY <1>1, <1>2, <1>3 DEF SwitchInv, ModeInv, TypeInv
<1>8. StartTaskTracked' /\ HandoverInv'
  BY <1>1, <1>2, StartTaskAssumption
     DEF StartTaskTracked, HandoverInv, HandedOver, ModeInv, SwitchInv,
         TypeInv
<1>9. ServicesInv'
  BY <1>1, <1>2, StartTaskAssumption
     DEF ServicesInv, Stopping, StartTaskTracked, HandoverInv, HandedOver,
         TypeInv
<1> QED
  BY <1>5, <1>6, <1>7, <1>8, <1>9 DEF WifiInv

LEMMA SubmitFormKeeps ==
  ASSUME WifiInv, CalmSwitch, SubmitForm
  PROVE  WifiInv'
<1>1. /\ web
      /\ button = "idle"
      /\ mode' = "apsta" /\ credentials' = TRUE
      /\ station' = IF station = "idle" THEN "connecting" ELSE station
      /\ UNCHANGED <<inProvisionMode, servicesStarted, startPending, running,
                     server, web, events, startTask, startFailed, failed,
                     overlapped, starter, event, button>>
  BY DEF SubmitForm, Connect,
         flagVars, serviceVars, wifiVars, taskVars, historyVars
<1>2. TypeInv /\ QueueInv /\ SwitchInv /\ ModeInv /\ StartTaskTracked
      /\ HandoverInv /\ ServicesInv
  BY DEF WifiInv
<1>3. /\ events' = events /\ (HasGotIp' <=> HasGotIp) /\ Len(events) \in Nat
  BY <1>1, <1>2, LenProperties DEF HasGotIp, QueueInv
<1>5. TypeInv'
  BY <1>1, <1>2 DEF TypeInv, ButtonSteps
<1>6. QueueInv'
  BY <1>1, <1>2, <1>3, EventsAssumption DEF QueueInv, SwitchInv, ModeInv, TypeInv
<1>7. SwitchInv' /\ ModeInv'
  BY <1>1, <1>2, <1>3 DEF SwitchInv, ModeInv, TypeInv
<1>8. StartTaskTracked' /\ HandoverInv'
  BY <1>1, <1>2, StartTaskAssumption
     DEF StartTaskTracked, HandoverInv, HandedOver, ModeInv, SwitchInv,
         TypeInv
<1>9. ServicesInv'
  BY <1>1, <1>2, StartTaskAssumption
     DEF ServicesInv, Stopping, StartTaskTracked, HandoverInv, HandedOver,
         TypeInv
<1> QED
  BY <1>5, <1>6, <1>7, <1>8, <1>9 DEF WifiInv

LEMMA ServerEndsKeeps ==
  ASSUME WifiInv, CalmSwitch, ServerEnds
  PROVE  WifiInv'
<1>1. /\ server = "stopping" /\ server' = "down"
      /\ UNCHANGED <<inProvisionMode, servicesStarted, startPending, running,
                     web, events, station, mode, credentials, startTask,
                     startFailed, failed, overlapped, starter, event, button>>
  BY DEF ServerEnds, flagVars, serviceVars, wifiVars, taskVars, historyVars
<1>2. TypeInv /\ QueueInv /\ SwitchInv /\ ModeInv /\ StartTaskTracked
      /\ HandoverInv /\ ServicesInv
  BY DEF WifiInv
<1>3. /\ events' = events /\ (HasGotIp' <=> HasGotIp) /\ Len(events) \in Nat
  BY <1>1, <1>2, LenProperties DEF HasGotIp, QueueInv
<1>5. TypeInv'
  BY <1>1, <1>2 DEF TypeInv, ButtonSteps
<1>6. QueueInv'
  BY <1>1, <1>2, <1>3, EventsAssumption DEF QueueInv, SwitchInv, ModeInv, TypeInv
<1>7. SwitchInv' /\ ModeInv'
  BY <1>1, <1>2, <1>3 DEF SwitchInv, ModeInv, TypeInv
<1>8. StartTaskTracked' /\ HandoverInv'
  BY <1>1, <1>2, StartTaskAssumption
     DEF StartTaskTracked, HandoverInv, HandedOver, ModeInv, SwitchInv,
         TypeInv
<1>9. ServicesInv'
  BY <1>1, <1>2, StartTaskAssumption
     DEF ServicesInv, Stopping, StartTaskTracked, HandoverInv, HandedOver,
         TypeInv
<1> QED
  BY <1>5, <1>6, <1>7, <1>8, <1>9 DEF WifiInv

LEMMA CheckModeKeeps ==
  ASSUME WifiInv, CalmSwitch, ~AboutToDelete,
         NEW t \in StartTask, CheckMode(t)
  PROVE  WifiInv'
<1>1. /\ starter[t] = "check"
      /\ starter' = [starter EXCEPT ![t] =
                      IF ~inProvisionMode /\ ~servicesStarted
                      THEN "mdns" ELSE "end"]
      /\ startTask' = t
      /\ button \notin {"deleteTask", "clearTask"}
      /\ UNCHANGED <<inProvisionMode, servicesStarted, startPending, running,
                     server, web, events, station, mode, credentials,
                     startFailed, failed, overlapped, event, button>>
  BY DEF CheckMode, StarterGoes, AboutToDelete,
         flagVars, serviceVars, wifiVars, taskVars, historyVars
<1>2. TypeInv /\ QueueInv /\ SwitchInv /\ ModeInv /\ StartTaskTracked
      /\ HandoverInv /\ ServicesInv
  BY DEF WifiInv
<1>3. /\ events' = events /\ (HasGotIp' <=> HasGotIp) /\ Len(events) \in Nat
  BY <1>1, <1>2, LenProperties DEF HasGotIp, QueueInv
<1>5. TypeInv'
  <2>1. starter' \in [StartTask -> StarterSteps]
    BY <1>1, <1>2 DEF TypeInv, StarterSteps
  <2>2. /\ running' \subseteq {"mdns", "mqtt"} /\ startPending' \in BOOLEAN
        /\ startTask' \in StartTask \cup {NoTask}
    BY <1>1, <1>2 DEF TypeInv
  <2>3. /\ web' \in BOOLEAN /\ servicesStarted' \in BOOLEAN
        /\ station' \in {"idle", "connecting", "connected"}
        /\ server' \in {"down", "up", "stopping", "stale"}
    BY <1>1, <1>2 DEF TypeInv
  <2> QED
    BY <1>1, <1>2, <2>1, <2>2, <2>3 DEF TypeInv, ButtonSteps
<1>6. QueueInv'
  BY <1>1, <1>2, <1>3, EventsAssumption DEF QueueInv, SwitchInv, ModeInv, TypeInv
<1>7. SwitchInv' /\ ModeInv'
  BY <1>1, <1>2, <1>3 DEF SwitchInv, ModeInv, TypeInv
<1>8. StartTaskTracked' /\ HandoverInv'
  BY <1>1, <1>2, StartTaskAssumption
     DEF StartTaskTracked, HandoverInv, HandedOver, ModeInv, SwitchInv,
         TypeInv
<1>9. ServicesInv'
  BY <1>1, <1>2, StartTaskAssumption
     DEF ServicesInv, Stopping, StartTaskTracked, HandoverInv, HandedOver,
         TypeInv
<1> QED
  BY <1>5, <1>6, <1>7, <1>8, <1>9 DEF WifiInv

LEMMA StartMdnsKeeps ==
  ASSUME WifiInv, CalmSwitch, ~AboutToDelete,
         NEW t \in StartTask, StartMdns(t)
  PROVE  WifiInv'
<1>1. /\ starter[t] = "mdns"
      /\ starter' = [starter EXCEPT ![t] = "mqtt"]
      /\ running' = running \cup {"mdns"}
      /\ button \notin {"deleteTask", "clearTask"}
      /\ UNCHANGED <<inProvisionMode, servicesStarted, startPending, server, web,
                    events, station, mode, credentials, startTask, startFailed,
                    failed, overlapped, event, button>>
  BY DEF StartMdns, StarterGoes, AboutToDelete,
         flagVars, serviceVars, wifiVars, taskVars, historyVars
<1>2. TypeInv /\ QueueInv /\ SwitchInv /\ ModeInv /\ StartTaskTracked
      /\ HandoverInv /\ ServicesInv
  BY DEF WifiInv
<1>3. /\ events' = events /\ (HasGotIp' <=> HasGotIp) /\ Len(events) \in Nat
  BY <1>1, <1>2, LenProperties DEF HasGotIp, QueueInv
<1>5. TypeInv'
  <2>1. starter' \in [StartTask -> StarterSteps]
    BY <1>1, <1>2 DEF TypeInv, StarterSteps
  <2>2. /\ running' \subseteq {"mdns", "mqtt"} /\ startPending' \in BOOLEAN
        /\ startTask' \in StartTask \cup {NoTask}
    BY <1>1, <1>2 DEF TypeInv
  <2>3. /\ web' \in BOOLEAN /\ servicesStarted' \in BOOLEAN
        /\ station' \in {"idle", "connecting", "connected"}
        /\ server' \in {"down", "up", "stopping", "stale"}
    BY <1>1, <1>2 DEF TypeInv
  <2>4. failed' \subseteq {"mqtt", "ws"}
    BY <1>1, <1>2 DEF TypeInv
  <2> QED
    BY <1>1, <1>2, <2>1, <2>2, <2>3, <2>4 DEF TypeInv, ButtonSteps
<1>6. QueueInv'
  BY <1>1, <1>2, <1>3, EventsAssumption DEF QueueInv, SwitchInv, ModeInv, TypeInv
<1>7. SwitchInv' /\ ModeInv'
  BY <1>1, <1>2, <1>3 DEF SwitchInv, ModeInv, TypeInv
<1>8. StartTaskTracked' /\ HandoverInv'
  BY <1>1, <1>2, StartTaskAssumption
     DEF StartTaskTracked, HandoverInv, HandedOver, ModeInv, SwitchInv,
         TypeInv
<1>9. ServicesInv'
  BY <1>1, <1>2, StartTaskAssumption
     DEF ServicesInv, Stopping, StartTaskTracked, HandoverInv, HandedOver,
         TypeInv
<1> QED
  BY <1>5, <1>6, <1>7, <1>8, <1>9 DEF WifiInv

LEMMA StartMqttKeeps ==
  ASSUME WifiInv, CalmSwitch, ~AboutToDelete,
         NEW t \in StartTask, StartMqtt(t)
  PROVE  WifiInv'
<1>1. /\ starter[t] = "mqtt"
      /\ starter' = [starter EXCEPT ![t] = "ws"]
      /\ \/ running' = running \cup {"mqtt"} /\ failed' = failed \ {"mqtt"}
         \/ running' = running /\ failed' = failed \cup {"mqtt"}
      /\ button \notin {"deleteTask", "clearTask"}
      /\ UNCHANGED <<inProvisionMode, servicesStarted, startPending, server, web,
                    events, station, mode, credentials, startTask, startFailed,
                    overlapped, event, button>>
  BY DEF StartMqtt, StarterGoes, AboutToDelete,
         flagVars, serviceVars, wifiVars, taskVars, historyVars
<1>2. TypeInv /\ QueueInv /\ SwitchInv /\ ModeInv /\ StartTaskTracked
      /\ HandoverInv /\ ServicesInv
  BY DEF WifiInv
<1>3. /\ events' = events /\ (HasGotIp' <=> HasGotIp) /\ Len(events) \in Nat
  BY <1>1, <1>2, LenProperties DEF HasGotIp, QueueInv
<1>5. TypeInv'
  <2>1. starter' \in [StartTask -> StarterSteps]
    BY <1>1, <1>2 DEF TypeInv, StarterSteps
  <2>2. /\ running' \subseteq {"mdns", "mqtt"} /\ startPending' \in BOOLEAN
        /\ startTask' \in StartTask \cup {NoTask}
    BY <1>1, <1>2 DEF TypeInv
  <2>3. /\ web' \in BOOLEAN /\ servicesStarted' \in BOOLEAN
        /\ station' \in {"idle", "connecting", "connected"}
        /\ server' \in {"down", "up", "stopping", "stale"}
    BY <1>1, <1>2 DEF TypeInv
  <2>4. failed' \subseteq {"mqtt", "ws"}
    BY <1>1, <1>2 DEF TypeInv
  <2> QED
    BY <1>1, <1>2, <2>1, <2>2, <2>3, <2>4 DEF TypeInv, ButtonSteps
<1>6. QueueInv'
  BY <1>1, <1>2, <1>3, EventsAssumption DEF QueueInv, SwitchInv, ModeInv, TypeInv
<1>7. SwitchInv' /\ ModeInv'
  BY <1>1, <1>2, <1>3 DEF SwitchInv, ModeInv, TypeInv
<1>8. StartTaskTracked' /\ HandoverInv'
  BY <1>1, <1>2, StartTaskAssumption
     DEF StartTaskTracked, HandoverInv, HandedOver, ModeInv, SwitchInv,
         TypeInv
<1>9. ServicesInv'
  BY <1>1, <1>2, StartTaskAssumption
     DEF ServicesInv, Stopping, StartTaskTracked, HandoverInv, HandedOver,
         TypeInv
<1> QED
  BY <1>5, <1>6, <1>7, <1>8, <1>9 DEF WifiInv

LEMMA StartServerKeeps ==
  ASSUME WifiInv, CalmSwitch, ~AboutToDelete,
         NEW t \in StartTask, StartServer(t)
  PROVE  WifiInv'
<1>1. /\ starter[t] = "ws"
      /\ starter' = [starter EXCEPT ![t] = "end"]
      /\ servicesStarted' = TRUE
      /\ \/ server = "up" /\ server' = server /\ failed' = failed \ {"ws"}
         \/ server = "stopping" /\ server' = server /\ failed' = failed
         \/ server = "down" /\ server' = "up" /\ failed' = failed \ {"ws"}
         \/ /\ server \in {"down", "stale"} /\ server' \in {server, "stale"}
            /\ failed' = failed \cup {"ws"}
      /\ button \notin {"deleteTask", "clearTask"}
      /\ UNCHANGED <<inProvisionMode, startPending, running, web, events,
                    station, mode, credentials, startTask, startFailed,
                    overlapped, event, button>>
  BY DEF StartServer, TryServer, StarterGoes, AboutToDelete,
         flagVars, serviceVars, wifiVars, taskVars, historyVars
<1>2. TypeInv /\ QueueInv /\ SwitchInv /\ ModeInv /\ StartTaskTracked
      /\ HandoverInv /\ ServicesInv
  BY DEF WifiInv
<1>3. /\ events' = events /\ (HasGotIp' <=> HasGotIp) /\ Len(events) \in Nat
  BY <1>1, <1>2, LenProperties DEF HasGotIp, QueueInv
<1>5. TypeInv'
  <2>1. starter' \in [StartTask -> StarterSteps]
    BY <1>1, <1>2 DEF TypeInv, StarterSteps
  <2>2. /\ running' \subseteq {"mdns", "mqtt"} /\ startPending' \in BOOLEAN
        /\ startTask' \in StartTask \cup {NoTask}
    BY <1>1, <1>2 DEF TypeInv
  <2>3. /\ web' \in BOOLEAN /\ servicesStarted' \in BOOLEAN
        /\ station' \in {"idle", "connecting", "connected"}
        /\ server' \in {"down", "up", "stopping", "stale"}
    BY <1>1, <1>2 DEF TypeInv
  <2>4. failed' \subseteq {"mqtt", "ws"}
    BY <1>1, <1>2 DEF TypeInv
  <2> QED
    BY <1>1, <1>2, <2>1, <2>2, <2>3, <2>4 DEF TypeInv, ButtonSteps
<1>6. QueueInv'
  BY <1>1, <1>2, <1>3, EventsAssumption DEF QueueInv, SwitchInv, ModeInv, TypeInv
<1>7. SwitchInv' /\ ModeInv'
  BY <1>1, <1>2, <1>3 DEF SwitchInv, ModeInv, TypeInv
<1>8. StartTaskTracked' /\ HandoverInv'
  BY <1>1, <1>2, StartTaskAssumption
     DEF StartTaskTracked, HandoverInv, HandedOver, ModeInv, SwitchInv,
         TypeInv
<1>9. ServicesInv'
  BY <1>1, <1>2, StartTaskAssumption
     DEF ServicesInv, Stopping, StartTaskTracked, HandoverInv, HandedOver,
         TypeInv
<1> QED
  BY <1>5, <1>6, <1>7, <1>8, <1>9 DEF WifiInv

LEMMA ClearPendingKeeps ==
  ASSUME WifiInv, CalmSwitch, ~AboutToDelete,
         NEW t \in StartTask, ClearPending(t)
  PROVE  WifiInv'
<1>1. /\ starter[t] = "end"
      /\ starter' = [starter EXCEPT ![t] = "forget"]
      /\ startPending' = FALSE
      /\ button \notin {"deleteTask", "clearTask"}
      /\ UNCHANGED <<inProvisionMode, servicesStarted, running, server, web,
                    events, station, mode, credentials, startTask, startFailed,
                    failed, overlapped, event, button>>
  BY DEF ClearPending, StarterGoes, AboutToDelete,
         flagVars, serviceVars, wifiVars, taskVars, historyVars
<1>2. TypeInv /\ QueueInv /\ SwitchInv /\ ModeInv /\ StartTaskTracked
      /\ HandoverInv /\ ServicesInv
  BY DEF WifiInv
<1>3. /\ events' = events /\ (HasGotIp' <=> HasGotIp) /\ Len(events) \in Nat
  BY <1>1, <1>2, LenProperties DEF HasGotIp, QueueInv
<1>5. TypeInv'
  <2>1. starter' \in [StartTask -> StarterSteps]
    BY <1>1, <1>2 DEF TypeInv, StarterSteps
  <2>2. /\ running' \subseteq {"mdns", "mqtt"} /\ startPending' \in BOOLEAN
        /\ startTask' \in StartTask \cup {NoTask}
    BY <1>1, <1>2 DEF TypeInv
  <2>3. /\ web' \in BOOLEAN /\ servicesStarted' \in BOOLEAN
        /\ station' \in {"idle", "connecting", "connected"}
        /\ server' \in {"down", "up", "stopping", "stale"}
    BY <1>1, <1>2 DEF TypeInv
  <2>4. failed' \subseteq {"mqtt", "ws"}
    BY <1>1, <1>2 DEF TypeInv
  <2> QED
    BY <1>1, <1>2, <2>1, <2>2, <2>3, <2>4 DEF TypeInv, ButtonSteps
<1>6. QueueInv'
  BY <1>1, <1>2, <1>3, EventsAssumption DEF QueueInv, SwitchInv, ModeInv, TypeInv
<1>7. SwitchInv' /\ ModeInv'
  BY <1>1, <1>2, <1>3 DEF SwitchInv, ModeInv, TypeInv
<1>8. StartTaskTracked' /\ HandoverInv'
  BY <1>1, <1>2, StartTaskAssumption
     DEF StartTaskTracked, HandoverInv, HandedOver, ModeInv, SwitchInv,
         TypeInv
<1>9. ServicesInv'
  BY <1>1, <1>2, StartTaskAssumption
     DEF ServicesInv, Stopping, StartTaskTracked, HandoverInv, HandedOver,
         TypeInv
<1> QED
  BY <1>5, <1>6, <1>7, <1>8, <1>9 DEF WifiInv

LEMMA EndStartKeeps ==
  ASSUME WifiInv, CalmSwitch, ~AboutToDelete,
         NEW t \in StartTask, EndStart(t)
  PROVE  WifiInv'
<1>1. /\ starter[t] = "forget"
      /\ starter' = [starter EXCEPT ![t] = "none"]
      /\ startTask' = NoTask
      /\ button \notin {"deleteTask", "clearTask"}
      /\ UNCHANGED <<inProvisionMode, servicesStarted, startPending, running,
                    server, web, events, station, mode, credentials,
                    startFailed, failed, overlapped, event, button>>
  BY DEF EndStart, StarterGoes, AboutToDelete,
         flagVars, serviceVars, wifiVars, taskVars, historyVars
<1>2. TypeInv /\ QueueInv /\ SwitchInv /\ ModeInv /\ StartTaskTracked
      /\ HandoverInv /\ ServicesInv
  BY DEF WifiInv
<1>3. /\ events' = events /\ (HasGotIp' <=> HasGotIp) /\ Len(events) \in Nat
  BY <1>1, <1>2, LenProperties DEF HasGotIp, QueueInv
<1>5. TypeInv'
  <2>1. starter' \in [StartTask -> StarterSteps]
    BY <1>1, <1>2 DEF TypeInv, StarterSteps
  <2>2. /\ running' \subseteq {"mdns", "mqtt"} /\ startPending' \in BOOLEAN
        /\ startTask' \in StartTask \cup {NoTask}
    BY <1>1, <1>2 DEF TypeInv
  <2>3. /\ web' \in BOOLEAN /\ servicesStarted' \in BOOLEAN
        /\ station' \in {"idle", "connecting", "connected"}
        /\ server' \in {"down", "up", "stopping", "stale"}
    BY <1>1, <1>2 DEF TypeInv
  <2>4. failed' \subseteq {"mqtt", "ws"}
    BY <1>1, <1>2 DEF TypeInv
  <2> QED
    BY <1>1, <1>2, <2>1, <2>2, <2>3, <2>4 DEF TypeInv, ButtonSteps
<1>6. QueueInv'
  BY <1>1, <1>2, <1>3, EventsAssumption DEF QueueInv, SwitchInv, ModeInv, TypeInv
<1>7. SwitchInv' /\ ModeInv'
  BY <1>1, <1>2, <1>3 DEF SwitchInv, ModeInv, TypeInv
<1>8. StartTaskTracked' /\ HandoverInv'
  BY <1>1, <1>2, StartTaskAssumption
     DEF StartTaskTracked, HandoverInv, HandedOver, ModeInv, SwitchInv,
         TypeInv
<1>9. ServicesInv'
  BY <1>1, <1>2, StartTaskAssumption
     DEF ServicesInv, Stopping, StartTaskTracked, HandoverInv, HandedOver,
         TypeInv
<1> QED
  BY <1>5, <1>6, <1>7, <1>8, <1>9 DEF WifiInv

LEMMA HandleStartKeeps ==
  ASSUME WifiInv, CalmSwitch, HandleStart
  PROVE  WifiInv'
<1>1. /\ Take("start") /\ Drop
      /\ station' = IF station = "idle" THEN "connecting" ELSE station
      /\ UNCHANGED <<inProvisionMode, servicesStarted, startPending, running,
                     server, web, mode, credentials, startTask, startFailed,
                     failed, overlapped, starter, event, button>>
  BY DEF HandleStart, Connect,
         flagVars, serviceVars, wifiVars, taskVars, historyVars
<1>2. TypeInv /\ QueueInv /\ SwitchInv /\ ModeInv /\ StartTaskTracked
      /\ HandoverInv /\ ServicesInv
  BY DEF WifiInv
<1>3. /\ events' \in Seq(Event) /\ Len(events') = Len(events) - 1
      /\ Len(events) \in Nat /\ Len(events') \in Nat
      /\ (HasGotIp' <=> HasGotIp) /\ event = "idle"
  BY <1>1, <1>2, Dropping
<1>5. TypeInv'
  BY <1>1, <1>2 DEF TypeInv, ButtonSteps
<1>6. QueueInv'
  BY <1>1, <1>2, <1>3, EventsAssumption DEF QueueInv, SwitchInv, ModeInv, TypeInv
<1>7. SwitchInv' /\ ModeInv'
  BY <1>1, <1>2, <1>3 DEF SwitchInv, ModeInv, TypeInv
<1>8. StartTaskTracked' /\ HandoverInv'
  BY <1>1, <1>2, <1>3, StartTaskAssumption
     DEF StartTaskTracked, HandoverInv, HandedOver, ModeInv, SwitchInv,
         TypeInv
<1>9. ServicesInv'
  BY <1>1, <1>2, <1>3, StartTaskAssumption
     DEF ServicesInv, Stopping, StartTaskTracked, HandoverInv, HandedOver,
         TypeInv
<1> QED
  BY <1>5, <1>6, <1>7, <1>8, <1>9 DEF WifiInv

LEMMA IgnoreDisconnectedKeeps ==
  ASSUME WifiInv, CalmSwitch, IgnoreDisconnected
  PROVE  WifiInv'
<1>1. /\ Take("disconnected") /\ Drop
      /\ UNCHANGED <<inProvisionMode, servicesStarted, startPending, running,
                     server, web, station, mode, credentials, startTask,
                     startFailed, failed, overlapped, starter, event, button>>
  BY DEF IgnoreDisconnected,
         flagVars, serviceVars, wifiVars, taskVars, historyVars
<1>2. TypeInv /\ QueueInv /\ SwitchInv /\ ModeInv /\ StartTaskTracked
      /\ HandoverInv /\ ServicesInv
  BY DEF WifiInv
<1>3. /\ events' \in Seq(Event) /\ Len(events') = Len(events) - 1
      /\ Len(events) \in Nat /\ Len(events') \in Nat
      /\ (HasGotIp' <=> HasGotIp) /\ event = "idle"
  BY <1>1, <1>2, Dropping
<1>5. TypeInv'
  BY <1>1, <1>2 DEF TypeInv, ButtonSteps
<1>6. QueueInv'
  BY <1>1, <1>2, <1>3, EventsAssumption DEF QueueInv, SwitchInv, ModeInv, TypeInv
<1>7. SwitchInv' /\ ModeInv'
  BY <1>1, <1>2, <1>3 DEF SwitchInv, ModeInv, TypeInv
<1>8. StartTaskTracked' /\ HandoverInv'
  BY <1>1, <1>2, <1>3, StartTaskAssumption
     DEF StartTaskTracked, HandoverInv, HandedOver, ModeInv, SwitchInv,
         TypeInv
<1>9. ServicesInv'
  BY <1>1, <1>2, <1>3, StartTaskAssumption
     DEF ServicesInv, Stopping, StartTaskTracked, HandoverInv, HandedOver,
         TypeInv
<1> QED
  BY <1>5, <1>6, <1>7, <1>8, <1>9 DEF WifiInv

LEMMA HandleDisconnectedKeeps ==
  ASSUME WifiInv, CalmSwitch, HandleDisconnected
  PROVE  WifiInv'
<1>1. /\ Take("disconnected") /\ Drop
      /\ ~inProvisionMode
      /\ server' = IF server = "up" THEN "stopping" ELSE server
      /\ event' = "stopServer"
      /\ UNCHANGED <<inProvisionMode, servicesStarted, startPending, running,
                     web, station, mode, credentials, startTask, startFailed,
                     failed, overlapped, starter, button>>
  BY DEF HandleDisconnected, StopServer,
         flagVars, serviceVars, wifiVars, taskVars, historyVars
<1>2. TypeInv /\ QueueInv /\ SwitchInv /\ ModeInv /\ StartTaskTracked
      /\ HandoverInv /\ ServicesInv
  BY DEF WifiInv
<1>3. /\ events' \in Seq(Event) /\ Len(events') = Len(events) - 1
      /\ Len(events) \in Nat /\ Len(events') \in Nat
      /\ (HasGotIp' <=> HasGotIp) /\ event = "idle"
  BY <1>1, <1>2, Dropping
<1>5. TypeInv'
  BY <1>1, <1>2 DEF TypeInv, ButtonSteps
<1>6. QueueInv'
  BY <1>1, <1>2, <1>3, EventsAssumption DEF QueueInv, SwitchInv, ModeInv, TypeInv
<1>7. SwitchInv' /\ ModeInv'
  BY <1>1, <1>2, <1>3 DEF SwitchInv, ModeInv, TypeInv
<1>8. StartTaskTracked' /\ HandoverInv'
  BY <1>1, <1>2, <1>3, StartTaskAssumption
     DEF StartTaskTracked, HandoverInv, HandedOver, ModeInv, SwitchInv,
         TypeInv
<1>9. ServicesInv'
  BY <1>1, <1>2, <1>3, StartTaskAssumption
     DEF ServicesInv, Stopping, StartTaskTracked, HandoverInv, HandedOver,
         TypeInv
<1> QED
  BY <1>5, <1>6, <1>7, <1>8, <1>9 DEF WifiInv

LEMMA EventStopServerKeeps ==
  ASSUME WifiInv, CalmSwitch, EventStopServer
  PROVE  WifiInv'
<1>1. /\ event = "stopServer" /\ event' = "stopMqtt"
      /\ server' = "down" /\ running' = running \ {"mdns"}
      /\ UNCHANGED <<inProvisionMode, servicesStarted, startPending, web,
                     events, station, mode, credentials, startTask,
                     startFailed, failed, starter>>
      /\ \/ button' = button /\ overlapped' = overlapped
         \/ button = "waitServer" /\ button' = "gone" /\ overlapped' = TRUE
  BY DEF EventStopServer, ServerStopped,
         flagVars, serviceVars, wifiVars, taskVars, historyVars
<1>2. TypeInv /\ QueueInv /\ SwitchInv /\ ModeInv /\ StartTaskTracked
      /\ HandoverInv /\ ServicesInv
  BY DEF WifiInv
<1>3. /\ events' = events /\ (HasGotIp' <=> HasGotIp) /\ Len(events) \in Nat
  BY <1>1, <1>2, LenProperties DEF HasGotIp, QueueInv
<1>5. TypeInv'
  <2>1. overlapped' \in BOOLEAN
    BY <1>1, <1>2, Zenon DEF TypeInv
  <2>2. button' \in ButtonSteps /\ running' \subseteq {"mdns", "mqtt"}
    BY <1>1, <1>2 DEF TypeInv, ButtonSteps
  <2> QED
    BY <1>1, <1>2, <2>1, <2>2 DEF TypeInv
<1>6. QueueInv'
  BY <1>1, <1>2, <1>3, EventsAssumption DEF QueueInv, SwitchInv, ModeInv, TypeInv
<1>7. SwitchInv' /\ ModeInv'
  BY <1>1, <1>2, <1>3 DEF SwitchInv, ModeInv, TypeInv
<1>8. StartTaskTracked' /\ HandoverInv'
  BY <1>1, <1>2, StartTaskAssumption
     DEF StartTaskTracked, HandoverInv, HandedOver, ModeInv, SwitchInv,
         TypeInv
<1>9. ServicesInv'
  BY <1>1, <1>2, StartTaskAssumption
     DEF ServicesInv, Stopping, StartTaskTracked, HandoverInv, HandedOver,
         TypeInv
<1> QED
  BY <1>5, <1>6, <1>7, <1>8, <1>9 DEF WifiInv

LEMMA ForgetServicesKeeps ==
  ASSUME WifiInv, CalmSwitch, ForgetServices
  PROVE  WifiInv'
<1>1. /\ event = "stopMqtt" /\ event' = "idle"
      /\ running' = running \ {"mqtt"}
      /\ servicesStarted' = FALSE /\ startPending' = FALSE
      /\ startTask' = NoTask
      /\ starter' = [s \in StartTask |->
                      IF s = startTask THEN "none" ELSE starter[s]]
      /\ \/ inProvisionMode /\ UNCHANGED station
         \/ ~inProvisionMode
              /\ station' = IF station = "idle" THEN "connecting" ELSE station
      /\ UNCHANGED <<inProvisionMode, server, web, events, mode, credentials,
                     startFailed, failed, button>>
      /\ overlapped' \in BOOLEAN
      /\ overlapped \/ button \in {"deleteTask", "clearTask"} => overlapped'
  <2>1. overlapped' = (overlapped \/ AboutToDelete)
    BY DEF ForgetServices
  <2>2. overlapped' \in BOOLEAN
    BY <2>1, Zenon
  <2>3. overlapped \/ button \in {"deleteTask", "clearTask"} => overlapped'
    BY <2>1, Zenon DEF AboutToDelete
  <2> QED
    BY <2>2, <2>3
    DEF ForgetServices, DeleteStartTask, DeleteTask, Connect, Handled,
           flagVars, serviceVars, wifiVars, taskVars, historyVars
<1>2. TypeInv /\ QueueInv /\ SwitchInv /\ ModeInv /\ StartTaskTracked
      /\ HandoverInv /\ ServicesInv
  BY DEF WifiInv
<1>3. /\ events' = events /\ (HasGotIp' <=> HasGotIp) /\ Len(events) \in Nat
  BY <1>1, <1>2, LenProperties DEF HasGotIp, QueueInv
<1>5. TypeInv'
  <2>1. starter' \in [StartTask -> StarterSteps]
    BY <1>1, <1>2 DEF TypeInv, StarterSteps
  <2>2. /\ running' \subseteq {"mdns", "mqtt"} /\ startPending' \in BOOLEAN
        /\ startTask' \in StartTask \cup {NoTask}
    BY <1>1, <1>2 DEF TypeInv
  <2>3. /\ web' \in BOOLEAN /\ servicesStarted' \in BOOLEAN
        /\ station' \in {"idle", "connecting", "connected"}
        /\ server' \in {"down", "up", "stopping", "stale"}
    BY <1>1, <1>2 DEF TypeInv
  <2> QED
    BY <1>1, <1>2, <2>1, <2>2, <2>3 DEF TypeInv, ButtonSteps
<1>6. QueueInv'
  BY <1>1, <1>2, <1>3, EventsAssumption DEF QueueInv, SwitchInv, ModeInv, TypeInv
<1>7. SwitchInv' /\ ModeInv'
  BY <1>1, <1>2, <1>3 DEF SwitchInv, ModeInv, TypeInv
<1>8. StartTaskTracked' /\ HandoverInv'
  BY <1>1, <1>2, StartTaskAssumption
     DEF StartTaskTracked, HandoverInv, HandedOver, ModeInv, SwitchInv,
         TypeInv
<1>9. ServicesInv'
  BY <1>1, <1>2, StartTaskAssumption
     DEF ServicesInv, Stopping, StartTaskTracked, HandoverInv, HandedOver,
         TypeInv
<1> QED
  BY <1>5, <1>6, <1>7, <1>8, <1>9 DEF WifiInv

LEMMA HandleGotIpInProvisionModeKeeps ==
  ASSUME WifiInv, CalmSwitch, HandleGotIpInProvisionMode
  PROVE  WifiInv'
<1>1. /\ Take("gotIp") /\ Drop /\ inProvisionMode
      /\ web' = FALSE
      /\ event' = "leaveProvision"
      /\ UNCHANGED <<inProvisionMode, servicesStarted, startPending, running,
                     server, station, mode, credentials, startTask,
                     startFailed, failed, overlapped, starter, button>>
  BY DEF HandleGotIpInProvisionMode,
         flagVars, serviceVars, wifiVars, taskVars, historyVars
<1>2. TypeInv /\ QueueInv /\ SwitchInv /\ ModeInv /\ StartTaskTracked
      /\ HandoverInv /\ ServicesInv
  BY DEF WifiInv
<1>3. /\ events' \in Seq(Event) /\ Len(events') = Len(events) - 1
      /\ Len(events) \in Nat /\ Len(events') \in Nat
      /\ HasGotIp /\ (HasGotIp' => HasGotIp) /\ event = "idle"
  BY <1>1, <1>2, Dropping
<1>5. TypeInv'
  <2>1. starter' \in [StartTask -> StarterSteps]
    BY <1>1, <1>2 DEF TypeInv, StarterSteps
  <2>2. /\ running' \subseteq {"mdns", "mqtt"} /\ startPending' \in BOOLEAN
        /\ startTask' \in StartTask \cup {NoTask}
    BY <1>1, <1>2 DEF TypeInv
  <2>3. /\ web' \in BOOLEAN /\ servicesStarted' \in BOOLEAN
        /\ station' \in {"idle", "connecting", "connected"}
        /\ server' \in {"down", "up", "stopping", "stale"}
    BY <1>1, <1>2 DEF TypeInv
  <2> QED
    BY <1>1, <1>2, <2>1, <2>2, <2>3 DEF TypeInv, ButtonSteps
<1>6. QueueInv'
  BY <1>1, <1>2, <1>3, EventsAssumption DEF QueueInv, SwitchInv, ModeInv, TypeInv
<1>7. SwitchInv' /\ ModeInv'
  BY <1>1, <1>2, <1>3 DEF SwitchInv, ModeInv, TypeInv
<1>8. StartTaskTracked' /\ HandoverInv'
  BY <1>1, <1>2, <1>3, StartTaskAssumption
     DEF StartTaskTracked, HandoverInv, HandedOver, ModeInv, SwitchInv,
         TypeInv
<1>9. ServicesInv'
  BY <1>1, <1>2, <1>3, StartTaskAssumption
     DEF ServicesInv, Stopping, StartTaskTracked, HandoverInv, HandedOver,
         TypeInv
<1> QED
  BY <1>5, <1>6, <1>7, <1>8, <1>9 DEF WifiInv

LEMMA LeaveProvisionModeKeeps ==
  ASSUME WifiInv, CalmSwitch, LeaveProvisionMode
  PROVE  WifiInv'
<1>1. /\ event = "leaveProvision" /\ event' = "gotIp"
      /\ inProvisionMode' = FALSE /\ mode' = "sta" /\ station' = "connecting"
      /\ events' = events \o (IF Busy(station) THEN <<"disconnected">>
                            ELSE <<>>)
                          \o <<"start">>
      /\ UNCHANGED <<servicesStarted, startPending, running, server, web,
                     credentials, startTask, startFailed, failed, overlapped,
                     starter, button>>
  BY DEF LeaveProvisionMode,
         flagVars, serviceVars, wifiVars, taskVars, historyVars
<1>2. TypeInv /\ QueueInv /\ SwitchInv /\ ModeInv /\ StartTaskTracked
      /\ HandoverInv /\ ServicesInv
  BY DEF WifiInv
<1>3. /\ events' \in Seq(Event) /\ Len(events') <= Len(events) + 2
      /\ Len(events) \in Nat /\ Len(events') \in Nat /\ (HasGotIp' => HasGotIp)
  BY <1>1, <1>2, Restarting
<1>5. TypeInv'
  <2>1. /\ inProvisionMode' \in BOOLEAN /\ mode' \in {"sta", "apsta"}
        /\ station' \in {"idle", "connecting", "connected"}
        /\ event' \in {"idle", "stopServer", "stopMqtt", "leaveProvision", "gotIp"}
    BY <1>1
  <2> QED
    BY <1>1, <1>2, <2>1 DEF TypeInv
<1>6. QueueInv'
  BY <1>1, <1>2, <1>3, EventsAssumption DEF QueueInv, SwitchInv, ModeInv, TypeInv
<1>7. SwitchInv' /\ ModeInv'
  BY <1>1, <1>2, <1>3 DEF SwitchInv, ModeInv, TypeInv
<1>8. StartTaskTracked' /\ HandoverInv'
  BY <1>1, <1>2, StartTaskAssumption
     DEF StartTaskTracked, HandoverInv, HandedOver, ModeInv, SwitchInv,
         TypeInv
<1>9. ServicesInv'
  BY <1>1, <1>2, StartTaskAssumption
     DEF ServicesInv, Stopping, StartTaskTracked, HandoverInv, HandedOver,
         TypeInv
<1> QED
  BY <1>5, <1>6, <1>7, <1>8, <1>9 DEF WifiInv

LEMMA StartServicesKeeps ==
  ASSUME WifiInv, CalmSwitch, StartServices
  PROVE  WifiInv'
<1>1. /\ event' = "idle"
      /\ UNCHANGED <<inProvisionMode, servicesStarted, running, server, web,
                     station, mode, credentials, button, failed, overlapped>>
  BY DEF StartServices, Handled, serviceVars
<1>2. TypeInv /\ QueueInv /\ SwitchInv /\ ModeInv /\ StartTaskTracked
      /\ HandoverInv /\ ServicesInv
  BY DEF WifiInv
<1>3. /\ ~inProvisionMode /\ event \in {"idle", "gotIp"}
      /\ events' \in Seq(Event) /\ Len(events') <= Len(events)
      /\ Len(events) \in Nat /\ Len(events') \in Nat
      /\ HasGotIp' => HasGotIp
  <2>1. CASE Take("gotIp") /\ ~inProvisionMode /\ Drop
    <3>1. /\ events' \in Seq(Event) /\ Len(events') = Len(events) - 1
          /\ Len(events) \in Nat /\ Len(events') \in Nat
          /\ (HasGotIp' => HasGotIp) /\ event = "idle"
      BY <1>2, <2>1, Dropping
    <3> QED
      BY <2>1, <3>1
  <2>2. CASE event = "gotIp" /\ UNCHANGED events
    BY <1>2, <2>2, LenProperties DEF QueueInv, ModeInv, HasGotIp
  <2> QED
    BY <2>1, <2>2 DEF StartServices
<1>4. button = "idle" /\ ~web
  BY <1>2, <1>3 DEF ModeInv
<1>5. \/ UNCHANGED <<startPending, startTask, startFailed, starter>>
      \/ /\ ~startPending /\ ~servicesStarted
         /\ \E t \in StartTask :
              /\ starter[t] = "none" /\ startTask' = t
              /\ starter' = [starter EXCEPT ![t] = "check"]
         /\ startPending' = TRUE /\ startFailed' = FALSE
      \/ /\ ~startPending /\ ~servicesStarted
         /\ startTask' = NoTask /\ startFailed' = TRUE
         /\ UNCHANGED <<startPending, starter>>
  BY DEF StartServices
<1>6. QueueInv'
  BY <1>1, <1>2, <1>3, EventsAssumption DEF QueueInv
<1>7. SwitchInv' /\ ModeInv'
  BY <1>1, <1>2, <1>3, <1>4 DEF SwitchInv, ModeInv, TypeInv
<1>8. ~startPending /\ ~servicesStarted =>
        startTask = NoTask /\ \A s \in StartTask : starter[s] = "none"
  <2> SUFFICES ASSUME ~startPending, ~servicesStarted
               PROVE  startTask = NoTask /\ \A s \in StartTask : starter[s] = "none"
    OBVIOUS
  <2>1. \A s \in StartTask : starter[s] # "forget"
    BY <1>2, <1>4 DEF ServicesInv
  <2>2. startTask = NoTask
    BY <1>2, <1>4, <2>1 DEF HandoverInv, TypeInv
  <2> QED
    BY <1>2, <2>2, StartTaskAssumption DEF StartTaskTracked
<1>9. CASE UNCHANGED <<startPending, startTask, startFailed, starter>>
  <2>1. TypeInv'
    BY <1>1, <1>2, <1>9 DEF TypeInv
  <2>2. StartTaskTracked' /\ HandoverInv' /\ ServicesInv'
    BY <1>1, <1>2, <1>3, <1>9
       DEF StartTaskTracked, HandoverInv, HandedOver, ServicesInv, Stopping,
           TypeInv
  <2> QED
    BY <1>6, <1>7, <2>1, <2>2 DEF WifiInv
<1>10. ASSUME ~startPending, ~servicesStarted, NEW t \in StartTask,
              starter[t] = "none", startTask' = t,
              starter' = [starter EXCEPT ![t] = "check"],
              startPending' = TRUE, startFailed' = FALSE
       PROVE  WifiInv'
  <2>1. starter' \in [StartTask -> StarterSteps]
    BY <1>2, <1>10 DEF TypeInv, StarterSteps
  <2>2. TypeInv'
    <3>1. /\ startTask' \in StartTask \cup {NoTask}
          /\ startPending' \in BOOLEAN /\ startFailed' \in BOOLEAN
      BY <1>10
    <3> QED
      BY <1>1, <1>2, <2>1, <3>1 DEF TypeInv
  <2>3. \A s \in StartTask : starter'[s] = IF s = t THEN "check" ELSE "none"
    BY <1>2, <1>8, <1>10 DEF TypeInv
  <2>4. StartTaskTracked'
    BY <1>1, <1>2, <1>4, <1>10, <2>3 DEF StartTaskTracked
  <2>5. HandoverInv'
    BY <1>1, <1>2, <1>3, <1>4, <1>10 DEF HandoverInv, HandedOver, TypeInv
  <2>6. ServicesInv'
    BY <1>1, <1>2, <1>3, <2>3 DEF ServicesInv, Stopping
  <2> QED
    BY <1>6, <1>7, <2>2, <2>4, <2>5, <2>6 DEF WifiInv
<1>11. CASE /\ ~startPending /\ ~servicesStarted
            /\ startTask' = NoTask /\ startFailed' = TRUE
            /\ UNCHANGED <<startPending, starter>>
  <2>1. TypeInv'
    BY <1>1, <1>2, <1>11 DEF TypeInv
  <2>2. StartTaskTracked' /\ HandoverInv' /\ ServicesInv'
    BY <1>1, <1>2, <1>3, <1>8, <1>11
       DEF StartTaskTracked, HandoverInv, HandedOver, ServicesInv, Stopping,
           TypeInv
  <2> QED
    BY <1>6, <1>7, <2>1, <2>2 DEF WifiInv
<1> QED
  BY <1>5, <1>9, <1>10, <1>11


LEMMA LongPressKeeps ==
  ASSUME WifiInv, CalmSwitch, LongPress
  PROVE  WifiInv'
<1>1. /\ button = "idle" /\ button' = "stopServer"
      /\ event \notin {"leaveProvision", "gotIp"}
      /\ \A i \in DOMAIN events : events[i] # "gotIp"
      /\ inProvisionMode' = TRUE
      /\ UNCHANGED <<servicesStarted, startPending, running, server, web,
                     events, station, mode, credentials, startTask,
                     startFailed, failed, overlapped, starter, event>>
  BY DEF LongPress, ButtonGoes,
         flagVars, serviceVars, wifiVars, taskVars, historyVars
<1>2. TypeInv /\ QueueInv /\ SwitchInv /\ ModeInv /\ StartTaskTracked
      /\ HandoverInv /\ ServicesInv
  BY DEF WifiInv
<1>3. /\ events' = events /\ (HasGotIp' <=> HasGotIp) /\ Len(events) \in Nat
  BY <1>1, <1>2, LenProperties DEF HasGotIp, QueueInv
<1>4. ~HasGotIp
  BY <1>1, <1>2, LenProperties DEF HasGotIp, QueueInv
<1>5. TypeInv'
  BY <1>1, <1>2, <1>4 DEF TypeInv, ButtonSteps
<1>6. QueueInv'
  BY <1>1, <1>2, <1>3, <1>4, EventsAssumption DEF QueueInv, SwitchInv, ModeInv, TypeInv
<1>7. SwitchInv' /\ ModeInv'
  BY <1>1, <1>2, <1>3, <1>4 DEF SwitchInv, ModeInv, TypeInv
<1>8. StartTaskTracked' /\ HandoverInv'
  BY <1>1, <1>2, <1>4, StartTaskAssumption
     DEF StartTaskTracked, HandoverInv, HandedOver, ModeInv, SwitchInv,
         TypeInv
<1>9. ServicesInv'
  BY <1>1, <1>2, <1>4, StartTaskAssumption
     DEF ServicesInv, Stopping, StartTaskTracked, HandoverInv, HandedOver,
         TypeInv
<1> QED
  BY <1>5, <1>6, <1>7, <1>8, <1>9 DEF WifiInv

LEMMA ButtonStopServerKeeps ==
  ASSUME WifiInv, CalmSwitch, ButtonStopServer
  PROVE  WifiInv'
<1>1. /\ button = "stopServer" /\ button' = "waitServer"
      /\ server' = IF server = "up" THEN "stopping" ELSE server
      /\ UNCHANGED <<inProvisionMode, servicesStarted, startPending, running,
                     web, events, station, mode, credentials, startTask,
                     startFailed, failed, overlapped, starter, event>>
  BY DEF ButtonStopServer, ButtonGoes, StopServer,
         flagVars, serviceVars, wifiVars, taskVars, historyVars
<1>2. TypeInv /\ QueueInv /\ SwitchInv /\ ModeInv /\ StartTaskTracked
      /\ HandoverInv /\ ServicesInv
  BY DEF WifiInv
<1>3. /\ events' = events /\ (HasGotIp' <=> HasGotIp) /\ Len(events) \in Nat
  BY <1>1, <1>2, LenProperties DEF HasGotIp, QueueInv
<1>5. TypeInv'
  BY <1>1, <1>2 DEF TypeInv, ButtonSteps
<1>6. QueueInv'
  BY <1>1, <1>2, <1>3, EventsAssumption DEF QueueInv, SwitchInv, ModeInv, TypeInv
<1>7. SwitchInv' /\ ModeInv'
  BY <1>1, <1>2, <1>3 DEF SwitchInv, ModeInv, TypeInv
<1>8. StartTaskTracked' /\ HandoverInv'
  BY <1>1, <1>2, StartTaskAssumption
     DEF StartTaskTracked, HandoverInv, HandedOver, ModeInv, SwitchInv,
         TypeInv
<1>9. ServicesInv'
  BY <1>1, <1>2, StartTaskAssumption
     DEF ServicesInv, Stopping, StartTaskTracked, HandoverInv, HandedOver,
         TypeInv
<1> QED
  BY <1>5, <1>6, <1>7, <1>8, <1>9 DEF WifiInv

LEMMA ButtonTestTaskKeeps ==
  ASSUME WifiInv, CalmSwitch, ButtonTestTask
  PROVE  WifiInv'
<1>1. /\ button = "waitServer"
      /\ button' = IF startTask = NoTask THEN "stopServices" ELSE "deleteTask"
      /\ server' = "down"
      /\ UNCHANGED <<inProvisionMode, servicesStarted, startPending, running,
                    web, events, station, mode, credentials, startTask,
                    startFailed, failed, overlapped, starter, event>>
  BY DEF ButtonTestTask, ButtonGoes, ServerStopped,
         flagVars, serviceVars, wifiVars, taskVars, historyVars
<1>2. TypeInv /\ QueueInv /\ SwitchInv /\ ModeInv /\ StartTaskTracked
      /\ HandoverInv /\ ServicesInv
  BY DEF WifiInv
<1>3. /\ events' = events /\ (HasGotIp' <=> HasGotIp) /\ Len(events) \in Nat
  BY <1>1, <1>2, LenProperties DEF HasGotIp, QueueInv
<1>5. TypeInv'
  <2>1. starter' \in [StartTask -> StarterSteps]
    BY <1>1, <1>2 DEF TypeInv, StarterSteps
  <2>2. /\ running' \subseteq {"mdns", "mqtt"} /\ startPending' \in BOOLEAN
        /\ startTask' \in StartTask \cup {NoTask}
    BY <1>1, <1>2 DEF TypeInv
  <2>3. /\ web' \in BOOLEAN /\ servicesStarted' \in BOOLEAN
        /\ station' \in {"idle", "connecting", "connected"}
        /\ server' \in {"down", "up", "stopping", "stale"}
    BY <1>1, <1>2 DEF TypeInv
  <2>4. failed' \subseteq {"mqtt", "ws"}
    BY <1>1, <1>2 DEF TypeInv
  <2> QED
    BY <1>1, <1>2, <2>1, <2>2, <2>3, <2>4 DEF TypeInv, ButtonSteps
<1>6. QueueInv'
  BY <1>1, <1>2, <1>3, EventsAssumption DEF QueueInv, SwitchInv, ModeInv, TypeInv
<1>7. SwitchInv' /\ ModeInv'
  BY <1>1, <1>2, <1>3 DEF SwitchInv, ModeInv, TypeInv
<1>8. StartTaskTracked' /\ HandoverInv'
  BY <1>1, <1>2, StartTaskAssumption
     DEF StartTaskTracked, HandoverInv, HandedOver, ModeInv, SwitchInv,
         TypeInv
<1>9. ServicesInv'
  BY <1>1, <1>2, StartTaskAssumption
     DEF ServicesInv, Stopping, StartTaskTracked, HandoverInv, HandedOver,
         TypeInv
<1> QED
  BY <1>5, <1>6, <1>7, <1>8, <1>9 DEF WifiInv

LEMMA ButtonDeleteTaskKeeps ==
  ASSUME WifiInv, CalmSwitch, ButtonDeleteTask
  PROVE  WifiInv'
<1>1. /\ button = "deleteTask"
      /\ button' = IF startTask = NoTask THEN "gone" ELSE "clearTask"
      /\ starter' = [s \in StartTask |->
                      IF s = startTask THEN "none" ELSE starter[s]]
      /\ UNCHANGED <<inProvisionMode, servicesStarted, startPending, running,
                    server, web, events, station, mode, credentials, startTask,
                    startFailed, failed, overlapped, event>>
  BY DEF ButtonDeleteTask, ButtonGoes, DeleteTask,
         flagVars, serviceVars, wifiVars, taskVars, historyVars
<1>2. TypeInv /\ QueueInv /\ SwitchInv /\ ModeInv /\ StartTaskTracked
      /\ HandoverInv /\ ServicesInv
  BY DEF WifiInv
<1>3. /\ events' = events /\ (HasGotIp' <=> HasGotIp) /\ Len(events) \in Nat
  BY <1>1, <1>2, LenProperties DEF HasGotIp, QueueInv
<1>5. TypeInv'
  <2>1. starter' \in [StartTask -> StarterSteps]
    BY <1>1, <1>2 DEF TypeInv, StarterSteps
  <2>2. /\ running' \subseteq {"mdns", "mqtt"} /\ startPending' \in BOOLEAN
        /\ startTask' \in StartTask \cup {NoTask}
    BY <1>1, <1>2 DEF TypeInv
  <2>3. /\ web' \in BOOLEAN /\ servicesStarted' \in BOOLEAN
        /\ station' \in {"idle", "connecting", "connected"}
        /\ server' \in {"down", "up", "stopping", "stale"}
    BY <1>1, <1>2 DEF TypeInv
  <2>4. failed' \subseteq {"mqtt", "ws"}
    BY <1>1, <1>2 DEF TypeInv
  <2> QED
    BY <1>1, <1>2, <2>1, <2>2, <2>3, <2>4 DEF TypeInv, ButtonSteps
<1>6. QueueInv'
  BY <1>1, <1>2, <1>3, EventsAssumption DEF QueueInv, SwitchInv, ModeInv, TypeInv
<1>7. SwitchInv' /\ ModeInv'
  BY <1>1, <1>2, <1>3 DEF SwitchInv, ModeInv, TypeInv
<1>8. StartTaskTracked' /\ HandoverInv'
  BY <1>1, <1>2, StartTaskAssumption
     DEF StartTaskTracked, HandoverInv, HandedOver, ModeInv, SwitchInv,
         TypeInv
<1>9. ServicesInv'
  BY <1>1, <1>2, StartTaskAssumption
     DEF ServicesInv, Stopping, StartTaskTracked, HandoverInv, HandedOver,
         TypeInv
<1> QED
  BY <1>5, <1>6, <1>7, <1>8, <1>9 DEF WifiInv

LEMMA ButtonClearTaskKeeps ==
  ASSUME WifiInv, CalmSwitch, ButtonClearTask
  PROVE  WifiInv'
<1>1. /\ button = "clearTask" /\ button' = "stopServices"
      /\ startTask' = NoTask
      /\ UNCHANGED <<inProvisionMode, servicesStarted, startPending, running,
                    server, web, events, station, mode, credentials,
                    startFailed, failed, overlapped, starter, event>>
  BY DEF ButtonClearTask, ButtonGoes,
         flagVars, serviceVars, wifiVars, taskVars, historyVars
<1>2. TypeInv /\ QueueInv /\ SwitchInv /\ ModeInv /\ StartTaskTracked
      /\ HandoverInv /\ ServicesInv
  BY DEF WifiInv
<1>3. /\ events' = events /\ (HasGotIp' <=> HasGotIp) /\ Len(events) \in Nat
  BY <1>1, <1>2, LenProperties DEF HasGotIp, QueueInv
<1>5. TypeInv'
  <2>1. starter' \in [StartTask -> StarterSteps]
    BY <1>1, <1>2 DEF TypeInv, StarterSteps
  <2>2. /\ running' \subseteq {"mdns", "mqtt"} /\ startPending' \in BOOLEAN
        /\ startTask' \in StartTask \cup {NoTask}
    BY <1>1, <1>2 DEF TypeInv
  <2>3. /\ web' \in BOOLEAN /\ servicesStarted' \in BOOLEAN
        /\ station' \in {"idle", "connecting", "connected"}
        /\ server' \in {"down", "up", "stopping", "stale"}
    BY <1>1, <1>2 DEF TypeInv
  <2>4. failed' \subseteq {"mqtt", "ws"}
    BY <1>1, <1>2 DEF TypeInv
  <2> QED
    BY <1>1, <1>2, <2>1, <2>2, <2>3, <2>4 DEF TypeInv, ButtonSteps
<1>6. QueueInv'
  BY <1>1, <1>2, <1>3, EventsAssumption DEF QueueInv, SwitchInv, ModeInv, TypeInv
<1>7. SwitchInv' /\ ModeInv'
  BY <1>1, <1>2, <1>3 DEF SwitchInv, ModeInv, TypeInv
<1>8. StartTaskTracked' /\ HandoverInv'
  BY <1>1, <1>2, StartTaskAssumption
     DEF StartTaskTracked, HandoverInv, HandedOver, ModeInv, SwitchInv,
         TypeInv
<1>9. ServicesInv'
  BY <1>1, <1>2, StartTaskAssumption
     DEF ServicesInv, Stopping, StartTaskTracked, HandoverInv, HandedOver,
         TypeInv
<1> QED
  BY <1>5, <1>6, <1>7, <1>8, <1>9 DEF WifiInv

LEMMA ButtonStopServicesKeeps ==
  ASSUME WifiInv, CalmSwitch, ButtonStopServices
  PROVE  WifiInv'
<1>1. /\ button = "stopServices" /\ button' = "clearFlags"
      /\ running' = {}
      /\ UNCHANGED <<inProvisionMode, servicesStarted, startPending, server,
                     web, events, station, mode, credentials, startTask,
                     startFailed, failed, overlapped, starter, event>>
  BY DEF ButtonStopServices, ButtonGoes,
         flagVars, serviceVars, wifiVars, taskVars, historyVars
<1>2. TypeInv /\ QueueInv /\ SwitchInv /\ ModeInv /\ StartTaskTracked
      /\ HandoverInv /\ ServicesInv
  BY DEF WifiInv
<1>3. /\ events' = events /\ (HasGotIp' <=> HasGotIp) /\ Len(events) \in Nat
  BY <1>1, <1>2, LenProperties DEF HasGotIp, QueueInv
<1>5. TypeInv'
  BY <1>1, <1>2 DEF TypeInv, ButtonSteps
<1>6. QueueInv'
  BY <1>1, <1>2, <1>3, EventsAssumption DEF QueueInv, SwitchInv, ModeInv, TypeInv
<1>7. SwitchInv' /\ ModeInv'
  BY <1>1, <1>2, <1>3 DEF SwitchInv, ModeInv, TypeInv
<1>8. StartTaskTracked' /\ HandoverInv'
  BY <1>1, <1>2, StartTaskAssumption
     DEF StartTaskTracked, HandoverInv, HandedOver, ModeInv, SwitchInv,
         TypeInv
<1>9. ServicesInv'
  BY <1>1, <1>2, StartTaskAssumption
     DEF ServicesInv, Stopping, StartTaskTracked, HandoverInv, HandedOver,
         TypeInv
<1> QED
  BY <1>5, <1>6, <1>7, <1>8, <1>9 DEF WifiInv

LEMMA ClearFlagsKeeps ==
  ASSUME WifiInv, CalmSwitch, ClearFlags
  PROVE  WifiInv'
<1>1. /\ button = "clearFlags" /\ button' = "restartWifi"
      /\ servicesStarted' = FALSE /\ startPending' = FALSE
      /\ UNCHANGED <<inProvisionMode, running, server, web, events, station,
                     mode, credentials, startTask, startFailed, failed,
                     overlapped, starter, event>>
  BY DEF ClearFlags, ButtonGoes,
         flagVars, serviceVars, wifiVars, taskVars, historyVars
<1>2. TypeInv /\ QueueInv /\ SwitchInv /\ ModeInv /\ StartTaskTracked
      /\ HandoverInv /\ ServicesInv
  BY DEF WifiInv
<1>3. /\ events' = events /\ (HasGotIp' <=> HasGotIp) /\ Len(events) \in Nat
  BY <1>1, <1>2, LenProperties DEF HasGotIp, QueueInv
<1>4. /\ startTask = NoTask /\ server = "down"
      /\ \A s \in StartTask : starter[s] = "none"
  <2>1. startTask = NoTask /\ server = "down"
    BY <1>1, <1>2, Zenon DEF HandoverInv, HandedOver
  <2> QED
    BY <1>2, <2>1, StartTaskAssumption DEF StartTaskTracked
<1>5. TypeInv'
  BY <1>1, <1>2, <1>4 DEF TypeInv, ButtonSteps
<1>6. QueueInv'
  BY <1>1, <1>2, <1>3, <1>4, EventsAssumption DEF QueueInv, SwitchInv, ModeInv, TypeInv
<1>7. SwitchInv' /\ ModeInv'
  BY <1>1, <1>2, <1>3, <1>4 DEF SwitchInv, ModeInv, TypeInv
<1>8. StartTaskTracked' /\ HandoverInv'
  BY <1>1, <1>2, <1>4, StartTaskAssumption
     DEF StartTaskTracked, HandoverInv, HandedOver, ModeInv, SwitchInv,
         TypeInv
<1>9. ServicesInv'
  BY <1>1, <1>2, <1>4, StartTaskAssumption
     DEF ServicesInv, Stopping, StartTaskTracked, HandoverInv, HandedOver,
         TypeInv
<1> QED
  BY <1>5, <1>6, <1>7, <1>8, <1>9 DEF WifiInv

LEMMA RestartWifiKeeps ==
  ASSUME WifiInv, CalmSwitch, RestartWifi
  PROVE  WifiInv'
<1>1. /\ button = "restartWifi" /\ button' = "startWeb"
      /\ Len(events) + 2 <= MaxEvents
      /\ mode' = "apsta" /\ credentials' = FALSE /\ station' = "idle"
      /\ events' = events \o (IF Busy(station) THEN <<"disconnected">>
                            ELSE <<>>)
                          \o <<"start">>
      /\ UNCHANGED <<inProvisionMode, servicesStarted, startPending, running,
                     server, web, startTask, startFailed, failed, overlapped,
                     starter, event>>
  BY DEF RestartWifi, ButtonGoes,
         flagVars, serviceVars, wifiVars, taskVars, historyVars
<1>2. TypeInv /\ QueueInv /\ SwitchInv /\ ModeInv /\ StartTaskTracked
      /\ HandoverInv /\ ServicesInv
  BY DEF WifiInv
<1>3. /\ events' \in Seq(Event) /\ Len(events') <= Len(events) + 2
      /\ Len(events) \in Nat /\ Len(events') \in Nat /\ (HasGotIp' => HasGotIp)
  BY <1>1, <1>2, Restarting
<1>5. TypeInv'
  BY <1>1, <1>2 DEF TypeInv, ButtonSteps
<1>6. QueueInv'
  BY <1>1, <1>2, <1>3, EventsAssumption DEF QueueInv, SwitchInv, ModeInv, TypeInv
<1>7. SwitchInv' /\ ModeInv'
  BY <1>1, <1>2, <1>3 DEF SwitchInv, ModeInv, TypeInv
<1>8. StartTaskTracked' /\ HandoverInv'
  BY <1>1, <1>2, StartTaskAssumption
     DEF StartTaskTracked, HandoverInv, HandedOver, ModeInv, SwitchInv,
         TypeInv
<1>9. ServicesInv'
  BY <1>1, <1>2, StartTaskAssumption
     DEF ServicesInv, Stopping, StartTaskTracked, HandoverInv, HandedOver,
         TypeInv
<1> QED
  BY <1>5, <1>6, <1>7, <1>8, <1>9 DEF WifiInv

LEMMA StartWebKeeps ==
  ASSUME WifiInv, CalmSwitch, StartWeb
  PROVE  WifiInv'
<1>1. /\ button = "startWeb" /\ button' = "idle"
      /\ web' = (web \/ server \in {"down", "stale"})
      /\ UNCHANGED <<inProvisionMode, servicesStarted, startPending, running,
                     server, events, station, mode, credentials, startTask,
                     startFailed, failed, overlapped, starter, event>>
  BY DEF StartWeb, ButtonGoes,
         flagVars, serviceVars, wifiVars, taskVars, historyVars
<1>2. TypeInv /\ QueueInv /\ SwitchInv /\ ModeInv /\ StartTaskTracked
      /\ HandoverInv /\ ServicesInv
  BY DEF WifiInv
<1>3. /\ events' = events /\ (HasGotIp' <=> HasGotIp) /\ Len(events) \in Nat
  BY <1>1, <1>2, LenProperties DEF HasGotIp, QueueInv
<1>4. web' = TRUE /\ startTask = NoTask /\ server = "down" /\ inProvisionMode
  <2>1. startTask = NoTask /\ server = "down"
    BY <1>1, <1>2, Zenon DEF HandoverInv, HandedOver
  <2>2. inProvisionMode
    BY <1>1, <1>2 DEF ModeInv
  <2>3. web' = TRUE
    BY <1>1, <2>1
  <2> QED
    BY <2>1, <2>2, <2>3
<1>5. TypeInv'
  BY <1>1, <1>2, <1>4 DEF TypeInv, ButtonSteps
<1>6. QueueInv'
  BY <1>1, <1>2, <1>3, <1>4, EventsAssumption DEF QueueInv, SwitchInv, ModeInv, TypeInv
<1>7. SwitchInv' /\ ModeInv'
  BY <1>1, <1>2, <1>3, <1>4 DEF SwitchInv, ModeInv, TypeInv
<1>8. StartTaskTracked' /\ HandoverInv'
  BY <1>1, <1>2, <1>4, StartTaskAssumption
     DEF StartTaskTracked, HandoverInv, HandedOver, ModeInv, SwitchInv,
         TypeInv
<1>9. ServicesInv'
  BY <1>1, <1>2, <1>4, StartTaskAssumption
     DEF ServicesInv, Stopping, StartTaskTracked, HandoverInv, HandedOver,
         TypeInv
<1> QED
  BY <1>5, <1>6, <1>7, <1>8, <1>9 DEF WifiInv

LEMMA StutterKeeps == WifiInv /\ UNCHANGED vars => WifiInv'
<1> SUFFICES ASSUME WifiInv, UNCHANGED vars PROVE WifiInv'
  OBVIOUS
<1>1. UNCHANGED <<inProvisionMode, servicesStarted, startPending, running,
                  server, web, events, station, mode, credentials, startTask,
                  startFailed, failed, overlapped, starter, event, button>>
  BY DEF vars, flagVars, serviceVars, wifiVars, taskVars, historyVars
<1>2. HasGotIp' <=> HasGotIp
  BY <1>1 DEF HasGotIp
<1>3. TypeInv' /\ QueueInv' /\ SwitchInv' /\ ModeInv'
  BY <1>1, <1>2 DEF WifiInv, TypeInv, QueueInv, SwitchInv, ModeInv
<1>4. StartTaskTracked' /\ HandoverInv' /\ ServicesInv'
  BY <1>1 DEF WifiInv, StartTaskTracked, HandoverInv, HandedOver, ServicesInv,
     Stopping
<1> QED
  BY <1>3, <1>4 DEF WifiInv

LEMMA InitWifi == Init => WifiInv
<1> SUFFICES ASSUME Init PROVE WifiInv
  OBVIOUS
<1>1. events \in Seq(Event) /\ Len(events) = 0 /\ 1..0 = {}
  BY EmptySeq DEF Init
<1>2. ~HasGotIp
  BY <1>1 DEF HasGotIp
<1>3. TypeInv
  BY DEF Init, TypeInv, StarterSteps, ButtonSteps
<1>4. QueueInv
  BY <1>1, <1>2, EventsAssumption DEF QueueInv, Init
<1>5. SwitchInv /\ ModeInv
  BY <1>2 DEF Init, SwitchInv, ModeInv
<1>6. StartTaskTracked /\ HandoverInv /\ ServicesInv
  BY StartTaskAssumption
     DEF Init, StartTaskTracked, HandoverInv, HandedOver, ServicesInv
<1> QED
  BY <1>3, <1>4, <1>5, <1>6 DEF WifiInv

\* The invariant of every step.
THEOREM WifiInvariant ==
  ASSUME CalmSwitch
  PROVE  Spec => []WifiInv
<1>1. WifiInv /\ [Next]_vars => WifiInv'
  <2> SUFFICES ASSUME WifiInv, [Next]_vars PROVE WifiInv'
    OBVIOUS
  <2>1. CASE GetAddress \/ LoseLink \/ SubmitForm \/ ServerEnds
    BY <2>1, GetAddressKeeps, LoseLinkKeeps, SubmitFormKeeps, ServerEndsKeeps
  <2>2. ASSUME ~AboutToDelete, NEW t \in StartTask, StarterStep(t) PROVE WifiInv'
    BY <2>2, CheckModeKeeps, StartMdnsKeeps, StartMqttKeeps, StartServerKeeps,
       ClearPendingKeeps, EndStartKeeps DEF StarterStep
  <2>3. CASE EventStep
    BY <2>3, HandleStartKeeps, IgnoreDisconnectedKeeps, HandleDisconnectedKeeps,
       EventStopServerKeeps, ForgetServicesKeeps, StartServicesKeeps,
       HandleGotIpInProvisionModeKeeps, LeaveProvisionModeKeeps DEF EventStep
  <2>4. CASE LongPress \/ ButtonStep
    BY <2>4, LongPressKeeps, ButtonStopServerKeeps, ButtonTestTaskKeeps,
       ButtonDeleteTaskKeeps, ButtonClearTaskKeeps, ButtonStopServicesKeeps,
       ClearFlagsKeeps, RestartWifiKeeps, StartWebKeeps
       DEF ButtonStep
  <2>5. CASE UNCHANGED vars \/ Stuck
    BY <2>5, StutterKeeps DEF Stuck
  <2> QED
    BY <2>1, <2>2, <2>3, <2>4, <2>5 DEF Next
<1> QED
  BY InitWifi, <1>1, PTL DEF Spec

\* The types, how far the queue of events can be over its bound, and that a start
\* task which has a handle is pending.
THEOREM TypeCorrect ==
  ASSUME CalmSwitch
  PROVE  Spec => []WifiTypeOK
<1>1. WifiInv => WifiTypeOK
  BY DEF WifiInv, TypeInv, QueueInv, HandoverInv, WifiTypeOK, Event,
         StarterSteps, ButtonSteps
<1> QED
  BY <1>1, WifiInvariant, PTL

\* The handle is that of the one start task there is: no start task that runs is
\* missed, and unless the event task overlapped it, the button task never deletes
\* through a handle that has become NULL, which would delete itself.
THEOREM HandleTracked ==
  ASSUME CalmSwitch
  PROVE  Spec => []StartTaskTracked
<1>1. WifiInv => StartTaskTracked
  BY DEF WifiInv
<1> QED
  BY <1>1, WifiInvariant, PTL

\* If s_staServicesStarted is set, every service of a settled device runs, or its
\* own start failed.
THEOREM FlagTrue ==
  ASSUME CalmSwitch
  PROVE  Spec => []FlagTellsServices
<1>1. WifiInv => FlagTellsServices
  BY DEF WifiInv, ServicesInv, Stopping, Settled, FlagTellsServices
<1> QED
  BY <1>1, WifiInvariant, PTL

\* A settled station with an address has left provisioning.
THEOREM LeavesProvisioning ==
  ASSUME CalmSwitch
  PROVE  Spec => []ConnectedLeavesProvisioning
<1>1. WifiInv => ConnectedLeavesProvisioning
  <2> SUFFICES ASSUME WifiInv, Settled, station = "connected"
               PROVE  ~inProvisionMode /\ ~web /\ mode = "sta"
    BY DEF ConnectedLeavesProvisioning
  <2>1. ~HasGotIp
    <3>1. 1..Len(events) = {}
      BY EmptySeq DEF Settled
    <3> QED
      BY <3>1 DEF HasGotIp
  <2> QED
    BY <2>1 DEF WifiInv, ModeInv, Settled
<1> QED
  BY <1>1, WifiInvariant, PTL

\* A settled device in provisioning mode serves the form, and nothing else has
\* the port.
THEOREM FormServed ==
  ASSUME CalmSwitch
  PROVE  Spec => []ProvisioningServed
<1>1. WifiInv => ProvisioningServed
  BY DEF WifiInv, ModeInv, HandoverInv, HandedOver, Settled, ProvisioningServed
<1> QED
  BY <1>1, WifiInvariant, PTL
=============================================================================
