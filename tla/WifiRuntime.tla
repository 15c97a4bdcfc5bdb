----------------------------- MODULE WifiRuntime -----------------------------
(***************************************************************************)
(* wifi_runtime.c of the ESP8266 firmware: station mode, provisioning mode *)
(* and the services of each, with provisioning_web.c and the start and     *)
(* stop of sta_ws_server.c, mdns_service.c and onenet_mqtt.c.              *)
(*                                                                         *)
(* The event task runs wifi_runtime_event_handler, one event at a time;    *)
(* the button task runs wifi_runtime_start_provision_mode on a long press; *)
(* sta_service_start_task starts the services of a station that has an     *)
(* address; the httpd task applies a submitted form.                       *)
(*                                                                         *)
(* A step of a task goes from one call that may block to the next: the     *)
(* event task has the highest priority and the start task the lowest, so   *)
(* no other task sees the states in between.  The button task can be       *)
(* preempted by the event task at any point, so its steps are smaller.     *)
(*                                                                         *)
(* A task that is deleted twice is undefined in FreeRTOS; here the second  *)
(* time does nothing.                                                      *)
(*                                                                         *)
(* Abstracted: the Wi-Fi driver, as a station that is stopped, idle,       *)
(* connecting or has an address; app_main, which leaves one of the two     *)
(* modes of Init; calls that abort the program (ESP_ERROR_CHECK).          *)
(***************************************************************************)
EXTENDS Naturals, Sequences

CONSTANTS StartTask,  \* identities of sta_service_start_task
          NoTask,     \* s_staServiceStartTask == NULL
          MaxEvents,  \* events waiting in the loop (32 in the firmware)
          CalmSwitch  \* no address is obtained while the button task switches

ASSUME StartTaskAssumption == NoTask \notin StartTask
ASSUME EventsAssumption == MaxEvents \in Nat
ASSUME SwitchAssumption == CalmSwitch \in BOOLEAN

VARIABLES
  inProvisionMode, servicesStarted, startPending,
  startTask,   \* s_staServiceStartTask
  startFailed, \* history: the last creation of the start task failed
  failed,      \* history: the services whose last start failed
  overlapped,  \* history: the event task worked on the start task or the
               \* server while the button task was about to delete it
  starter,     \* where each start task is
  event,       \* where the event task is
  button,      \* where the button task is
  running,     \* which of "mdns" and "mqtt" run
  server,      \* the web and websocket server of station mode
  web,         \* the web server of provisioning mode runs
  events,      \* the events that wait
  station, mode,
  credentials  \* the station has the name of a network

flagVars == <<inProvisionMode, servicesStarted, startPending>>
serviceVars == <<running, server, web>>
wifiVars == <<events, station, mode, credentials>>
historyVars == <<startFailed, failed, overlapped>>
taskVars == <<startTask, starter, event, button, historyVars>>
vars == <<flagVars, serviceVars, wifiVars, taskVars>>

Init ==
  /\ servicesStarted = FALSE
  /\ startPending = FALSE
  /\ startTask = NoTask
  /\ startFailed = FALSE /\ failed = {} /\ overlapped = FALSE
  /\ starter = [s \in StartTask |-> "none"]
  /\ event = "idle"
  /\ button = "idle"
  /\ running = {}
  /\ server = "down"
  /\ events = <<>>
  /\ \/ /\ inProvisionMode = FALSE /\ web = FALSE
        /\ credentials = TRUE /\ station = "connecting" /\ mode = "sta"
     \/ /\ inProvisionMode = TRUE /\ web = TRUE
        /\ credentials = FALSE /\ station = "idle" /\ mode = "apsta"

-----------------------------------------------------------------------------
(* The Wi-Fi driver.                                                       *)

Busy(s) == s \in {"connecting", "connected"}

Posted(e) == Len(events) < MaxEvents /\ events' = Append(events, e)

\* The station gets an address, which the event task hears of later.
GetAddress ==
  /\ station = "connecting" /\ credentials
  /\ CalmSwitch => button = "idle"
  /\ station' = "connected"
  /\ Posted("gotIp")
  /\ UNCHANGED <<mode, credentials, flagVars, serviceVars, taskVars>>

\* The attempt fails, or the connection is lost.
LoseLink ==
  /\ Busy(station)
  /\ station' = "idle"
  /\ Posted("disconnected")
  /\ UNCHANGED <<mode, credentials, flagVars, serviceVars, taskVars>>

Connect == station' = IF station = "idle" THEN "connecting" ELSE station

-----------------------------------------------------------------------------
(* sta_ws_server_stop tells the server task to end and waits; a task that   *)
(* does not end within a second is deleted.                                *)

StopServer == server' = IF server = "up" THEN "stopping" ELSE server
ServerStopped == server' = "down"

\* The server task leaves accept() and ends.
ServerEnds ==
  /\ server = "stopping"
  /\ server' = "down"
  /\ UNCHANGED <<running, web, flagVars, wifiVars, taskVars>>

\* vTaskDelete(s_staServiceStartTask)
DeleteTask ==
  starter' = [s \in StartTask |-> IF s = startTask THEN "none" ELSE starter[s]]

\* s_staServiceStartTask is deleted, if there is one.
DeleteStartTask == DeleteTask /\ startTask' = NoTask

-----------------------------------------------------------------------------
(* sta_service_start_task.                                                 *)

StarterGoes(s, from, to) ==
  starter[s] = from /\ starter' = [starter EXCEPT ![s] = to]

CheckMode(s) ==
  /\ StarterGoes(s, "check", IF ~inProvisionMode /\ ~servicesStarted
                             THEN "mdns" ELSE "end")
  /\ startTask' = s
  /\ UNCHANGED <<event, button, flagVars, serviceVars, wifiVars, historyVars>>

\* mdns_service_start succeeds, or aborts the program.
StartMdns(s) ==
  /\ StarterGoes(s, "mdns", "mqtt")
  /\ running' = running \cup {"mdns"}
  /\ UNCHANGED <<startTask, event, button, server, web, flagVars, wifiVars,
                 historyVars>>

\* onenet_mqtt_start may fail at each of its calls, and does not tell.
StartMqtt(s) ==
  /\ StarterGoes(s, "mqtt", "ws")
  /\ \/ running' = running \cup {"mqtt"} /\ failed' = failed \ {"mqtt"}
     \/ "mqtt" \notin running /\ failed' = failed \cup {"mqtt"} /\ UNCHANGED running
  /\ UNCHANGED <<startTask, event, button, server, web, flagVars, wifiVars,
                 startFailed, overlapped>>

\* sta_ws_server_start does nothing while s_serverTask names a task.  A server
\* that it creates may end for want of a socket, and is still named then; or
\* there is none, for want of memory, or as it could not have port 80, which the
\* other web server may have.
TryServer ==
  \/ server = "up" /\ UNCHANGED server /\ failed' = failed \ {"ws"}
  \/ server = "stopping" /\ UNCHANGED <<server, failed>>
  \/ server = "down" /\ ~web /\ server' = "up" /\ failed' = failed \ {"ws"}
  \/ /\ server \in {"down", "stale"}
     /\ server' \in {server, "stale"}
     /\ failed' = failed \cup {"ws"}

\* Whatever came of it, the services then count as started.
StartServer(s) ==
  /\ StarterGoes(s, "ws", "end")
  /\ TryServer
  /\ servicesStarted' = TRUE
  /\ UNCHANGED <<startTask, event, button, running, web, inProvisionMode,
                 startPending, wifiVars, startFailed, overlapped>>

ClearPending(s) ==
  /\ StarterGoes(s, "end", "forget")
  /\ startPending' = FALSE
  /\ UNCHANGED <<startTask, event, button, inProvisionMode, servicesStarted,
                 serviceVars, wifiVars, historyVars>>

\* Mutant of EndStart: the handle is left.
EndKeepsHandle(s) ==
  /\ StarterGoes(s, "forget", "none")
  /\ UNCHANGED <<startTask, event, button, flagVars, serviceVars, wifiVars,
                 historyVars>>

EndStart(s) ==
  /\ StarterGoes(s, "forget", "none")
  /\ startTask' = NoTask
  /\ UNCHANGED <<event, button, flagVars, serviceVars, wifiVars, historyVars>>

StarterStep(s) ==
  \/ CheckMode(s) \/ StartMdns(s) \/ StartMqtt(s) \/ StartServer(s)
  \/ ClearPending(s) \/ EndStart(s)

-----------------------------------------------------------------------------
(* wifi_runtime_event_handler.                                             *)

Take(e) == event = "idle" /\ events # <<>> /\ Head(events) = e
Handled == event' = "idle"
Drop == events' = Tail(events)

\* WIFI_EVENT_STA_START
HandleStart ==
  /\ Take("start") /\ Drop /\ Connect
  /\ UNCHANGED <<mode, credentials, flagVars, serviceVars, taskVars>>

\* WIFI_EVENT_STA_DISCONNECTED in provisioning mode: nothing.
IgnoreDisconnected ==
  /\ Take("disconnected") /\ inProvisionMode /\ Drop
  /\ UNCHANGED <<station, mode, credentials, flagVars, serviceVars, taskVars>>

\* WIFI_EVENT_STA_DISCONNECTED in station mode stops the services ...
HandleDisconnected ==
  /\ Take("disconnected") /\ ~inProvisionMode /\ Drop
  /\ StopServer
  /\ event' = "stopServer"
  /\ UNCHANGED <<station, mode, credentials, flagVars, running, web, startTask,
                 starter, button, historyVars>>

\* If the button task is about to delete the server, it deletes itself (StaServer).
EventStopServer ==
  /\ event = "stopServer"
  /\ ServerStopped
  /\ running' = running \ {"mdns"}
  /\ event' = "stopMqtt"
  /\ \/ UNCHANGED <<button, overlapped>>
     \/ button = "waitServer" /\ button' = "gone" /\ overlapped' = TRUE
  /\ UNCHANGED <<web, startTask, starter, flagVars, wifiVars, startFailed, failed>>

\* The button task has tested s_staServiceStartTask, which it deletes and clears.
AboutToDelete == button \in {"deleteTask", "clearTask"}

\* Mutant of ForgetServices: the start task goes on.
ForgetKeepsTask ==
  /\ event = "stopMqtt"
  /\ running' = running \ {"mqtt"}
  /\ servicesStarted' = FALSE
  /\ startPending' = FALSE
  /\ IF inProvisionMode THEN UNCHANGED station ELSE Connect
  /\ Handled
  /\ UNCHANGED <<startTask, starter, button, inProvisionMode, server, web,
                 events, mode, credentials, historyVars>>

\* Mutant of ForgetServices: a deleted start task stays pending.
ForgetKeepsPending ==
  /\ event = "stopMqtt"
  /\ running' = running \ {"mqtt"}
  /\ servicesStarted' = FALSE
  /\ DeleteStartTask
  /\ IF inProvisionMode THEN UNCHANGED station ELSE Connect
  /\ Handled
  /\ overlapped' = (overlapped \/ AboutToDelete)
  /\ UNCHANGED <<startPending, button, inProvisionMode, server, web, events,
                 mode, credentials, startFailed, failed>>

\* ... the MQTT client's wait for its task is the last; then it is forgotten that
\* they ran, the task that may be starting them is deleted, and the station
\* connects again, unless the mode has changed.
ForgetServices ==
  /\ event = "stopMqtt"
  /\ running' = running \ {"mqtt"}
  /\ servicesStarted' = FALSE
  /\ startPending' = FALSE
  /\ DeleteStartTask
  /\ IF inProvisionMode THEN UNCHANGED station ELSE Connect
  /\ Handled
  /\ overlapped' = (overlapped \/ AboutToDelete)
  /\ UNCHANGED <<button, inProvisionMode, server, web, events, mode,
                 credentials, startFailed, failed>>

\* Mutant of HandleGotIpInProvisionMode: the web server goes on.
GotIpKeepsWeb ==
  /\ Take("gotIp") /\ inProvisionMode /\ Drop
  /\ event' = "leaveProvision"
  /\ UNCHANGED <<station, mode, credentials, flagVars, web, running, server,
                 startTask, starter, button, historyVars>>

\* IP_EVENT_STA_GOT_IP in provisioning mode: its web server is stopped ...
HandleGotIpInProvisionMode ==
  /\ Take("gotIp") /\ inProvisionMode /\ Drop
  /\ web' = FALSE
  /\ event' = "leaveProvision"
  /\ UNCHANGED <<station, mode, credentials, flagVars, running, server,
                 startTask, starter, button, historyVars>>

\* ... and Wi-Fi is started anew as a station only, which costs the link.
LeaveProvisionMode ==
  /\ event = "leaveProvision"
  /\ inProvisionMode' = FALSE
  /\ mode' = "sta"
  /\ station' = "connecting"
  /\ events' = events \o (IF Busy(station) THEN <<"disconnected">> ELSE <<>>)
                      \o <<"start">>
  /\ event' = "gotIp"
  /\ UNCHANGED <<credentials, servicesStarted, startPending, serviceVars,
                 startTask, starter, button, historyVars>>

\* IP_EVENT_STA_GOT_IP, then, in either mode: the services are started, unless
\* they run or are being started.
StartServices ==
  /\ \/ Take("gotIp") /\ ~inProvisionMode /\ Drop
     \/ event = "gotIp" /\ UNCHANGED events
  /\ IF servicesStarted \/ startPending
     THEN UNCHANGED <<startPending, startTask, startFailed, starter>>
     ELSE \/ \E s \in StartTask :
               /\ starter[s] = "none"
               /\ starter' = [starter EXCEPT ![s] = "check"]
               /\ startTask' = s
               /\ startPending' = TRUE
               /\ startFailed' = FALSE
          \/ /\ startTask' = NoTask
             /\ startFailed' = TRUE
             /\ UNCHANGED <<startPending, starter>>
  /\ Handled
  /\ UNCHANGED <<button, inProvisionMode, servicesStarted, serviceVars,
                 station, mode, credentials, failed, overlapped>>

EventStep ==
  \/ HandleStart \/ IgnoreDisconnected
  \/ HandleDisconnected \/ EventStopServer \/ ForgetServices
  \/ HandleGotIpInProvisionMode \/ LeaveProvisionMode \/ StartServices

-----------------------------------------------------------------------------
(* wifi_runtime_start_provision_mode, in the button task.                  *)

ButtonGoes(from, to) == button = from /\ button' = to

\* With CalmSwitch, nobody presses while an address is about to be obtained.
LongPress ==
  /\ ButtonGoes("idle", "stopServer")
  /\ CalmSwitch => /\ station # "connecting"
                   /\ event \notin {"leaveProvision", "gotIp"}
                   /\ \A i \in DOMAIN events : events[i] # "gotIp"
  /\ inProvisionMode' = TRUE
  /\ UNCHANGED <<servicesStarted, startPending, serviceVars, wifiVars,
                 startTask, starter, event, historyVars>>

ButtonStopServer ==
  /\ ButtonGoes("stopServer", "waitServer")
  /\ StopServer
  /\ UNCHANGED <<running, web, flagVars, wifiVars, startTask, starter, event,
                 historyVars>>

\* Mutant of ButtonTestTask: it does not wait for the server.
ButtonTestsAtOnce ==
  /\ ButtonGoes("waitServer", IF startTask = NoTask THEN "stopServices"
                              ELSE "deleteTask")
  /\ UNCHANGED <<serviceVars, flagVars, wifiVars, startTask, starter, event,
                 historyVars>>

\* The wait for the server is over.  Is there a start task?
ButtonTestTask ==
  /\ ButtonGoes("waitServer", IF startTask = NoTask THEN "stopServices"
                              ELSE "deleteTask")
  /\ ServerStopped
  /\ UNCHANGED <<running, web, flagVars, wifiVars, startTask, starter, event,
                 historyVars>>

\* It is deleted.  If the handle is NULL by now, the button task deletes itself.
ButtonDeleteTask ==
  /\ ButtonGoes("deleteTask", IF startTask = NoTask THEN "gone" ELSE "clearTask")
  /\ DeleteTask
  /\ UNCHANGED <<startTask, serviceVars, flagVars, wifiVars, event, historyVars>>

ButtonClearTask ==
  /\ ButtonGoes("clearTask", "stopServices")
  /\ startTask' = NoTask
  /\ UNCHANGED <<serviceVars, flagVars, wifiVars, starter, event, historyVars>>

\* 300 ms later
ButtonStopServices ==
  /\ ButtonGoes("stopServices", "clearFlags")
  /\ running' = {}
  /\ UNCHANGED <<server, web, flagVars, wifiVars, startTask, starter, event,
                 historyVars>>

ClearFlags ==
  /\ ButtonGoes("clearFlags", "restartWifi")
  /\ servicesStarted' = FALSE
  /\ startPending' = FALSE
  /\ UNCHANGED <<inProvisionMode, serviceVars, wifiVars, startTask, starter,
                 event, historyVars>>

\* Wi-Fi is disconnected and started anew as access point and station, and
\* the station forgets its network.
RestartWifi ==
  /\ ButtonGoes("restartWifi", "startWeb")
  /\ Len(events) + 2 <= MaxEvents
  /\ mode' = "apsta"
  /\ credentials' = FALSE
  /\ station' = "idle"
  /\ events' = events \o (IF Busy(station) THEN <<"disconnected">> ELSE <<>>)
                      \o <<"start">>
  /\ UNCHANGED <<flagVars, serviceVars, startTask, starter, event,
                 historyVars>>

\* provisioning_web_start fails while the other server has port 80; after five
\* attempts, one second, the code gives up.
StartWeb ==
  /\ ButtonGoes("startWeb", "idle")
  /\ web' = (web \/ server \in {"down", "stale"})
  /\ UNCHANGED <<running, server, flagVars, wifiVars, startTask, starter,
                 event, historyVars>>

ButtonStep ==
  \/ ButtonStopServer \/ ButtonTestTask \/ ButtonDeleteTask \/ ButtonClearTask
  \/ ButtonStopServices
  \/ ClearFlags \/ RestartWifi \/ StartWeb

\* wifi_post_handler: a network is configured and connected to.  httpd_stop
\* waits for it, so it never runs after provisioning_web_stop.
SubmitForm ==
  /\ web
  /\ CalmSwitch => button = "idle"
  /\ mode' = "apsta"
  /\ credentials' = TRUE
  /\ Connect
  /\ UNCHANGED <<events, flagVars, serviceVars, taskVars>>

-----------------------------------------------------------------------------
\* Without its button task the device may come to wait for a reset.
Stuck == button = "gone" /\ UNCHANGED vars

\* The start task has a lower priority than the button task, which waits for
\* nothing between its test of the handle and its NULL.
Next ==
  \/ GetAddress \/ LoseLink \/ SubmitForm \/ ServerEnds
  \/ ~AboutToDelete /\ \E s \in StartTask : StarterStep(s)
  \/ EventStep
  \/ LongPress \/ ButtonStep \/ Stuck

Spec == Init /\ [][Next]_vars

\* Every task that can run is scheduled: those of higher priority block.  The
\* button task blocks soon after it has tested the handle.
FairSpec ==
  /\ Spec
  /\ WF_vars(ServerEnds) /\ WF_vars(EventStep) /\ WF_vars(ButtonStep)
  /\ \A s \in StartTask : WF_vars(StarterStep(s))

-----------------------------------------------------------------------------
\* With types: a start task that has a handle is pending, or is ending.
WifiTypeOK ==
  /\ inProvisionMode \in BOOLEAN /\ web \in BOOLEAN /\ credentials \in BOOLEAN
  /\ startFailed \in BOOLEAN /\ overlapped \in BOOLEAN
  /\ servicesStarted \in BOOLEAN /\ startPending \in BOOLEAN
  /\ startTask \in StartTask \cup {NoTask}
  /\ starter \in [StartTask -> {"none", "check", "mdns", "mqtt", "ws", "end", "forget"}]
  /\ event \in {"idle", "stopServer", "stopMqtt", "leaveProvision", "gotIp"}
  /\ button \in {"idle", "stopServer", "waitServer", "deleteTask", "clearTask",
                 "stopServices", "clearFlags", "restartWifi", "startWeb", "gone"}
  /\ running \subseteq {"mdns", "mqtt"} /\ failed \subseteq {"mqtt", "ws"}
  /\ server \in {"down", "up", "stopping", "stale"}
  /\ events \in Seq({"start", "disconnected", "gotIp"})
  /\ Len(events) <= MaxEvents + 2  \* LeaveProvisionMode posts two
  /\ startTask # NoTask =>
       startPending \/ starter[startTask] = "forget" \/ button = "clearTask"
  /\ station \in {"idle", "connecting", "connected"}
  /\ mode \in {"sta", "apsta"}

\* No handler is under way and none is due.
Settled ==
  /\ event = "idle" /\ events = <<>> /\ button = "idle"
  /\ \A s \in StartTask : starter[s] = "none"

\* However losses of the link, long presses and the start of the services
\* interleave, once all is handled every service runs if s_staServicesStarted
\* says so, or its own start failed, which nobody is told of and nobody repeats.
\* (If the flag says no, a server may have been left running: it is the one the
\* next start would start.)
FlagTellsServices ==
  Settled /\ servicesStarted =>
    /\ "mdns" \in running
    /\ "mqtt" \in running \cup failed
    /\ server = "up" \/ "ws" \in failed

\* "When it succeeds the device leaves provisioning by itself and goes back to
\* STA mode" (README.md:9): a settled station with an address is in station
\* mode only, and its provisioning web server is stopped.
ConnectedLeavesProvisioning ==
  Settled /\ station = "connected" => ~inProvisionMode /\ ~web /\ mode = "sta"

\* A settled device in provisioning mode serves the form that ends it, on
\* port 80 that station mode used before, and nothing else.
ProvisioningServed ==
  Settled /\ inProvisionMode => web /\ mode = "apsta" /\ server = "down"

\* The handle is that of the one start task there is, until the button task,
\* which has deleted it, goes on.  The button task finds its handle gone, and is
\* then deleted itself, only where the event task overlaps it.
StartTaskTracked ==
  /\ \A s \in StartTask : starter[s] # "none" => startTask = s
  /\ startTask # NoTask => starter[startTask] # "none" \/ button = "clearTask"
  /\ button = "deleteTask" => overlapped \/ startTask # NoTask
  /\ button = "gone" => overlapped

\* If a station keeps its address from some time on, and neither the creation of
\* the start task nor the start of a service fails for it, all its services run
\* in the end.
ServicesStart ==
  <>[](station = "connected" /\ button = "idle" /\ ~startFailed /\ failed = {}) =>
    <>[](servicesStarted /\ running = {"mdns", "mqtt"} /\ server = "up")
=============================================================================
