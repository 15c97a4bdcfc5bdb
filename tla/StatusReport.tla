---------------------------- MODULE StatusReport ----------------------------
(***************************************************************************)
(* How the door status reaches the cloud: onenet_mqtt_report_door_status   *)
(* and the event handler of onenet_mqtt.c, over the esp-mqtt client, whose *)
(* connection may break at any time and whose outbox keeps every message   *)
(* of QoS 1 until the broker acknowledges it.                              *)
(*                                                                         *)
(* The n-th status that is stored has the version n, so that two reports   *)
(* of the same status can be told apart.                                   *)
(*                                                                         *)
(* The cloud asks for the status or sets it: the handler, in the client's  *)
(* task and under its API lock, then publishes as a reporter does.         *)
(*                                                                         *)
(* Abstracted: the subscriptions; the replies, but that the connection may *)
(* break on them; s_client, which is set all the time (WifiRuntime has its *)
(* start and stop); a write to the socket sends the whole message or finds *)
(* the connection broken.                                                  *)
(***************************************************************************)
EXTENDS Naturals, SequencesExt

CONSTANTS Reporter,    \* the tasks that report: of a client, the button, the timer
          MaxReports,  \* bound: statuses that are stored
          MaxBreaks,   \* bound: connections that break
          MaxResends,  \* bound: messages sent again
  MaxGets      \* bound: times the cloud asks for the status

ASSUME ReportAssumption ==
  MaxReports \in Nat /\ MaxBreaks \in Nat /\ MaxResends \in Nat
  /\ MaxGets \in Nat

VARIABLES
  lastDoorStatus,  \* the version in s_lastDoorStatus
  connected,       \* s_connected
  pc,              \* where each reporter is
  status,          \* the version each reporter reports
  client,          \* the client: "down", "up", or in its handler: it is
                   \* "connected", has been "asked", or is "publishing"
  taken,           \* the version the handler publishes
  outbox,          \* [id, version, sent] of the messages not acknowledged
  toBroker,        \* [id, version, kind] of the messages in transit; the kind
                   \* is a history: with the latest status, with one that a
                   \* newer report had overtaken by then, or sent again
  toClient,        \* the ids of the acknowledgements in transit
  cloud,           \* the version the cloud shows
  received,        \* history: the versions the cloud received
  nextId,          \* the id of the next message
  breaks, resends, gets  \* history: how many there were

reportVars == <<lastDoorStatus, pc, status>>
connectionVars == <<connected, client, toClient, breaks>>
handlerVars == <<taken, gets>>
cloudVars == <<cloud, received>>
vars == <<reportVars, connectionVars, handlerVars, outbox, toBroker, cloudVars,
          nextId, resends>>

Init ==
  /\ lastDoorStatus = 0
  /\ connected = FALSE
  /\ pc = [r \in Reporter |-> "idle"]
  /\ status = [r \in Reporter |-> 0]
  /\ client = "down" /\ taken = 0
  /\ outbox = <<>> /\ toBroker = <<>> /\ toClient = <<>>
  /\ cloud = 0
  /\ received = {}
  /\ nextId = 1
  /\ breaks = 0 /\ resends = 0 /\ gets = 0

-----------------------------------------------------------------------------
(* The client.                                                             *)

\* No handler is at work: the API lock is free between the client's steps.
Unlocked == client \in {"down", "up"}

\* Mutant of Abort: the event that clears s_connected is not dispatched.
AbortSilently ==
  /\ breaks < MaxBreaks
  /\ breaks' = breaks + 1
  /\ client' = "down"
  /\ UNCHANGED connected
  /\ toBroker' = <<>>
  /\ toClient' = <<>>

\* esp_mqtt_abort_connection: what is in transit is lost, and the event
\* MQTT_EVENT_DISCONNECTED clears s_connected.
Abort ==
  /\ breaks < MaxBreaks
  /\ breaks' = breaks + 1
  /\ client' = "down"
  /\ connected' = FALSE
  /\ toBroker' = <<>>
  /\ toClient' = <<>>

\* esp_mqtt_client_publish: the message is kept, and sent if the client is
\* connected; if the write fails it stays to be sent.
Publish(v, state) ==
  LET keep(sent) == outbox' = Append(outbox, [id |-> nextId, version |-> v,
                                              sent |-> sent])
  IN /\ nextId' = nextId + 1
     /\ \/ /\ client = "down"
           /\ keep(FALSE)
           /\ UNCHANGED <<connectionVars, toBroker>>
        \/ /\ client # "down"
           /\ keep(TRUE)
           /\ toBroker' = Append(toBroker,
                [id |-> nextId, version |-> v,
                 kind |-> IF v = lastDoorStatus THEN "latest" ELSE "overtaken"])
           /\ client' = state
           /\ UNCHANGED <<connected, toClient, breaks>>
        \/ /\ client # "down"
           /\ keep(FALSE)
           /\ Abort

\* esp_mqtt_task gets a connection and dispatches MQTT_EVENT_CONNECTED, holding
\* the API lock until the handler is through.
Connect ==
  /\ client = "down"
  /\ client' = "connected"
  /\ connected' = TRUE
  /\ UNCHANGED <<reportVars, handlerVars, toClient, breaks, outbox, toBroker,
                 cloudVars, nextId, resends>>

\* onenet_handle_property_get: the reply is published first ...
ReceiveGet ==
  /\ client = "up" /\ gets < MaxGets
  /\ gets' = gets + 1
  /\ client' = "asked"
  /\ UNCHANGED <<reportVars, connected, taken, toClient, breaks, outbox,
                 toBroker, cloudVars, nextId, resends>>

\* ... and if it finds the connection broken, the status is not published.
ReplyFails ==
  /\ client = "asked"
  /\ Abort
  /\ UNCHANGED <<reportVars, handlerVars, outbox, cloudVars, nextId, resends>>

\* Connected or asked, the handler reads s_lastDoorStatus ...
TakeLast ==
  /\ client \in {"connected", "asked"}
  /\ taken' = lastDoorStatus
  /\ client' = "publishing"
  /\ UNCHANGED <<reportVars, connected, gets, toClient, breaks, outbox,
                 toBroker, cloudVars, nextId, resends>>

\* onenet_handle_property_set: the door obeys, and its report, in this task,
\* stores the new status and goes on to publish it, as s_connected is set.
ReceiveSet ==
  /\ client = "up" /\ lastDoorStatus < MaxReports
  /\ lastDoorStatus' = lastDoorStatus + 1
  /\ taken' = lastDoorStatus'
  /\ client' = "publishing"
  /\ UNCHANGED <<pc, status, connected, gets, toClient, breaks, outbox,
                 toBroker, cloudVars, nextId, resends>>

\* Mutant of PublishLast: it leaves to the outbox what is in the outbox.
PublishLastIfEmpty ==
  /\ client = "publishing"
  /\ IF outbox = <<>> THEN Publish(taken, "up")
     ELSE /\ client' = "up"
          /\ UNCHANGED <<connected, toClient, breaks, outbox, toBroker, nextId>>
  /\ UNCHANGED <<reportVars, handlerVars, cloudVars, resends>>

\* ... and publishes it, which reporters may have overtaken.
PublishLast ==
  /\ client = "publishing"
  /\ Publish(taken, "up")
  /\ UNCHANGED <<reportVars, handlerVars, cloudVars, resends>>

\* A read or a ping fails.
Break ==
  /\ client = "up"
  /\ Abort
  /\ UNCHANGED <<reportVars, handlerVars, outbox, cloudVars, nextId, resends>>

\* outbox_delete: the message is deleted, if it is still kept.
OutboxDelete(id) ==
  \/ \E i \in DOMAIN outbox :
       outbox[i].id = id /\ outbox' = RemoveAt(outbox, i)
  \/ (\A i \in DOMAIN outbox : outbox[i].id # id) /\ UNCHANGED outbox

\* MQTT_MSG_TYPE_PUBACK
ReceiveAck ==
  /\ client = "up" /\ toClient # <<>>
  /\ OutboxDelete(Head(toClient))
  /\ toClient' = Tail(toClient)
  /\ UNCHANGED <<reportVars, connected, client, breaks, handlerVars, toBroker,
                 cloudVars, nextId, resends>>

\* Messages of more than 30 s are deleted.
Expire ==
  /\ Unlocked
  /\ \E i \in DOMAIN outbox : outbox' = RemoveAt(outbox, i)
  /\ UNCHANGED <<reportVars, connectionVars, handlerVars, toBroker, cloudVars,
                 nextId, resends>>

\* mqtt_resend_queued: the oldest message that was not sent is, or if all were,
\* the oldest is sent again, when its acknowledgement takes more than 1 s.
FirstUnsent(i) ==
  ~outbox[i].sent /\ \A k \in 1..(i - 1) : outbox[k].sent
Resend ==
  /\ client = "up" /\ resends < MaxResends
  /\ resends' = resends + 1
  /\ \E i \in DOMAIN outbox :
       /\ FirstUnsent(i) \/ (i = 1 /\ \A k \in DOMAIN outbox : outbox[k].sent)
       /\ \/ /\ outbox' = [outbox EXCEPT ![i].sent = TRUE]
             /\ toBroker' = Append(toBroker,
                  [id |-> outbox[i].id, version |-> outbox[i].version,
                   kind |-> "again"])
             /\ UNCHANGED connectionVars
          \/ Abort /\ UNCHANGED outbox
  /\ UNCHANGED <<reportVars, handlerVars, cloudVars, nextId>>

ClientStep ==
  \/ Connect \/ Break \/ ReceiveAck \/ Expire \/ Resend
  \/ ReceiveGet \/ ReplyFails \/ TakeLast \/ ReceiveSet \/ PublishLast

-----------------------------------------------------------------------------
(* onenet_mqtt_report_door_status.                                         *)

\* Mutant of StoreStatus: a status is remembered only if it cannot be published.
StoreIfOffline(r) ==
  /\ pc[r] = "idle"
  /\ status[r] < MaxReports /\ lastDoorStatus <= status[r]
  /\ status' = [status EXCEPT ![r] = status[r] + 1]
  /\ lastDoorStatus' = IF connected THEN lastDoorStatus ELSE status'[r]
  /\ pc' = [pc EXCEPT ![r] = "check"]
  /\ UNCHANGED <<connectionVars, handlerVars, outbox, toBroker, cloudVars, nextId,
                 resends>>

\* A new status is remembered ...
StoreStatus(r) ==
  /\ pc[r] = "idle"
  /\ lastDoorStatus < MaxReports
  /\ lastDoorStatus' = lastDoorStatus + 1
  /\ status' = [status EXCEPT ![r] = lastDoorStatus']
  /\ pc' = [pc EXCEPT ![r] = "check"]
  /\ UNCHANGED <<connectionVars, handlerVars, outbox, toBroker, cloudVars, nextId,
                 resends>>

\* ... and published if s_connected is set.
CheckConnected(r) ==
  /\ pc[r] = "check"
  /\ pc' = [pc EXCEPT ![r] = IF connected THEN "publish" ELSE "idle"]
  /\ UNCHANGED <<lastDoorStatus, status, connectionVars, handlerVars, outbox,
                 toBroker, cloudVars, nextId, resends>>

\* It waits for the API lock, which the client holds in its handler.
PublishStatus(r) ==
  /\ pc[r] = "publish"
  /\ Unlocked
  /\ Publish(status[r], client)
  /\ pc' = [pc EXCEPT ![r] = "idle"]
  /\ UNCHANGED <<lastDoorStatus, status, handlerVars, cloudVars, resends>>

ReporterStep(r) == StoreStatus(r) \/ CheckConnected(r) \/ PublishStatus(r)

-----------------------------------------------------------------------------
\* The broker shows what it receives, a message that is sent again as well.
BrokerReceives ==
  /\ toBroker # <<>>
  /\ cloud' = Head(toBroker).version
  /\ received' = received \cup {cloud'}
  /\ toBroker' = Tail(toBroker)
  /\ toClient' = Append(toClient, Head(toBroker).id)
  /\ UNCHANGED <<reportVars, connected, client, breaks, handlerVars, outbox,
                 nextId, resends>>

Next == ClientStep \/ (\E r \in Reporter : ReporterStep(r)) \/ BrokerReceives

Spec == Init /\ [][Next]_vars

-----------------------------------------------------------------------------
ReportTypeOK ==
  /\ lastDoorStatus \in 0..MaxReports
  /\ connected \in BOOLEAN
  /\ pc \in [Reporter -> {"idle", "check", "publish"}]
  /\ status \in [Reporter -> 0..MaxReports]
  /\ client \in {"down", "up", "connected", "asked", "publishing"}
  /\ taken \in 0..MaxReports
  /\ connected <=> client # "down"
  /\ \A i, k \in DOMAIN outbox : i < k => outbox[i].id < outbox[k].id
  /\ cloud \in 0..MaxReports

\* A status stored while the connection comes up, breaks or is down is not
\* missed between the reporter, which publishes only if s_connected is set, and
\* the handler, which publishes the status it has read on connecting: when no
\* report is under way on an established connection and all that was sent has
\* arrived, the cloud has received the latest status. Nor is a status that is
\* stored between the read and the publication of the handler.
LatestDelivered ==
  (\A r \in Reporter : pc[r] = "idle") /\ client = "up" /\ toBroker = <<>>
    => lastDoorStatus \in received

\* A message that carries the latest status when it is published never takes the
\* cloud back to an older one, on a reconnection as little as otherwise: only a
\* message that is sent again does, or one of a task (the handler's too) that a
\* newer report of another task has overtaken before its publication.
LatestNeverGoesBack ==
  [][cloud' < cloud => Head(toBroker).kind # "latest"]_vars
=============================================================================
