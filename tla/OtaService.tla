------------------------------ MODULE OtaService ------------------------------
(***************************************************************************)
(* ota_service.c of the ESP8266 firmware: ota_service_set_url,             *)
(* ota_service_start and the task that downloads the firmware into the     *)
(* slot that does not run, over OtaSlots.  The client tasks of             *)
(* sta_ws_server.c call it with no lock, for the websocket command         *)
(* ota_upgrade:<url> and for POST /ota/start; every access to what the     *)
(* tasks share is a step.  The device may lose power at any time.          *)
(*                                                                         *)
(* Abstracted: a copy of the URL is one step; progress, speed and error    *)
(* numbers; HTTP, as a download that may end or break anywhere; POST       *)
(* /ota/url, which always passes the empty text after the headers and so   *)
(* never sets a URL.                                                       *)
(***************************************************************************)
EXTENDS OtaSlots

CONSTANTS Client,      \* the tasks of the connected clients
          Updater,     \* identities of ota_task
          NoTask,      \* s_otaTask == NULL
          Url,         \* the URLs that ota_url_valid accepts
          Https,       \* those that begin with https://
          DefaultUrl,  \* APP_OTA_DEFAULT_URL
          Refused,     \* a text that set_url refuses
          NoUrl,       \* of a command that has none
          MaxRestarts, \* bound: restarts of the device
          MaxCommands  \* bound: commands of the clients

ASSUME OtaAssumption ==
  /\ NoTask \notin Updater
  /\ Https \subseteq Url /\ DefaultUrl \in Url
  /\ Refused # NoUrl
  /\ {Refused, NoUrl} \cap Url = {}
  /\ Source = Url
  /\ MaxRestarts \in Nat /\ MaxCommands \in Nat

VARIABLES
  otaUrl, otaState,
  otaTask,     \* s_otaTask
  client,      \* where each client task is
  command,     \* the URL of its command, or NoUrl
  updater,     \* where each ota_task is
  activeUrl,   \* its copy of the URL
  retries,     \* its httpsRetryCount
  wrote,       \* the chunks it has written
  next,        \* the sector of otadata and the number it is to write
  asked,       \* history: the URL of the command that created it
  overlapped,  \* history: calls of ota_service_start have overlapped
  urlOverlapped,  \* history: so has a set_url with another use of the URL
  restarts,    \* history: how many there were
  commands     \* history: how many there were

sharedVars == <<otaUrl, otaState, otaTask>>
clientVars == <<client, command>>
localVars == <<activeUrl, retries, wrote, next>>
countVars == <<restarts, commands>>
historyVars == <<asked, overlapped, urlOverlapped, countVars>>
vars == <<slotVars, sharedVars, clientVars, updater, localVars, historyVars>>

ClientStep == {"idle", "check", "create"}
UpdaterStep == {"none", "start", "attempt", "open", "begin", "read",
                "complete", "end", "setBoot", "eraseData", "writeData",
                "delay", "cleanup", "done"}
State == {"idle", "running", "success", "failed"}

\* The updater exists and has not cleared s_otaTask.
Live(u) == updater[u] # "none"

\* A local returns to its first value after its last use.
NoNext == [sector |-> 0, seq |-> NoSeq]

AllClients(v) == [c \in Client |-> v]
AllUpdaters(v) == [u \in Updater |-> v]

Init ==
  /\ SlotsInit(DefaultUrl)
  /\ otaUrl = DefaultUrl /\ otaState = "idle" /\ otaTask = NoTask
  /\ client = AllClients("idle") /\ command = AllClients(NoUrl)
  /\ updater = AllUpdaters("none") /\ activeUrl = AllUpdaters(DefaultUrl)
  /\ retries = AllUpdaters(0) /\ wrote = AllUpdaters(0)
  /\ next = AllUpdaters(NoNext)
  /\ asked = AllUpdaters(NoUrl)
  /\ overlapped = FALSE /\ urlOverlapped = FALSE
  /\ restarts = 0 /\ commands = 0

ClientGoto(c, step) == client' = [client EXCEPT ![c] = step]
Reply(c) == ClientGoto(c, "idle") /\ command' = [command EXCEPT ![c] = NoUrl]
Goto(u, step) == updater' = [updater EXCEPT ![u] = step]
Fail(u, step) == otaState' = "failed" /\ Goto(u, step)

-----------------------------------------------------------------------------
(* The client tasks.                                                       *)

\* A client task takes up a command.
Receive(c, url) ==
  /\ client[c] = "idle" /\ commands < MaxCommands
  /\ commands' = commands + 1
  /\ command' = [command EXCEPT ![c] = url]
  /\ ClientGoto(c, "check")

\* Mutant of Upgrade: the result of set_url is not looked at.
UpgradeAnyway(c, url) ==
  /\ Receive(c, url)
  /\ otaUrl' = IF url \in Url THEN url ELSE otaUrl
  /\ UNCHANGED <<slotVars, otaState, otaTask, updater, localVars, asked,
                 overlapped, urlOverlapped, restarts>>

\* The websocket command ota_upgrade:<url>: what set_url refuses goes no
\* further, a valid URL is stored, whether an update runs or not.
Upgrade(c, url) ==
  /\ url \in Url
  /\ Receive(c, url)
  /\ otaUrl' = url
  /\ urlOverlapped' = (urlOverlapped \/ (\E d \in Client : client[d] # "idle")
                        \/ (\E u \in Updater : updater[u] = "start"))
  /\ UNCHANGED <<slotVars, otaState, otaTask, updater, localVars, asked,
                 overlapped, restarts>>

\* POST /ota/start
StartRequest(c) ==
  /\ Receive(c, NoUrl)
  /\ UNCHANGED <<slotVars, sharedVars, updater, localVars, asked, overlapped,
                 urlOverlapped, restarts>>

\* Mutant of CheckTask: only a running download is in the way.
CheckState(c) ==
  /\ client[c] = "check"
  /\ ClientGoto(c, IF otaState = "running" THEN "idle" ELSE "create")
  /\ overlapped' = (overlapped \/ \E d \in Client : client[d] = "create")
  /\ UNCHANGED <<slotVars, sharedVars, command, updater, localVars, asked,
                 urlOverlapped, countVars>>

\* ota_service_start refuses while s_otaTask is set; s_otaUrl is always valid.
CheckTask(c) ==
  /\ client[c] = "check"
  /\ IF otaTask = NoTask THEN ClientGoto(c, "create") /\ UNCHANGED command
     ELSE Reply(c)
  /\ overlapped' = (overlapped \/ \E d \in Client : client[d] = "create")
  /\ UNCHANGED <<slotVars, sharedVars, updater, localVars, asked, urlOverlapped,
                 countVars>>

\* xTaskCreate stores the handle before the new task can run.  If it fails,
\* which is not looked at, there is no task and the handle is not touched.
CreateTask(c) ==
  /\ client[c] = "create"
  /\ Reply(c)
  /\ \/ \E u \in Updater :
          /\ ~Live(u)
          /\ otaTask' = u
          /\ Goto(u, "start")
          /\ asked' = [asked EXCEPT ![u] = command[c]]
     \/ UNCHANGED <<otaTask, updater, asked>>
  /\ UNCHANGED <<slotVars, otaUrl, otaState, localVars, overlapped,
                 urlOverlapped, countVars>>

ClientAction(c) ==
  \/ \E url \in Url \cup {Refused} : Upgrade(c, url)
  \/ StartRequest(c) \/ CheckTask(c) \/ CreateTask(c)

-----------------------------------------------------------------------------
(* ota_task.                                                               *)

\* The task copies the URL, which a set_url may have changed since its creation.
Run(u) ==
  /\ updater[u] = "start"
  /\ activeUrl' = [activeUrl EXCEPT ![u] = otaUrl]
  /\ otaState' = "running"
  /\ Goto(u, "attempt")
  /\ UNCHANGED <<slotVars, otaUrl, otaTask, clientVars, retries, wrote, next,
                 historyVars>>

\* retry_with_url: esp_http_client_init may find no memory, which ends the task.
Attempt(u) ==
  /\ updater[u] = "attempt"
  /\ \/ otaState' = "running" /\ Goto(u, "open")
     \/ Fail(u, "done")
  /\ UNCHANGED <<slotVars, otaUrl, otaTask, clientVars, localVars, historyVars>>

\* esp_http_client_open
Open(u) ==
  /\ updater[u] = "open"
  /\ \/ Goto(u, "begin") /\ UNCHANGED otaState
     \/ Fail(u, "cleanup")
  /\ UNCHANGED <<slotVars, otaUrl, otaTask, clientVars, localVars, historyVars>>

\* esp_ota_begin, which may have erased the slot when it fails.
Begin(u) ==
  /\ updater[u] = "begin"
  /\ \/ /\ EraseSlot(NextUpdateSlot)
        /\ wrote' = [wrote EXCEPT ![u] = 0]
        /\ \/ Goto(u, "read") /\ UNCHANGED otaState
           \/ Fail(u, "cleanup")
     \/ Fail(u, "cleanup") /\ UNCHANGED <<slotVars, wrote>>
  /\ UNCHANGED <<otaUrl, otaTask, clientVars, activeUrl, retries, next,
                 historyVars>>

\* A chunk is read and stored in the slot.
ReadWrite(u) ==
  /\ updater[u] = "read"
  /\ WriteChunk(NextUpdateSlot, wrote[u] + 1, activeUrl[u])
  /\ wrote' = [wrote EXCEPT ![u] = @ + 1]
  /\ UNCHANGED <<sharedVars, clientVars, updater, activeUrl, retries, next,
                 historyVars>>

\* The end of the data, or of the connection, which reads as an end too; or a
\* read or a write fails, as one beyond the end of the slot does.
ReadEnds(u) ==
  /\ updater[u] = "read"
  /\ \/ Goto(u, "complete") /\ UNCHANGED otaState
     \/ Fail(u, "complete")
  /\ UNCHANGED <<slotVars, otaUrl, otaTask, clientVars, localVars, historyVars>>

\* esp_http_client_is_complete_data_received compares with the length announced.
CheckComplete(u) ==
  /\ updater[u] = "complete"
  /\ \/ Goto(u, "end") /\ UNCHANGED otaState
     \/ otaState # "failed" /\ Fail(u, "end")
  /\ UNCHANGED <<slotVars, otaUrl, otaTask, clientVars, localVars, historyVars>>

\* esp_ota_end, unless something failed; it may also refuse a good image that
\* is linked for the other slot.
End(u) ==
  /\ updater[u] = "end"
  /\ \/ otaState = "failed" /\ Goto(u, "cleanup") /\ UNCHANGED otaState
     \/ /\ otaState # "failed" /\ wrote[u] > 0 /\ ImageLoads(NextUpdateSlot)
        /\ Goto(u, "setBoot") /\ UNCHANGED otaState
     \/ otaState # "failed" /\ Fail(u, "cleanup")
  /\ wrote' = [wrote EXCEPT ![u] = 0]
  /\ UNCHANGED <<slotVars, otaUrl, otaTask, clientVars, activeUrl, retries, next,
                 historyVars>>

\* esp_ota_set_boot_partition checks the image again and reads otadata ...
SetBoot(u) ==
  /\ updater[u] = "setBoot"
  /\ \/ /\ ImageLoads(NextUpdateSlot)
        /\ next' = [next EXCEPT ![u] = [sector |-> OlderSector,
                                        seq |-> SeqFor(NextUpdateSlot)]]
        /\ Goto(u, "eraseData") /\ UNCHANGED otaState
     \/ Fail(u, "cleanup") /\ UNCHANGED next
  /\ UNCHANGED <<slotVars, otaUrl, otaTask, clientVars, activeUrl, retries, wrote,
                 historyVars>>

\* ... erases the older sector (rewrite_ota_seq) ...
EraseData(u) ==
  /\ updater[u] = "eraseData"
  /\ EraseSector(next[u].sector)
  /\ Goto(u, "writeData")
  /\ UNCHANGED <<sharedVars, clientVars, localVars, historyVars>>

\* ... and writes it, which makes the update take effect.
WriteData(u) ==
  /\ updater[u] = "writeData"
  /\ WriteSector(next[u].sector, next[u].seq)
  /\ otaState' = "success"
  /\ Goto(u, "delay")
  /\ next' = [next EXCEPT ![u] = NoNext]
  /\ UNCHANGED <<otaUrl, otaTask, clientVars, activeUrl, retries, wrote,
                 historyVars>>

\* A failure to erase or to write otadata.
DataFails(u) ==
  /\ updater[u] \in {"eraseData", "writeData"}
  /\ Fail(u, "cleanup")
  /\ next' = [next EXCEPT ![u] = NoNext]
  /\ UNCHANGED <<slotVars, otaUrl, otaTask, clientVars, activeUrl, retries, wrote,
                 historyVars>>

\* Mutant of MayRetry: the retries are not counted.
MayRetryAgain(u) == activeUrl[u] \in Https /\ otaState = "failed"

\* A URL of https:// is tried three times.
MayRetry(u) ==
  activeUrl[u] \in Https /\ otaState = "failed" /\ retries[u] < 2

\* cleanup_and_retry
Cleanup(u) ==
  /\ updater[u] = "cleanup"
  /\ IF MayRetry(u)
     THEN /\ retries' = [retries EXCEPT ![u] = IF @ < 2 THEN @ + 1 ELSE @]
          /\ Goto(u, "attempt")
     ELSE Goto(u, "done") /\ UNCHANGED retries
  /\ UNCHANGED <<slotVars, sharedVars, clientVars, activeUrl, wrote, next,
                 historyVars>>

\* done: the handle is cleared and the task deletes itself.
Done(u) ==
  /\ updater[u] = "done"
  /\ otaTask' = NoTask
  /\ Goto(u, "none")
  /\ activeUrl' = [activeUrl EXCEPT ![u] = DefaultUrl]
  /\ retries' = [retries EXCEPT ![u] = 0]
  /\ asked' = [asked EXCEPT ![u] = NoUrl]
  /\ UNCHANGED <<slotVars, otaUrl, otaState, clientVars, wrote, next, overlapped,
                 urlOverlapped, countVars>>

UpdaterAction(u) ==
  \/ Run(u) \/ Attempt(u) \/ Open(u) \/ Begin(u)
  \/ ReadWrite(u) \/ ReadEnds(u) \/ CheckComplete(u) \/ End(u) \/ SetBoot(u)
  \/ EraseData(u) \/ WriteData(u) \/ DataFails(u) \/ Cleanup(u) \/ Done(u)

-----------------------------------------------------------------------------
\* The device starts anew: esp_restart, a second after a success, or a loss of
\* power at any time.  The URL of the memory is the default again.
Restart ==
  /\ restarts < MaxRestarts
  /\ restarts' = restarts + 1
  /\ Boot
  /\ otaUrl' = DefaultUrl /\ otaState' = "idle" /\ otaTask' = NoTask
  /\ client' = AllClients("idle") /\ command' = AllClients(NoUrl)
  /\ updater' = AllUpdaters("none") /\ activeUrl' = AllUpdaters(DefaultUrl)
  /\ retries' = AllUpdaters(0) /\ wrote' = AllUpdaters(0)
  /\ next' = AllUpdaters(NoNext)
  /\ asked' = AllUpdaters(NoUrl)
  /\ UNCHANGED <<overlapped, urlOverlapped, commands>>

Next ==
  \/ \E c \in Client : ClientAction(c)
  \/ \E u \in Updater : UpdaterAction(u)
  \/ Restart

\* A task that can run does so, as the ones of higher priority block.
Fairness ==
  /\ \A c \in Client : WF_vars(CheckTask(c) \/ CreateTask(c))
  /\ \A u \in Updater : WF_vars(UpdaterAction(u))

Spec == Init /\ [][Next]_vars /\ Fairness

-----------------------------------------------------------------------------
OtaTypeOK ==
  /\ slots \in [Slot -> [Chunk -> Source \cup {Erased, Garbled}]]
  /\ otadata \in [Slot -> Nat] /\ running \in Slot
  /\ otaUrl \in Source /\ otaState \in State
  /\ otaTask \in Updater \cup {NoTask}
  /\ client \in [Client -> ClientStep]
  /\ command \in [Client -> Url \cup {NoUrl}]
  /\ updater \in [Updater -> UpdaterStep]
  /\ activeUrl \in [Updater -> Source]
  /\ retries \in [Updater -> 0..2]
  /\ wrote \in [Updater -> 0..SlotLen]
  /\ next \in [Updater -> [sector : Slot, seq : Nat]]
  /\ asked \in [Updater -> Url \cup {NoUrl}]
  /\ overlapped \in BOOLEAN /\ urlOverlapped \in BOOLEAN
  /\ restarts \in 0..MaxRestarts /\ commands \in 0..MaxCommands

\* The check of s_otaTask and its creation are two steps of ota_service_start,
\* its end another task's: unless two calls overlapped, there is never more
\* than one task that writes the slot, and s_otaTask is its handle.
OneUpdater ==
  ~overlapped => \A u \in Updater : Live(u) => otaTask = u

\* At every moment, power may be lost: the slot the boot loader would start
\* holds a whole image, whatever downloads were broken, retried or refused before,
\* and until an update succeeds it is the slot that runs.
BootSlotWhole ==
  ~overlapped => /\ Whole(BootSlot)
                 /\ otaState # "success" => BootSlot = running

\* Even of two updates at once, which write the same slot and may spoil it after
\* it was checked, neither touches the slot that runs: the device never loses
\* the firmware it can fall back to.
RunningWhole == Whole(running)

\* The state on the status page tells what goes on: an update is running while
\* "running" is shown, and "success" is shown only when the new slot is what the
\* device will start; an update that ended without it shows "failed".
StatusTellsOutcome ==
  ~overlapped =>
    /\ otaState = "running" => otaTask # NoTask
    /\ otaState = "success" =>
         BootSlot # running /\ \E u \in Updater : updater[u] = "delay"

\* The URL is set by one call and used by the task that another creates: unless
\* another client's set_url came in between, an update that a client asked for
\* downloads from the URL that it gave, to the last retry.
UpdatesFromAskedUrl ==
  ~urlOverlapped =>
    \A u \in Updater : updater[u] \notin {"none", "start"} =>
      asked[u] \in {activeUrl[u], NoUrl}

\* Every update ends, by a success that restarts the device or with s_otaTask
\* cleared for the next one: retries and downloads are bounded.
UpdateEnds ==
  otaTask # NoTask ~> (otaTask = NoTask \/ otaState = "success")
=============================================================================
