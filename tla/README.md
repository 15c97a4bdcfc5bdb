# OpenDoor: models, checks and proofs

OpenDoor is a door opener in several programs: an ESP8266 firmware (servo, web
page, cloud, boot button), an STM32 application (card reader, radio remote
control, keys, servo), the boot loader of the STM32 board, a PC program that
downloads firmware through it, and a WeChat mini program. This directory holds
TLA+ models of the parts whose correctness depends on orderings, failures and
timeouts, the TLC runs that check them, and TLAPS proofs.

    tlc -workers 2 -config DoorControl_calls.cfg MCDoorControl.tla
    tlapm DoorControlProofs.tla

PROJECT.json lists every run with its module and configuration, the source lines
that each definition models, the hazards the properties are for, and a mutant
for each property: a plausible bug that the property catches.

## 1. Inventory

### ESP8266 firmware (`src/OpenDoor20260427/app/main`)

| Part | State | Operations | Hard behaviour |
|---|---|---|---|
| `door_control.c` | `s_isOpen`, `s_autoCloseTimer`, counters | open, close, auto-close callback | called without a lock by the button, MQTT, timer service and websocket client tasks |
| `servo_control.c` | PWM duty | set angle | last command wins |
| FreeRTOS `timers.c` | command queue, active list | stop, change period, start, expiry | commands are asynchronous, dropped when the queue is full |
| `onenet_mqtt.c` | `s_connected`, `s_lastDoorStatus`, `s_client` | report, property set and get, connection events, start, stop | check of the connection against its events; status reported while it breaks |
| esp-mqtt | outbox, connection state | publish, acknowledge, resend, expire, abort, reconnect | lost and repeated messages, order after a reconnection |
| `wifi_runtime.c` | mode and service flags, start task handle | event handler, long press, form submission, service start | four tasks, one of which deletes another in the middle of its work |
| `provisioning_web.c`, `mdns_service.c` | servers | start, stop | two servers for port 80 |
| `sta_ws_server.c` | server task, listening socket, a task per connection | start, stop, accept, session | a stop that waits and then deletes, called by two tasks without a lock; sessions that outlive the server |
| `boot_button.c` | press start, long reported | poll every 50 ms | two thresholds on one counter |
| `ota_service.c` | URL, state, task handle | set URL, start, download | two clients that start at once, retries, loss of power |
| `esp_ota_ops.c` | two slots, `otadata` | erase, write, check, select | the slot to start from, at every moment |
| `time_sync.c`, `onenet_token.c`, `app_settings.c`, `sta_ws_page.c` | - | computation and constants | - |

A command reaches the door from four sides (page, cloud, button, timer); each
change is reported to the cloud by the same call, in the task that made it. The
Wi-Fi events start and stop everything else.

### STM32 application (`src/App_C8T6_20241106/MODULE`)

| Part | State | Operations | Hard behaviour |
|---|---|---|---|
| `stmflash.c` | flash pages | read, write with erase and merge | power loss between erase and programming; page boundaries |
| `systask.c` `handle_task`, `key.c` | `CurrentState`, `WriteFlag`, card table in flash | poll of keys, radio and cards; enrol, open, close | enrolment interrupted by power loss or watchdog; states that close no door |
| `uart.c` | receive buffer | mode change and reset in the interrupt; status texts and frames sent on the same line | flash write in the interrupt, shared buffer; what it sends reaches the downloader |
| display, watchdog, `dht11.c`, `rc522.c` | - | I/O | the watchdog is fed by the task of lowest priority |

### Firmware update

| Part | State | Operations | Hard behaviour |
|---|---|---|---|
| Boot loader `uart.c`, `main.c` | receive buffer, `FunCode`, flash | collect bytes, check hash, write frame, answer; start the application | alignment of the buffer; 500 ms in the interrupt handler; resets at any time |
| PC `Form1.cs` | progress, sent flag, timeouts, answer buffer | send, resend, time out, receive | three threads without a lock; answers without a number, from whatever runs on the board |

The mini program (`index.js`) is a BLE central that connects and sends one
command. Older snapshots of the application and vendored libraries are left
aside.

### What makes each part correct

- Door: no open door without a timer that will close it; servo, flag and cloud
  agree; an open door closes.
- Status: the latest status reaches the cloud; it goes back only by a resend.
- Wi-Fi: the flags tell what runs; a device is in one mode and serves what that
  mode needs; handles are those of live tasks; services start in the end.
- Update over the air: whenever power is lost, the slot that starts is whole;
  one updater at a time; the status page tells what happened.
- Web server: one server task, named by its handle; a stop deletes that and no
  other task and frees the port; every descriptor has one holder; a session does
  at most one thing more after a stop.
- Button: a press is reported once at most, as what it was.
- Flash: a write stores its data and harms nothing else, even if interrupted.
- Lock: a card opens the door only if it was enrolled, and never while
  enrolling; an interrupted enrolment costs at most the tail of what it was
  writing.
- Update: "complete" means stored; no mixed image is started; a download ends.
  The protocol ensures the first two only as long as no answer is taken for
  another (section 4).

## 2. Plan

Order of work, most important first. Done: 1 to 11.

1. `DoorControl` with `DoorControlProofs`.
2. `StmFlash`: the steps of a flash write.
3. `CardLock` (abstract) and `LockTask` over `StmFlash`, which implements it.
4. `SerialLink`, `Downloader`, `Bootloader`, composed in `FirmwareUpdate`.
5. `WifiRuntime`.
6. `StatusReport`.
7. `OtaSlots`, `OtaService` with `OtaServiceProofs`.
8. `StaServer` with `StaServerProofs`.
9. `BootButton` with `BootButtonProofs`.
10. Proofs about the earlier modules: `StatusReportProofs`, `WifiRuntimeProofs`,
    `LockTaskProofs`.
11. `FirmwareUpdateProofs`; the refinement of `CardLock` in `LockTaskProofs`.
12. The life cycle of the MQTT client against a report.
13. The connection flow of the mini program.

Modules meant for proofs contain no RECURSIVE operator; constants have named
assumptions; each operation is an action of its own.

## 3. Modules

### DoorControl

State: `isOpen`, `lastDoorStatus`, `servo`, `autoCloseTimer` are the variables
of the code; `active` and `timerQueue` are those of the timer service; `pc`,
`op` and `doorStatus` are where a task is and its arguments. Each access to a
shared variable is one step, because no lock is held across them, so
`door_control_open` is SetOpen, NotifyState, ReportDoorStatus, Publish,
SetAngle, CheckTimer, CreateTimer and the three timer commands. The timer
service takes commands or lets a timer expire; the duration is abstracted, so
expiry may race anything. `armDropped` (the latest arming command met a full
queue) and `overlapped` (the latest call began during another) are history
variables.

Bounds: the runs use the button and the MQTT task (with two websocket clients,
as a symmetric set, in `door_shown`) and queues of one and three commands
instead of
10. Two callers and the timer service suffice for a race between an open, a
    close and an auto-close; a queue of one lets any of the three commands of an
    open find it full. The safety properties are proved for queues of every
    length; with `QueueLen = 2` the run takes some minutes and passes as well. A
    dropped command is possible in the firmware too: commands are posted with no
    block time (41-43), by tasks of priority 4 and 5 to a timer service of
    priority 2. `armDropped` is the exception that AutoCloseArmed and AutoCloses
    make for it.

Fairness: the processor does not idle while a caller in a door call or the timer
service can run; which of them runs is left open, so this holds for any
priorities. Requests are not fair: they may stop.

### StmFlash

`mem` is the flash in half-words, `job` the locals of `STMFLASH_Write`,
`program` the half-words yet to program, `call` (history) the arguments and the
memory before. A page erase and one half-word are atomic; FlashReset may come
between any two steps. The lock task calls it, with writes of a card or of the
whole table; the boot loader has the same code, of which Bootloader takes the
effect on a frame. `lock` has two pages of eight half-words and a table in the
second: a write has neighbours in its page and out of it, before and behind.

### CardLock, LockTask

CardLock is what a card lock promises: a table of cards in order of enrolment,
cut off at worst if an enrolment is interrupted. LockTask is `handle_task` and
`ScanKey` over StmFlash, in two steps per poll; OpenDoor (which sleeps 3 s in
the task) is one step. The refinement maps `table` to the used slots in the
flash, taken from before the call while a write is in progress, and `armed` to
`WriteFlag` or a write in progress. Four cards whose halves coincide fill a
table of three and force it to shift. `opener` is the card the door was last
opened to, without which an abstract lock that accepted any enrolled card would
match a lock that opens to the wrong one.

Fairness: weak fairness of the poll and of the branch; `handle_task` waits for
nothing but delays and the release of a key.

### SerialLink, Downloader, Bootloader, FirmwareUpdate

`toDevice` holds messages: a function number and, for a frame, its number and
file; `toPc` holds single bytes. An answer 0x55 of the boot loader carries, for
the properties only, the frame that it is for.

Downloader: `dl` is where `SendThread` is, in the order of `SendFileFrame`:
function 1, read a frame, send it, clear the answer (296, after the frame is
sent), wait, function 3. The timer thread fires at any point after its start
(265-268), while SendData blocks too, since TimeDelayer is set back at 297 only;
what it does to `SentFlag` and to `Overtime` are two steps (`timer`). A receive
handler stores the first byte there is, whatever it is, and discards the rest;
the handler of a discarded byte finds nothing (`spare`) and stores an empty
array, on which the next access to element 0 throws and ends the program
(Crash).

Bootloader: `buffCounter` counts the bytes in the receive buffer, of which
`Size` make a message; Verdicts says what `DownloadFile` makes of a full buffer,
by where the message begins in it. Any message may lose bytes or be damaged, any
answer may be lost, without a bound. `loop` is main between its check of
`FunCode` (25, 39) and its jump (32, 40), between which the interrupt may store
a frame. A board in its application drops the messages and sends bytes of its
own (AppSends: `uart.c:117-141`, `systask.c:152-206`), 0x55 and 0xaa among them.

History variables say what the properties have to except: `falseAck`, the
downloads in which the byte that ended the wait for a frame was not the answer
to that frame of that file; `interrupted`, a reset found or left a mixed image;
`raced`, a frame was stored between check and jump. None of them excuses
anything else: CompleteMeansStored speaks of every download whose answers were
for its frames, late, repeated and lost ones included.

Bounds: `update` has two frames (first and last), two files, so that downloads
do not mix, a message and an answer in transit, one timeout (5 in the code) and
a reset or power loss; 3.2 million states. `update_end` has one file and two
messages and two bytes in transit, which an empty array needs; 0.66 million
states. Messages of five bytes with one of padding (function 1 and 3: two) and a
hash of two keep the alignment cases of 1054 and 158 bytes: a message may start
in the padding, its hash may run over, its header may. The safety properties are
proved without bounds.

Fairness: the threads of the PC and the interrupt of the board run; the timer
counts while `SendThread` waits for an answer, as nothing but the end of a
SendData sets it back. A start of the application and resets are not fair.

Left out: a user who starts the next download before function 3 of the last one
is out (the button is enabled just before); closing the program, except for the
restart after a crash.

### WifiRuntime

The event task, the button task, the start task and the httpd task as control
states (`event`, `button`, `starter`, SubmitForm) over the flags of the code,
the servers and the driver's station. The event task has the highest priority,
so its steps run from one blocking call to the next; the button task can be
preempted by it anywhere, so each of its accesses to shared state is a step: in
particular its test of `s_staServiceStartTask`, the deletion and the NULL
(156-158), between which the event task may do the same (217-219).
`vTaskDelete(NULL)` deletes the caller (`gone`); the second deletion of a task
does nothing here.

The start task goes from call to call. The starts may fail and do not tell:
`onenet_mqtt_start` returns void (StartMqtt), `sta_ws_server_start` reports
success whatever becomes of its task, which may have no memory, no socket
(`server = "stale"`: `s_serverTask` still names it) or no port (TryServer). 55
sets `s_staServicesStarted` all the same, and nobody tries again until the link
is lost; `failed` is the history variable of what failed, `startFailed` of the
creation of the start task. FlagTellsServices excepts a service by its own
failure only. mDNS starts or aborts the program.

`CalmSwitch` says that no address is obtained while a long press switches modes;
without it the finding `wifi_switch` appears. `overlapped` says that the event
task worked on the start task or the server while the button task was about to
delete it. That the button task may delete itself in the stop of the server too
is EventStopServer; StaServer has the steps. Two start tasks and six waiting
events (32 in the firmware) let a new start follow a deleted one. Deadlock is
checked; a device without its button task may come to rest (`Stuck`).

Fairness: every task that can run is scheduled, as the ones of higher priority
block. The driver and the user owe nothing.

### StatusReport

Reporters run `onenet_mqtt_report_door_status` in three steps (store, check,
publish); the MQTT task connects, reads acknowledgements, sends again, lets
messages expire. Its handler publishes the last status on connection and for a
property get (read and publication are two steps, between which a reporter may
store a newer status), and the status that a property set leads to. A status
carries its version number. The API lock is held by the client in its handler
(`Unlocked` is false). Budgets bound reports, breaks, resends and gets, so the
system stops when they are spent and deadlock is not checked.

Bounds: two versions and one break give a reconnection with an old message in
the outbox and a new status under way, a resend on top of it, a get in between;
the theorems are for any number of each.

### OtaSlots, OtaService

`slots` and `otadata` are the flash, `running` the slot the firmware runs from;
the erase and the write of an `otadata` sector are two steps. `otaUrl`,
`otaState` and `otaTask` are the variables of the code; `client` and `updater`
say where the client tasks and the OTA tasks are. A call of `ota_service_start`
is two steps, CheckTask and CreateTask, since no lock is held between;
`ota_task` is one action per call that may fail. Restart is `esp_restart` or a
loss of power, at any step. `overlapped` (two calls of `ota_service_start`
overlapped), `urlOverlapped` and `asked` are history variables.

Bounds: images and slots of two chunks, so that an image can be torn; two
clients; a URL of each kind, as only `https://` is retried; three commands, so
that an update follows an update while a third is refused; one restart.
`ota_update` has one updater, which is all there is as long as no calls overlap
(`OneUpdater`, proved for any number); `ota_overlap` has two and no retries. The
proofs need none of these bounds.

Fairness: a task that can run does so, and a download ends or breaks (its
timeout is 30 s, line 61). Commands and restarts are not fair.

### StaServer

A server task per start, a client task per connection, the start, and two tasks
that stop: the event and the button task. `stopper` is where each is in
`sta_ws_server_stop`, one step per statement that reads or writes shared state:
shutdown, the end of the wait with the test of `s_serverTask`, `vTaskDelete`,
the NULL, the test of `s_listenSock`, `close`, the -1. The event task may
overtake the button task between any two of them, and both give way to the
others where they block: in the wait, in shutdown and in close (`Ready` says
where they do not). In the same way the server task closes and forgets its
socket in two steps.

A server that has not ended in a second is deleted where it is, which the model
lets happen at any step of it; `vTaskDelete(NULL)` deletes the caller
(`deleted`); deleting a task that is dead already (its socket() failed,
`noSocket`, or another stop has deleted it) is undefined in FreeRTOS and taken
to have no effect. `sockets` is the table of lwIP; `serverFd`, `clientSock` and
`stopFd` say who holds or closes what. `stopped`, `leaked`, `late` are history
variables, and so is `overlapped`: two stops, or a stop and a start, met after
the wait of a stop. DeletesOnlyServer, SocketsOwned and StopFreesPort except
some of it, as there the code does delete twice, close twice, and lose sockets;
HandleTracksServer and OneLateCommand do not. What such an overlap does to the
button task is in section 4.

Bounds: two servers (one that is deleted and its successor), a client and three
sockets, which the listening socket, a connection and a leak use up; 1.5 million
states under symmetry. The proofs are for any numbers.

Only safety is stated, so no fairness: nobody has to connect or to send, and
`accept` may hang after the shutdown of its socket, as lwIP promises nothing.

### BootButton

A poll is one step (PollDown, PollUp), the time until the next is another: one
poll interval, up to `MaxLate` more if other tasks keep it from running, up to
`MaxBlock` more after a callback. `pressStartTick` and `longReported` are the
locals of the task; `pressed`, `held` and `reports` are history variables. Ticks
wrap around at `Ticks`; the device may have been up for any time. As a press is
measured between polls, the properties allow for the longest time between two
polls (`MaxPoll`), and for another if the press begins at tick 0, which also
stands for "not pressed".

Bounds: the proportions of the firmware (polls of 5 ticks, 8 and 300) with 30
for 300 and 64 for 2^32; a poll is 2 ticks late at most, a callback takes 7;
`held` saturates at `MaxHeld`, beyond which no poll depends on it. Deadlock is
checked.

## 4. Runs

| Run | Shows |
|---|---|
| `door_calls` | `AutoCloseArmed`: no interleaving loses the timer of an open door; `SerialAgreement`: a call that runs alone leaves servo, flag and cloud status equal; `AutoCloses`: an open door closes by itself |
| `lock` | `ImplementsCardLock`: LockTask implements CardLock, interruptions included; `FreeSlotsLast`; `WriteStoresData`, and `OtherCellsKept` under interruption; `DoorCloses` |
| `update` | `CompleteMeansStored`: what is acknowledged frame by frame is in the flash, over two downloads with losses, damage, late answers and a reset; `StartedWhole`: a mixed image is not started |
| `update_end` | `EndsUnlessRejected`: a download ends, unless rejections keep coming |
| `wifi` | `FlagTellsServices`, `ConnectedLeavesProvisioning`, `ProvisioningServed`, `StartTaskTracked`; `ServicesStart`: a station that keeps its address gets its services |
| `report` | `LatestDelivered`; `LatestNeverGoesBack`: the latest status, when published, never takes the cloud back |
| `ota_update` | `BootSlotWhole`: the slot the boot loader would start is whole at every moment; `StatusTellsOutcome`; `UpdatesFromAskedUrl`; `UpdateEnds` |
| `ota_overlap` | `OneUpdater`: without an overlap of two starts there is one updater; `RunningWhole`: even two never touch the running slot |
| `sta_server` | `HandleTracksServer`, `DeletesOnlyServer`, `SocketsOwned`, `StopFreesPort` while two tasks stop and one starts; `OneLateCommand`: a session does one more thing after a stop |
| `button` | `ReportedOnce`, `ReportTellsHeld`, `ShortWhenReleased` |

Runs that find a violation, each a disagreement between the code and what its
own text says (details in PROJECT.json, "findings"):

| Run | Finding |
|---|---|
| `door_shown` | unlocked open and close leave the bolt open behind a page that says closed |
| `wifi_switch` | an address obtained during a switch leaves a device in both modes |

Remarks, met while modelling, for which there is no run:

- A long press stops the server in the button task. If the event task, on a loss
  of the link, runs its own stop between the test of `s_serverTask`
  (`sta_ws_server.c:463`) and the deletion (465), the button task finds NULL and
  deletes itself: `s_inProvisionMode` is set, the form is never served, and the
  button is dead until a reset. The same can happen in `wifi_runtime.c:156-157`.
  DeletesOnlyServer and StartTaskTracked say that nothing else leads there; TLC
  finds the state `deleted` of StaServer.
- A board that runs its application ignores a download and sends frames with
  bytes 0x55 every three seconds (`src/App_C8T6_20241106/MODULE/uart.c:121`,
  `systask.c:200`). The downloader takes any first byte 0x55 for an
  acknowledgement (`Form1.cs:308`) and can show a complete download of which
  nothing is stored.
- An answer carries no frame number: one that comes after the 800 ms of the
  timer (`Form1.cs:265`), or one to a copy that was sent again, is taken for the
  answer to the next frame, which may be damaged. The same holds for 0xaa (a
  damaged function 1 is answered so, `uart.c:217`, though nobody waits): it
  makes the downloader send a frame twice, and the extra answer acknowledges
  another frame. CompleteMeansStored and StartedWhole except these downloads by
  `falseAck`; without the exception TLC violates both.
- `StartedWhole` without `raced` is violated: a frame that arrives between the
  check of main and its jump is stored, and the application starts from a mixed
  image.
- `[]<>Ended`, without the exception of `EndsUnlessRejected`, fails: a rejected
  copy counts as no timeout (`Form1.cs:302`), so a link that damages every copy,
  a buffer shifted by a lost byte, or 0xaa from an application keep a download
  going for ever.
- A receive handler that finds its bytes read by another one stores an empty
  array, and the access to its element 0 (`Form1.cs:296`, `302`, `308`) ends the
  program.
- A write across pages would go wrong: after the first page `WriteAddr` advances
  by half of what it should (`stmflash.c:73`). No caller writes across pages.
- `POST /ota/url` answers `{"ok":true}` and sets nothing: the request is read up
  to the empty line, so that the body passed to `ota_service_set_url` is always
  empty (`sta_ws_server.c:298-309`, `353-361`).
- `ota_task` does not call `esp_ota_end` after a failure: each failed attempt
  leaves an entry in the list of handles.
- A connection has no receive timeout: a peer that vanishes keeps a task and a
  socket for ever.

## 5. Proofs

`DoorControlProofs` proves, for every set of clients and every queue length:

- `TypeCorrect`: `Spec => []TypeOK`. By itself TypeOK is not inductive: a
  command is well-formed only if the timer exists, and the timer service's `pc`
  must never reach the arming steps. `Control` adds where each task can be;
  `TypeInv` is both (lemma `TypeInvariant`).
- `AutoClose`: `Spec => []AutoCloseArmed`. The property speaks of the moments
  when no call is in progress. `ArmInv` extends it to all others: an open door
  has an armed timer, or a task is on its way to arm one (`Arming`), or to clear
  `s_isOpen` (`Closing`). The heart is that a start in the queue outlives all
  but a later stop (`ArmedKept`, `StartArms`), and that whoever posts a stop is
  itself arming or closing (`DoorStepArm`).
- `Serial`: `Spec => []SerialAgreement`. `SerialInv` says what a call that runs
  alone has established when it is at each of its steps (`Established`), and
  that without overlap at most one call is in progress.

The assumptions are `TaskAssumption` (the tasks are distinct) and
`QueueAssumption` (the queue has room for a command).

`OtaServiceProofs`, for any clients, updaters, URLs, image and slot sizes and
any number of commands and restarts:

- `TypeCorrect`, and `RunningKept` (`RunningWhole`), which needs only that every
  write goes to `NextUpdateSlot`.
- `OneUpdaterOnly`: `CreatorInv` adds that without overlap at most one client is
  between the check and the creation, and only if there is no updater.
- `AskedUrlUsed`: `UrlInv` follows the URL through `otaUrl`, from the command of
  a client to the copy of the task.
- `BootSlotSafe`: `BootInv` says what is true at each step of an update; the
  heart is `ChooseSector` and `WriteNewest`: erasing the older sector does not
  change `BootSlot`, and the number written makes the new slot the one that
  starts.
- `StatusTrue`: `ShownInv` ties `otaState` to where the updater is, with
  `BootInv`.

`StaServerProofs`, for any numbers of server tasks, sessions and sockets, with a
stop in steps of one statement each in both tasks:

- `TypeCorrect`.
- `HandleTracked` and `ServerDeleted` from `HandleInv`: a start that is about to
  create a server finds none, a stop that has deleted one finds none before it
  goes on, and without overlap one stop at a time is past its wait.
  HandleTracksServer needs no exception.
- `SocketsHeld` from `SocketInv`, which says where a server, a session and a
  stop hold a descriptor, that no two hold the same, and that a stop closes what
  it forgets. It holds until two stops overlap; lemma `SocketInvariant` is
  `[](SocketInv \/ overlapped)`.
- `PortFreed` from both.
- `FewLateCommands` from `LateInv`: a session that has gone on since the stop
  has yet to look at `s_serverRun`.

`BootButtonProofs`, for every width of the tick count and all lengths of polls,
presses and callbacks, late polls included, with `LongTicks + MaxPoll` and
`MaxPoll + MaxBlock` below `Ticks`: the properties follow from `TimedInv`, which
says that until a press is reported as long, `tick - pressStartTick` is its
length but for the time between two polls; `ElapsedAdds` is the lemma on the
wrap.

`StatusReportProofs`, for any reporters and any number of reports, breaks,
resends and gets (`ReportInv`):

- `TypeCorrect`: nothing that is kept or under way is newer than
  `lastDoorStatus`, and the identifiers in the outbox ascend (`OutboxInv`), so
  that an acknowledgement removes the message it is for (lemma `Removal`).
- `NoStatusMissed`: `DeliveryInv` says at every moment of an established
  connection where the latest status is: with the cloud, under way, or with a
  reporter or the handler that will publish it.
- `NeverBack`: `OrderInv` says that a message which was the latest when it was
  published is not older than those ahead of it, nor than what the cloud shows.

`WifiRuntimeProofs`, for any number of start tasks and of waiting events, under
`CalmSwitch` (without it `wifi_switch` violates `ConnectedLeavesProvisioning`):
`TypeCorrect`, `HandleTracked`, `FlagTrue`, `LeavesProvisioning`, `FormServed`,
with every failure of a start, and the deletion of the start task by two tasks
in its steps. The last three speak of a settled device; `WifiInv` says
what holds while an event, a long press or a start is under way: `SwitchInv`
where the button task is in its writes, `ModeInv` which mode the driver is in,
`HandoverInv` what an event that waits will still bring about, `ServicesInv`
what a start or a stop has done so far, and what has `failed`; StartTaskTracked
is part of it. `QueueInv` bounds the queue: every event has an action that
posted it.

`LockTaskProofs`, for any cards, any table within a page, any geometry of the
flash, and resets at any step:

- `FlashInv` says what a write within one page has done at each step: all cells
  are as they should be in the end, but for those from the next one to be
  programmed up to the last, which are erased (`Remaining`). It gives
  `FlashTypeCorrect`, `EnrolmentStored` and `OthersKept`. It needs `InPage`,
  which every enrolment satisfies (`AddBegins`, `ShiftBegins`), as
  `TableAssumption` says; across pages the driver is wrong (section 4).
- `SlotsInOrder`: the used slots come first at every step (`AlwaysOrdered`), as
  an enrolment writes either the two halves of the first free slot in their
  order, or a full table from its beginning.
- `Refinement`: `Spec => ImplementsCardLock`, that is, LockTask implements
  CardLock under the mapping of `CurrentState` to the abstract mode and of the
  flash to the list of cards in it (`Entries`). `EnrolInv` says what an
  enrolment in progress has begun to write: the card behind the last one, or the
  table without its oldest card and with the new one at its end (`NewTable`). An
  action of the program then maps to: ScanEnrol to Arm, OpenOnRequest to
  OpenByHand, CheckCard with a known card to Accept, NoCardRead to Close, the
  end of the write to Enrol, a reset to Restart, but in the middle of the
  programming to InterruptedEnrol: `CutTable` shows that the cells written so
  far are the first cards of the new table, perhaps followed by the first half
  of one. All other steps leave the abstract lock as it is.

`FirmwareUpdateProofs`, for any sizes of messages, padding, hash and losses, any
number of frames, files, resets, and messages and bytes in transit, under no
assumption but those on the constants in SerialLink, Downloader and Bootloader:

- `TypeCorrect`: `Wrap` is the lemma on the arithmetic of `buffCounter`, which
  never reaches the size of the buffer.
- `CompleteStored`, from two invariants. `QueueInv`: messages arrive in the
  order of the downloads. `AckInv`: an acknowledgement on its way, of a frame of
  the current download, tells that this frame is stored and that no message of
  an earlier download is left which could overwrite it; and so are the frames
  that SendThread has behind it, unless an answer misled it (`falseAck`).
- `StartsWhole`, from these, `LastInv` (when function 3 arrives, all frames of
  its download are stored) and `ImageInv` (main jumps to, and the application
  runs from, a whole image, unless a reset, a false acknowledgement or a frame
  in the jump came in between).

TLC evaluates all assumptions. `OtaTypeOK` and `ButtonTypeOK` are proved and are
not checked by a run of their own.

Every invariant that a passing run checks is proved, and so is the refinement.
Only model-checked, as out of the prover's reach: all liveness (`AutoCloses`,
`DoorCloses`, `EndsUnlessRejected`, `ServicesStart`, `UpdateEnds`), as it rests
on fairness and so on ENABLED.

## 6. Not modelled

The mini program: planned (section 2). The page of the transfer mode, which the
serial interrupt writes: for the card table, in another page, that interrupt is
the Reset of LockTask, as it never returns. Websocket framing: what it decodes
is a command or nothing. The status texts, counters, page, token and time: no
state that anything else depends on. Display and sensor tasks: they only read.
Use of a freed MQTT client: its outcome is undefined; the hazard is listed. A
`NULL` from `xTimerCreate` that overwrites the handle of a concurrent creation
is left out of CreateFails.
