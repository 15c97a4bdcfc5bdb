-------------------------- MODULE OtaServiceProofs --------------------------
(***************************************************************************)
(* Proofs about OtaService for any number of clients, updaters and URLs,   *)
(* any size of the images and slots, and any number of restarts.           *)
(***************************************************************************)
EXTENDS OtaService, TLAPS

USE ImageAssumption, OtaAssumption

-----------------------------------------------------------------------------
(* Types.                                                                  *)

SlotsType ==
  /\ slots \in [Slot -> [Chunk -> Source \cup {Erased, Garbled}]]
  /\ otadata \in [Slot -> Nat]
  /\ running \in Slot

\* The slot to start and the slot to update are slots.
LEMMA SlotNumbers ==
  ASSUME SlotsType
  PROVE  /\ BootSlot \in Slot
         /\ NextUpdateSlot \in Slot /\ NextUpdateSlot # running
         /\ OlderSector \in Slot
         /\ SeqFor(NextUpdateSlot) \in Nat
<1>1. otadata[0] \in Nat /\ otadata[1] \in Nat
  BY DEF SlotsType, Slot
<1>2. BootSlot \in Slot
  BY <1>1 DEF BootSlot, Slot, NoSeq
<1>3. NextUpdateSlot \in Slot /\ NextUpdateSlot # running
  BY DEF SlotsType, NextUpdateSlot, Slot
<1>4. OlderSector \in Slot
  BY DEF OlderSector, Slot
<1>5. SeqFor(NextUpdateSlot) \in Nat
  BY <1>1, <1>3 DEF SeqFor, Newest, Slot, NoSeq
<1>6. QED
  BY <1>2, <1>3, <1>4, <1>5

\* What the operations on the flash do to it.
LEMMA SlotOperations ==
  ASSUME SlotsType
  PROVE  /\ EraseSlot(NextUpdateSlot) => SlotsType'
         /\ \A k \in Int, d \in Source :
              WriteChunk(NextUpdateSlot, k, d) => SlotsType'
         /\ \A i \in Slot : EraseSector(i) => SlotsType'
         /\ \A i \in Slot, seq \in Nat : WriteSector(i, seq) => SlotsType'
         /\ Boot => SlotsType'
<1>1. EraseSlot(NextUpdateSlot) => SlotsType'
  BY SlotNumbers DEF EraseSlot, SlotsType
<1>2. ASSUME NEW k \in Int, NEW d \in Source, WriteChunk(NextUpdateSlot, k, d)
      PROVE  SlotsType'
  BY <1>2, SlotNumbers DEF WriteChunk, SlotsType
<1>3. ASSUME NEW i \in Slot, EraseSector(i)
      PROVE  SlotsType'
  BY <1>3 DEF EraseSector, SlotsType, NoSeq
<1>4. ASSUME NEW i \in Slot, NEW seq \in Nat, WriteSector(i, seq)
      PROVE  SlotsType'
  BY <1>4 DEF WriteSector, SlotsType
<1>5. Boot => SlotsType'
  BY SlotNumbers DEF Boot, SlotsType, Slot
<1>6. QED
  BY <1>1, <1>2, <1>3, <1>4, <1>5

LEMMA InitType == Init => OtaTypeOK
<1> SUFFICES ASSUME Init PROVE OtaTypeOK
  OBVIOUS
<1>1. PICK h \in History :
        /\ otadata = [i \in Slot |-> h[i + 1]]
        /\ running = h[3]
        /\ slots = [s \in Slot |-> [k \in Chunk |->
                     IF k <= ImageLen /\ (s = running \/ h[1] # NoSeq)
                     THEN DefaultUrl ELSE Erased]]
  BY DEF Init, SlotsInit
<1>2. otadata \in [Slot -> Nat] /\ running \in Slot
  BY <1>1 DEF History, Slot, NoSeq
<1>3. slots \in [Slot -> [Chunk -> Source \cup {Erased, Garbled}]]
  BY <1>1
<1>4. QED
  <2>1. NoNext \in [sector : Slot, seq : Nat]
    BY DEF NoNext, NoSeq, Slot
  <2>2. /\ client \in [Client -> ClientStep]
        /\ command \in [Client -> Url \cup {NoUrl}]
    BY DEF Init, AllClients, ClientStep
  <2>3. /\ updater \in [Updater -> UpdaterStep]
        /\ activeUrl \in [Updater -> Source]
        /\ asked \in [Updater -> Url \cup {NoUrl}]
    BY DEF Init, AllUpdaters, UpdaterStep
  <2>4. /\ retries \in [Updater -> 0..2]
        /\ wrote \in [Updater -> 0..SlotLen]
        /\ next \in [Updater -> [sector : Slot, seq : Nat]]
    BY <2>1 DEF Init, AllUpdaters
  <2>5. /\ otaUrl \in Source /\ otaState \in State
        /\ otaTask \in Updater \cup {NoTask}
        /\ restarts \in 0..MaxRestarts /\ commands \in 0..MaxCommands
    BY DEF Init, State
  <2>6. overlapped \in BOOLEAN /\ urlOverlapped \in BOOLEAN
    BY Zenon DEF Init
  <2>7. QED
    BY <1>2, <1>3, <2>2, <2>3, <2>4, <2>5, <2>6, Zenon DEF OtaTypeOK

LEMMA ClientType ==
  ASSUME OtaTypeOK, NEW c \in Client, ClientAction(c)
  PROVE  OtaTypeOK'
<1> USE DEF OtaTypeOK, ClientGoto, Reply, Goto, ClientStep, UpdaterStep,
            slotVars, sharedVars, clientVars, localVars, historyVars, countVars
<1>1. ASSUME NEW url \in Url \cup {Refused}, Upgrade(c, url)
      PROVE  OtaTypeOK'
  BY <1>1 DEF Upgrade, Receive
<1>2. CASE StartRequest(c)
  BY <1>2 DEF StartRequest, Receive
<1>3. CASE CheckTask(c)
  BY <1>3 DEF CheckTask
<1>4. CASE CreateTask(c)
  BY <1>4 DEF CreateTask
<1>5. QED
  BY <1>1, <1>2, <1>3, <1>4 DEF ClientAction

\* A local of an updater keeps its type.
LEMMA UpdateType ==
  ASSUME NEW S, NEW f \in [Updater -> S], NEW u \in Updater, NEW v \in S
  PROVE  [f EXCEPT ![u] = v] \in [Updater -> S]
  OBVIOUS

LEMMA UpdaterType ==
  ASSUME OtaTypeOK, NEW u \in Updater, UpdaterAction(u)
  PROVE  OtaTypeOK'
<1> USE DEF OtaTypeOK, Goto, Fail, State, UpdaterStep, slotVars, sharedVars,
            clientVars, localVars, historyVars, countVars
<1>0. SlotsType
  BY DEF SlotsType
<1>1. CASE Run(u)
  BY <1>1 DEF Run
<1>2. CASE Attempt(u)
  BY <1>2 DEF Attempt
<1>3. CASE Open(u)
  BY <1>3 DEF Open
<1>4. CASE Begin(u)
  <2>1. SlotsType'
    BY <1>0, <1>4, SlotOperations DEF Begin, SlotsType
  <2>2. updater' \in [Updater -> UpdaterStep] /\ otaState' \in State
    <3>1. CASE Goto(u, "read") /\ UNCHANGED otaState
      BY <3>1
    <3>2. CASE Goto(u, "cleanup") /\ otaState' = "failed"
      BY <3>2
    <3>3. \/ Goto(u, "read") /\ UNCHANGED otaState
          \/ Goto(u, "cleanup") /\ otaState' = "failed"
      BY <1>4, Zenon DEF Begin
    <3>4. QED
      BY <3>1, <3>2, <3>3
  <2>3. wrote' \in [Updater -> 0..SlotLen]
    <3>1. wrote' = wrote \/ wrote' = [wrote EXCEPT ![u] = 0]
      BY <1>4, Zenon DEF Begin
    <3>2. wrote \in [Updater -> 0..SlotLen] /\ 0 \in 0..SlotLen
      OBVIOUS
    <3>3. QED
      BY <3>1, <3>2, Zenon
  <2>4. QED
    BY <1>4, <2>1, <2>2, <2>3 DEF Begin, SlotsType
<1>5. CASE ReadWrite(u)
  <2>1. SlotsType'
    BY <1>0, <1>5, SlotOperations DEF ReadWrite
  <2>2. wrote[u] + 1 \in Chunk
    BY <1>5 DEF ReadWrite, WriteChunk
  <2>3. wrote' \in [Updater -> 0..SlotLen]
    BY <1>5, <2>2 DEF ReadWrite, Chunk
  <2>4. QED
    BY <1>5, <2>1, <2>3 DEF ReadWrite, SlotsType
<1>6. CASE ReadEnds(u)
  BY <1>6 DEF ReadEnds
<1>7. CASE CheckComplete(u)
  BY <1>7 DEF CheckComplete
<1>8. CASE End(u)
  <2>1. updater' \in [Updater -> UpdaterStep] /\ otaState' \in State
    BY <1>8, Zenon DEF End
  <2>2. wrote' \in [Updater -> 0..SlotLen]
    BY <1>8 DEF End
  <2>3. QED
    BY <1>8, <2>1, <2>2 DEF End
<1>9. CASE SetBoot(u)
  <2>1. updater' \in [Updater -> UpdaterStep] /\ otaState' \in State
    BY <1>9, Zenon DEF SetBoot
  <2>2. [sector |-> OlderSector, seq |-> SeqFor(NextUpdateSlot)]
          \in [sector : Slot, seq : Nat]
    BY <1>0, SlotNumbers
  <2>3. next' \in [Updater -> [sector : Slot, seq : Nat]]
    <3> DEFINE new == [sector |-> OlderSector, seq |-> SeqFor(NextUpdateSlot)]
    <3>1. next' = [next EXCEPT ![u] = new] \/ next' = next
      BY <1>9, Zenon DEF SetBoot
    <3>2. new \in [sector : Slot, seq : Nat]
      BY <2>2
    <3>3. [next EXCEPT ![u] = new] \in [Updater -> [sector : Slot, seq : Nat]]
      BY <3>2, UpdateType, Zenon
    <3> HIDE DEF new
    <3>4. QED
      BY <3>1, <3>3, Zenon
  <2>4. QED
    BY <1>9, <2>1, <2>3 DEF SetBoot
<1>10. CASE EraseData(u)
  <2>1. SlotsType'
    BY <1>0, <1>10, SlotOperations DEF EraseData
  <2>2. QED
    BY <1>10, <2>1 DEF EraseData, SlotsType
<1>11. CASE WriteData(u)
  <2>1. SlotsType'
    BY <1>0, <1>11, SlotOperations DEF WriteData
  <2>2. NoNext \in [sector : Slot, seq : Nat]
    BY DEF NoNext, NoSeq, Slot
  <2>3. QED
    BY <1>11, <2>1, <2>2, SMTT(30) DEF WriteData, SlotsType
<1>12. CASE DataFails(u)
  <2>1. NoNext \in [sector : Slot, seq : Nat]
    BY DEF NoNext, NoSeq, Slot
  <2>2. QED
    <3>1. /\ Goto(u, "cleanup") /\ otaState' = "failed"
          /\ next' = [next EXCEPT ![u] = NoNext]
          /\ UNCHANGED <<slotVars, otaUrl, otaTask, clientVars, activeUrl,
                         retries, wrote, historyVars>>
      BY <1>12, Zenon DEF DataFails
    <3>2. next' \in [Updater -> [sector : Slot, seq : Nat]]
      BY <2>1, <3>1, UpdateType, Zenon
    <3>3. updater' \in [Updater -> UpdaterStep] /\ otaState' \in State
      BY <3>1
    <3>4. UNCHANGED <<slots, otadata, running, otaUrl, otaTask, client, command,
                      activeUrl, retries, wrote, asked, overlapped,
                      urlOverlapped, restarts, commands>>
      BY <3>1
    <3> HIDE DEF Goto, Fail, State, UpdaterStep
    <3>5. QED
      BY <3>2, <3>3, <3>4
<1>13. CASE Cleanup(u)
  <2>1. updater' \in [Updater -> UpdaterStep]
    BY <1>13, ZenonT(40) DEF Cleanup
  <2>2. retries' \in [Updater -> 0..2]
    <3> DEFINE more == IF retries[u] < 2 THEN retries[u] + 1 ELSE retries[u]
    <3>1. retries' = [retries EXCEPT ![u] = more] \/ retries' = retries
      BY <1>13, Zenon DEF Cleanup
    <3>2. retries \in [Updater -> 0..2]
      OBVIOUS
    <3>3. more \in 0..2
      BY <3>2
    <3> HIDE DEF more
    <3>4. [retries EXCEPT ![u] = more] \in [Updater -> 0..2]
      BY <3>2, <3>3, UpdateType, Zenon
    <3>5. QED
      BY <3>1, <3>2, <3>4, Zenon
  <2>3. QED
    BY <1>13, <2>1, <2>2 DEF Cleanup
<1>14. CASE Done(u)
  BY <1>14 DEF Done
<1>15. QED
  BY <1>1, <1>2, <1>3, <1>4, <1>5, <1>6, <1>7, <1>8, <1>9, <1>10, <1>11, <1>12,
     <1>13, <1>14 DEF UpdaterAction

LEMMA RestartType ==
  ASSUME OtaTypeOK, Restart
  PROVE  OtaTypeOK'
<1>1. SlotsType'
  BY SlotOperations DEF Restart, SlotsType, OtaTypeOK
<1>2. QED
  BY <1>1 DEF Restart, SlotsType, OtaTypeOK, AllClients, AllUpdaters, State,
     ClientStep, UpdaterStep, NoNext, NoSeq, Slot

\* OtaTypeOK for all constants: no update writes past the end of the slot.
THEOREM TypeCorrect == Spec => []OtaTypeOK
<1>1. OtaTypeOK /\ [Next]_vars => OtaTypeOK'
  <2>1. OtaTypeOK /\ UNCHANGED vars => OtaTypeOK'
    BY DEF OtaTypeOK, vars, slotVars, sharedVars, clientVars, localVars,
       historyVars, countVars
  <2>2. QED
    BY <2>1, ClientType, UpdaterType, RestartType DEF Next
<1>2. QED
  BY <1>1, InitType, PTL DEF Spec

-----------------------------------------------------------------------------
(* The slot that runs.                                                     *)

\* Init has an image in the running slot.
LEMMA InitWhole == Init => RunningWhole
<1> SUFFICES ASSUME Init PROVE RunningWhole
  OBVIOUS
<1>1. PICK h \in History :
        /\ otadata = [i \in Slot |-> h[i + 1]]
        /\ running = h[3]
        /\ slots = [s \in Slot |-> [k \in Chunk |->
                     IF k <= ImageLen /\ (s = running \/ h[1] # NoSeq)
                     THEN DefaultUrl ELSE Erased]]
  BY DEF Init, SlotsInit
<1>2. running \in Slot
  BY <1>1 DEF History, Slot, NoSeq
<1>3. ASSUME NEW k \in 1..ImageLen
      PROVE  slots[running][k] = DefaultUrl
  BY <1>1, <1>2 DEF Chunk
<1>4. DefaultUrl \in Source
  OBVIOUS
<1>5. QED
  BY <1>3, <1>4 DEF RunningWhole, Whole

\* A step that erases or writes the other slot keeps the one that runs, and a
\* restart runs one that is whole.
LEMMA OtherSlotOnly ==
  ASSUME SlotsType, RunningWhole
  PROVE  /\ EraseSlot(NextUpdateSlot) => RunningWhole'
         /\ \A k \in Int, d \in Source :
              WriteChunk(NextUpdateSlot, k, d) => RunningWhole'
         /\ Boot => RunningWhole'
         /\ UNCHANGED <<slots, running>> => RunningWhole'
<1>1. ASSUME running' = running, slots'[running] = slots[running]
      PROVE  RunningWhole'
  BY <1>1 DEF RunningWhole, Whole
<1>2. running \in Slot /\ NextUpdateSlot \in Slot /\ NextUpdateSlot # running
  BY SlotNumbers DEF SlotsType
<1>3. ASSUME EraseSlot(NextUpdateSlot) PROVE RunningWhole'
  <2>1. running' = running /\ slots'[running] = slots[running]
    BY <1>2, <1>3 DEF EraseSlot, SlotsType
  <2>2. QED
    BY <1>1, <2>1
<1>4. ASSUME NEW k \in Int, NEW d \in Source, WriteChunk(NextUpdateSlot, k, d)
      PROVE  RunningWhole'
  <2>1. running' = running /\ slots'[running] = slots[running]
    BY <1>2, <1>4 DEF WriteChunk, SlotsType
  <2>2. QED
    BY <1>1, <2>1
<1>5. ASSUME Boot PROVE RunningWhole'
  <2>1. BootSlot \in Slot
    BY SlotNumbers
  <2>2. running = BootSlot \/ running = 1 - BootSlot
    BY <1>2, <2>1 DEF Slot
  <2>3. Whole(BootSlot) \/ Whole(1 - BootSlot)
    BY <2>2 DEF RunningWhole
  <2>4. Whole(running')
    BY <1>5, <2>3 DEF Boot
  <2>5. slots' = slots
    BY <1>5 DEF Boot
  <2>6. QED
    BY <2>4, <2>5 DEF RunningWhole, Whole
<1>6. UNCHANGED <<slots, running>> => RunningWhole'
  BY <1>1
<1>7. QED
  BY <1>3, <1>4, <1>5, <1>6

\* RunningWhole for all constants: whatever updates run at once and wherever
\* they break off, the device keeps the firmware that it runs.
THEOREM RunningKept == Spec => []RunningWhole
<1>1. OtaTypeOK /\ RunningWhole /\ [Next]_vars => RunningWhole'
  <2> SUFFICES ASSUME OtaTypeOK, RunningWhole, [Next]_vars PROVE RunningWhole'
    OBVIOUS
  <2>1. SlotsType
    BY DEF OtaTypeOK, SlotsType
  <2>2. ASSUME NEW c \in Client, ClientAction(c) PROVE RunningWhole'
    <3>1. UNCHANGED <<slots, running>>
      BY <2>2 DEF ClientAction, Upgrade, StartRequest, CheckTask, CreateTask,
         slotVars
    <3>2. QED
      BY <2>1, <3>1, OtherSlotOnly
  <2>3. ASSUME NEW u \in Updater, UpdaterAction(u) PROVE RunningWhole'
    <3>1. CASE Begin(u)
      <4>1. EraseSlot(NextUpdateSlot) \/ UNCHANGED <<slots, running>>
        BY <3>1 DEF Begin, slotVars
      <4>2. QED
        BY <2>1, <4>1, OtherSlotOnly
    <3>2. CASE ReadWrite(u)
      <4>1. wrote[u] + 1 \in Int /\ activeUrl[u] \in Source
        BY DEF OtaTypeOK
      <4>2. QED
        BY <2>1, <3>2, <4>1, OtherSlotOnly DEF ReadWrite
    <3>3. CASE ~Begin(u) /\ ~ReadWrite(u)
      <4>1. UNCHANGED <<slots, running>>
        BY <2>3, <3>3 DEF UpdaterAction, Run, Attempt, Open, ReadEnds,
           CheckComplete, End, SetBoot, EraseData, WriteData, DataFails, Cleanup,
           Done, EraseSector, WriteSector, slotVars
      <4>2. QED
        BY <2>1, <4>1, OtherSlotOnly
    <3>4. QED
      BY <3>1, <3>2, <3>3
  <2>4. CASE Restart
    BY <2>1, <2>4, OtherSlotOnly DEF Restart
  <2>5. CASE UNCHANGED vars
    BY <2>1, <2>5, OtherSlotOnly DEF vars, slotVars
  <2>6. QED
    BY <2>2, <2>3, <2>4, <2>5 DEF Next
<1>2. QED
  BY <1>1, InitWhole, TypeCorrect, PTL DEF Spec

-----------------------------------------------------------------------------
(* One updater.                                                            *)

\* A client that is to create the task is alone in that, and no task lives: the
\* check it made still holds.
CreatorInv ==
  ~overlapped =>
    /\ \A u \in Updater : Live(u) => otaTask = u
    /\ \A c \in Client : client[c] = "create" =>
         /\ \A u \in Updater : ~Live(u)
         /\ \A d \in Client : client[d] = "create" => d = c

LEMMA InitCreator == Init => CreatorInv
  BY DEF Init, CreatorInv, AllClients, AllUpdaters, Live

LEMMA ClientCreator ==
  ASSUME OtaTypeOK, CreatorInv, NEW c \in Client, ClientAction(c)
  PROVE  CreatorInv'
<1> USE DEF CreatorInv, Live, ClientGoto, Reply
<1>1. client \in [Client -> ClientStep] /\ updater \in [Updater -> UpdaterStep]
  BY DEF OtaTypeOK
<1>2. ASSUME NEW url \in Url \cup {Refused}, Upgrade(c, url) PROVE CreatorInv'
  BY <1>1, <1>2 DEF Upgrade, Receive
<1>3. CASE StartRequest(c)
  BY <1>1, <1>3 DEF StartRequest, Receive, sharedVars, historyVars
<1>4. CASE CheckTask(c)
  <2> SUFFICES ASSUME ~overlapped'
               PROVE  CreatorInv'
    OBVIOUS
  <2>1. ~overlapped /\ \A d \in Client : client[d] # "create"
    BY <1>4 DEF CheckTask
  <2>2. UNCHANGED <<updater, otaTask>>
    BY <1>4 DEF CheckTask, sharedVars
  <2>3. CASE otaTask = NoTask
    <3>1. \A u \in Updater : ~Live(u)
      BY <2>1, <2>3
    <3>2. client' = [client EXCEPT ![c] = "create"]
      BY <1>4, <2>3 DEF CheckTask
    <3>3. QED
      BY <1>1, <2>1, <2>2, <3>1, <3>2
  <2>4. CASE otaTask # NoTask
    <3>1. client' = [client EXCEPT ![c] = "idle"]
      BY <1>4, <2>4 DEF CheckTask
    <3>2. QED
      BY <1>1, <2>1, <2>2, <3>1
  <2>5. QED
    BY <2>3, <2>4
<1>5. CASE CreateTask(c)
  <2> SUFFICES ASSUME ~overlapped'
               PROVE  CreatorInv'
    OBVIOUS
  <2>1. /\ ~overlapped /\ client[c] = "create"
        /\ client' = [client EXCEPT ![c] = "idle"]
    BY <1>5 DEF CreateTask
  <2>2. \A u \in Updater : ~Live(u)
    BY <2>1
  <2>3. \A d \in Client : client'[d] # "create"
    BY <1>1, <2>1
  <2>4. CASE \E u \in Updater : otaTask' = u /\ Goto(u, "start")
    BY <1>1, <2>2, <2>3, <2>4 DEF Goto
  <2>5. CASE UNCHANGED <<otaTask, updater>>
    BY <2>2, <2>3, <2>5
  <2>6. QED
    BY <1>5, <2>4, <2>5, Zenon DEF CreateTask
<1>6. QED
  BY <1>2, <1>3, <1>4, <1>5 DEF ClientAction

\* A step of a task that lives neither creates one nor ends another.
LEMMA UpdaterSteps ==
  ASSUME OtaTypeOK, NEW u \in Updater, UpdaterAction(u)
  PROVE  /\ Live(u)
         /\ UNCHANGED <<client, command, otaUrl>>
         /\ UNCHANGED <<overlapped, urlOverlapped>>
         /\ UNCHANGED asked \/ Done(u)
         /\ \A v \in Updater \ {u} : updater'[v] = updater[v]
         /\ \/ otaTask' = otaTask /\ updater'[u] \in UpdaterStep \ {"none", "start"}
            \/ Done(u) /\ otaTask' = NoTask /\ updater'[u] = "none"
<1> USE DEF Live, sharedVars, clientVars, historyVars
<1>1. updater \in [Updater -> UpdaterStep]
  BY DEF OtaTypeOK
<1>2. Live(u)
  BY DEF UpdaterAction, Run, Attempt, Open, Begin, ReadWrite, ReadEnds,
     CheckComplete, End, SetBoot, EraseData, WriteData, DataFails, Cleanup, Done
<1>3. CASE Done(u)
  BY <1>1, <1>2, <1>3 DEF Done, Goto
<1>4. CASE ~Done(u)
  <2>1. /\ UNCHANGED <<client, command, otaUrl, asked>>
        /\ UNCHANGED <<overlapped, urlOverlapped>>
        /\ otaTask' = otaTask
    BY <1>4 DEF UpdaterAction, Run, Attempt, Open, Begin, ReadWrite, ReadEnds,
       CheckComplete, End, SetBoot, EraseData, WriteData, DataFails, Cleanup
  <2>2. ASSUME NEW step \in UpdaterStep \ {"none", "start"}, Goto(u, step)
        PROVE  /\ \A v \in Updater \ {u} : updater'[v] = updater[v]
               /\ updater'[u] = step
    BY <1>1, <2>2 DEF Goto
  <2>3. CASE ReadWrite(u)
    <3>1. updater' = updater /\ updater[u] = "read"
      BY <2>3 DEF ReadWrite
    <3>2. updater'[u] \in UpdaterStep \ {"none", "start"}
      BY <3>1 DEF UpdaterStep
    <3>3. QED
      BY <1>2, <2>1, <3>1, <3>2, Zenon
  <2>4. CASE ~ReadWrite(u)
    <3>1. \/ Goto(u, "attempt") \/ Goto(u, "open") \/ Goto(u, "begin")
          \/ Goto(u, "read") \/ Goto(u, "complete") \/ Goto(u, "end")
          \/ Goto(u, "setBoot") \/ Goto(u, "eraseData") \/ Goto(u, "writeData")
          \/ Goto(u, "delay") \/ Goto(u, "cleanup") \/ Goto(u, "done")
      BY <1>4, <2>4, Zenon DEF UpdaterAction, Run, Attempt, Open, Begin,
         ReadEnds, CheckComplete, End, SetBoot, EraseData, WriteData, DataFails,
         Cleanup, Fail
    <3>2. \E step \in UpdaterStep \ {"none", "start"} : Goto(u, step)
      BY <3>1 DEF UpdaterStep
    <3>3. /\ \A v \in Updater \ {u} : updater'[v] = updater[v]
          /\ updater'[u] \in UpdaterStep \ {"none", "start"}
      BY <2>2, <3>2
    <3>4. QED
      BY <1>2, <2>1, <3>3, Zenon
  <2>5. QED
    BY <2>3, <2>4
<1>5. QED
  BY <1>3, <1>4

LEMMA CreatorInvariant == Spec => []CreatorInv
<1>1. OtaTypeOK /\ CreatorInv /\ [Next]_vars => CreatorInv'
  <2> SUFFICES ASSUME OtaTypeOK, CreatorInv, [Next]_vars PROVE CreatorInv'
    OBVIOUS
  <2>1. ASSUME NEW u \in Updater, UpdaterAction(u) PROVE CreatorInv'
    BY <2>1, UpdaterSteps DEF CreatorInv, Live, clientVars
  <2>2. CASE Restart
    BY <2>2 DEF Restart, CreatorInv, Live, AllClients, AllUpdaters
  <2>3. CASE UNCHANGED vars
    BY <2>3 DEF vars, CreatorInv, Live, clientVars, sharedVars, historyVars
  <2>4. QED
    BY <2>1, <2>2, <2>3, ClientCreator DEF Next
<1>2. QED
  BY <1>1, InitCreator, TypeCorrect, PTL DEF Spec

\* OneUpdater for all constants: the check of s_otaTask keeps updates apart as
\* long as no two calls of ota_service_start overlap.
THEOREM OneUpdaterOnly == Spec => []OneUpdater
<1>1. CreatorInv => OneUpdater
  BY DEF CreatorInv, OneUpdater
<1>2. QED
  BY <1>1, CreatorInvariant, PTL

-----------------------------------------------------------------------------
(* The URL.                                                                *)

UrlInv ==
  ~urlOverlapped =>
    /\ \A c \in Client : client[c] # "idle" => command[c] \in {otaUrl, NoUrl}
    /\ \A u \in Updater : updater[u] = "start" => asked[u] \in {otaUrl, NoUrl}
    /\ \A u \in Updater : updater[u] \notin {"none", "start"} =>
         asked[u] \in {activeUrl[u], NoUrl}

LEMMA ClientUrl ==
  ASSUME OtaTypeOK, UrlInv, NEW c \in Client, ClientAction(c)
  PROVE  UrlInv'
<1> USE DEF UrlInv, ClientGoto, Reply, Goto, Receive
<1>1. /\ client \in [Client -> ClientStep]
      /\ command \in [Client -> Url \cup {NoUrl}]
      /\ updater \in [Updater -> UpdaterStep]
      /\ asked \in [Updater -> Url \cup {NoUrl}]
  BY DEF OtaTypeOK
<1>2. ASSUME NEW url \in Url \cup {Refused}, Upgrade(c, url) PROVE UrlInv'
  <2> SUFFICES ASSUME ~urlOverlapped' PROVE UrlInv'
    OBVIOUS
  <2>1. /\ ~urlOverlapped
        /\ \A d \in Client : client[d] = "idle"
        /\ \A u \in Updater : updater[u] # "start"
    BY <1>2 DEF Upgrade
  <2>2. UNCHANGED <<updater, asked, activeUrl>>
    BY <1>2 DEF Upgrade, localVars
  <2>3. \A d \in Client : client'[d] # "idle" => command'[d] = otaUrl'
    BY <1>1, <1>2, <2>1 DEF Upgrade
  <2>4. QED
    BY <2>1, <2>2, <2>3
<1>3. CASE StartRequest(c)
  BY <1>1, <1>3 DEF StartRequest, sharedVars, localVars
<1>4. CASE CheckTask(c)
  BY <1>1, <1>4 DEF CheckTask, sharedVars, localVars
<1>5. CASE CreateTask(c)
  <2> SUFFICES ASSUME ~urlOverlapped' PROVE UrlInv'
    OBVIOUS
  <2>1. /\ ~urlOverlapped /\ command[c] \in {otaUrl, NoUrl}
        /\ UNCHANGED <<otaUrl, activeUrl>>
    BY <1>5 DEF CreateTask, localVars
  <2>2. \A d \in Client : client'[d] # "idle" =>
          client[d] # "idle" /\ command'[d] = command[d]
    BY <1>1, <1>5 DEF CreateTask
  <2>3. CASE \E u \in Updater :
               Goto(u, "start") /\ asked' = [asked EXCEPT ![u] = command[c]]
    BY <1>1, <2>1, <2>2, <2>3
  <2>4. CASE UNCHANGED <<updater, asked>>
    BY <2>1, <2>2, <2>4
  <2>5. QED
    BY <1>5, <2>3, <2>4, Zenon DEF CreateTask
<1>6. QED
  BY <1>2, <1>3, <1>4, <1>5 DEF ClientAction

LEMMA UpdaterUrl ==
  ASSUME OtaTypeOK, UrlInv, NEW u \in Updater, UpdaterAction(u)
  PROVE  UrlInv'
<1>1. /\ updater \in [Updater -> UpdaterStep]
      /\ activeUrl \in [Updater -> Source]
      /\ asked \in [Updater -> Url \cup {NoUrl}]
  BY DEF OtaTypeOK
<1>2. CASE Run(u)
  BY <1>1, <1>2 DEF Run, UrlInv, Goto, clientVars, historyVars
<1>3. CASE Done(u)
  BY <1>1, <1>3 DEF Done, UrlInv, Goto, clientVars
<1>4. CASE ~Run(u) /\ ~Done(u)
  <2>1. UNCHANGED activeUrl /\ updater[u] # "start"
    BY <1>4 DEF UpdaterAction, Attempt, Open, Begin, ReadWrite, ReadEnds,
       CheckComplete, End, SetBoot, EraseData, WriteData, DataFails, Cleanup,
       localVars
  <2>2. QED
    BY <1>4, <2>1, UpdaterSteps DEF UrlInv, Live, clientVars
<1>5. QED
  BY <1>2, <1>3, <1>4

\* UpdatesFromAskedUrl for all constants.
THEOREM AskedUrlUsed == Spec => []UpdatesFromAskedUrl
<1>1. Init => UrlInv
  BY DEF Init, UrlInv, AllClients, AllUpdaters
<1>2. OtaTypeOK /\ UrlInv /\ [Next]_vars => UrlInv'
  <2>1. OtaTypeOK /\ UrlInv /\ Restart => UrlInv'
    BY DEF Restart, UrlInv, AllClients, AllUpdaters
  <2>2. UrlInv /\ UNCHANGED vars => UrlInv'
    BY DEF vars, UrlInv, clientVars, sharedVars, localVars, historyVars
  <2>3. QED
    BY <2>1, <2>2, ClientUrl, UpdaterUrl DEF Next
<1>3. UrlInv => UpdatesFromAskedUrl
  BY DEF UrlInv, UpdatesFromAskedUrl
<1>4. QED
  BY <1>1, <1>2, <1>3, TypeCorrect, PTL DEF Spec

-----------------------------------------------------------------------------
(* The boot slot and the state that is shown.                              *)

\* The states that may be shown while an updater is at a step.
Shown(step) ==
  CASE step = "start" -> {"idle", "failed"}
    [] step \in {"attempt", "complete", "end"} -> {"running", "failed"}
    [] step \in {"open", "begin", "read", "setBoot", "eraseData", "writeData"} ->
         {"running"}
    [] step = "delay" -> {"success"}
    [] step \in {"cleanup", "done"} -> {"failed"}
    [] step = "none" -> State

\* A state other than idle and failed is that of an updater that lives.
ShownInv ==
  ~overlapped =>
    /\ \A u \in Updater : otaState \in Shown(updater[u])
    /\ otaState = "running" => \E u \in Updater : Live(u)
    /\ otaState = "success" => \E u \in Updater : updater[u] = "delay"

\* Until an updater writes otadata the slot that runs is the boot slot; from
\* then on it is the slot that the updater filled.  An updater that is about to
\* write otadata has checked that slot, and the number it writes is the newest
\* one and stands for it.
BootInv ==
  ~overlapped =>
    /\ BootSlot = IF otaState = "success" THEN NextUpdateSlot ELSE running
    /\ \A u \in Updater :
         /\ updater[u] \in {"eraseData", "writeData", "delay"} =>
              Whole(NextUpdateSlot)
         /\ updater[u] = "eraseData" =>
              next[u] = [sector |-> OlderSector, seq |-> SeqFor(NextUpdateSlot)]
         /\ updater[u] = "writeData" =>
              /\ next[u].seq > otadata[1 - next[u].sector]
              /\ next[u].seq > NoSeq
              /\ (next[u].seq - 1) % 2 = NextUpdateSlot

LEMMA ClientShown ==
  ASSUME OtaTypeOK, CreatorInv, ShownInv, NEW c \in Client, ClientAction(c)
  PROVE  ShownInv'
<1>1. UNCHANGED otaState /\ (~overlapped' => ~overlapped)
  <2>1. CASE CheckTask(c)
    BY <2>1 DEF CheckTask, sharedVars
  <2>2. CASE ~CheckTask(c)
    BY <2>2 DEF ClientAction, Upgrade, StartRequest, CreateTask, sharedVars
  <2>3. QED
    BY <2>1, <2>2
<1>2. CASE UNCHANGED updater
  BY <1>1, <1>2 DEF ShownInv, Live
<1>3. CASE CreateTask(c) /\ \E u \in Updater : Goto(u, "start")
  <2> SUFFICES ASSUME ~overlapped' PROVE ShownInv'
    BY DEF ShownInv
  <2>1. ~overlapped /\ \A u \in Updater : updater[u] = "none"
    BY <1>1, <1>3 DEF CreateTask, CreatorInv, Live
  <2>2. otaState \in {"idle", "failed"}
    BY <2>1 DEF ShownInv, Live, OtaTypeOK, State
  <2>3. PICK u \in Updater : updater' = [updater EXCEPT ![u] = "start"]
    BY <1>3 DEF Goto
  <2>4. \A v \in Updater : updater'[v] \in {"none", "start"}
    BY <2>1, <2>3 DEF OtaTypeOK
  <2>5. \A v \in Updater : otaState \in Shown(updater'[v])
    BY <2>2, <2>4 DEF Shown, State
  <2>6. QED
    BY <1>1, <2>2, <2>5 DEF ShownInv
<1>4. QED
  BY <1>2, <1>3 DEF ClientAction, Upgrade, StartRequest, CheckTask, CreateTask

\* The state and the step of an updater change together.
LEMMA UpdaterShown ==
  ASSUME OtaTypeOK, CreatorInv, ShownInv, NEW u \in Updater, UpdaterAction(u)
  PROVE  ShownInv'
<1> SUFFICES ASSUME ~overlapped' PROVE ShownInv'
  BY DEF ShownInv
<1>1. ~overlapped /\ \A v \in Updater \ {u} : updater'[v] = "none"
  BY UpdaterSteps DEF CreatorInv, Live
<1>2. otaState \in Shown(updater[u]) /\ otaState \in State
      /\ updater \in [Updater -> UpdaterStep]
  BY <1>1 DEF ShownInv, OtaTypeOK
<1>3. otaState' \in Shown(updater'[u]) /\ otaState' \in State
  <2> USE <1>2 DEF Shown, State, Goto, Fail
  <2>1. CASE Run(u)
    BY <2>1 DEF Run
  <2>2. CASE Attempt(u)
    BY <2>2 DEF Attempt
  <2>3. CASE Open(u)
    BY <2>3 DEF Open
  <2>4. CASE Begin(u)
    <3>1. /\ updater[u] = "begin"
          /\ \/ Goto(u, "read") /\ otaState' = otaState
             \/ Fail(u, "cleanup")
      BY <2>4, Zenon DEF Begin
    <3>2. QED
      BY <3>1
  <2>5. CASE ReadWrite(u)
    BY <2>5 DEF ReadWrite, sharedVars
  <2>6. CASE ReadEnds(u)
    BY <2>6 DEF ReadEnds
  <2>7. CASE CheckComplete(u)
    BY <2>7 DEF CheckComplete
  <2>8. CASE End(u)
    BY <2>8 DEF End
  <2>9. CASE SetBoot(u)
    <3>1. /\ updater[u] = "setBoot"
          /\ \/ Goto(u, "eraseData") /\ otaState' = otaState
             \/ Fail(u, "cleanup")
      BY <2>9, Zenon DEF SetBoot
    <3>2. QED
      BY <3>1
  <2>10. CASE EraseData(u)
    BY <2>10 DEF EraseData, sharedVars
  <2>11. CASE WriteData(u)
    BY <2>11 DEF WriteData
  <2>12. CASE DataFails(u)
    BY <2>12 DEF DataFails
  <2>13. CASE Cleanup(u)
    BY <2>13 DEF Cleanup, sharedVars
  <2>14. CASE Done(u)
    BY <2>14 DEF Done
  <2>15. QED
    BY <2>1, <2>2, <2>3, <2>4, <2>5, <2>6, <2>7, <2>8, <2>9, <2>10, <2>11,
       <2>12, <2>13, <2>14 DEF UpdaterAction
<1>4. \A v \in Updater : otaState' \in Shown(updater'[v])
  BY <1>1, <1>3 DEF Shown
<1>5. otaState' = "running" => Live(u)'
  <2>1. CASE Done(u)
    <3>1. otaState' = "failed"
      BY <1>2, <2>1 DEF Done, Shown
    <3>2. QED
      BY <3>1
  <2>2. CASE ~Done(u)
    BY <2>2, UpdaterSteps DEF Live
  <2>3. QED
    BY <2>1, <2>2
<1>6. otaState' = "success" => updater'[u] = "delay"
  <2>1. CASE Done(u)
    <3>1. otaState' = "failed"
      BY <1>2, <2>1 DEF Done, Shown
    <3>2. QED
      BY <3>1
  <2>2. CASE ~Done(u)
    <3>1. updater'[u] \in UpdaterStep \ {"none", "start"}
      BY <2>2, UpdaterSteps
    <3>2. QED
      BY <1>3, <3>1 DEF Shown, UpdaterStep
  <2>3. QED
    BY <2>1, <2>2
<1>7. QED
  BY <1>4, <1>5, <1>6 DEF ShownInv

LEMMA ShownInvariant == Spec => []ShownInv
<1>1. Init => ShownInv
  BY DEF Init, ShownInv, AllUpdaters, Shown, State
<1>2. OtaTypeOK /\ CreatorInv /\ ShownInv /\ [Next]_vars => ShownInv'
  <2>1. Restart => ShownInv'
    BY DEF Restart, ShownInv, AllUpdaters, Shown, State
  <2>2. ShownInv /\ UNCHANGED vars => ShownInv'
    BY DEF vars, ShownInv, Live, sharedVars, historyVars
  <2>3. QED
    BY <2>1, <2>2, ClientShown, UpdaterShown DEF Next
<1>3. QED
  BY <1>1, <1>2, TypeCorrect, CreatorInvariant, PTL DEF Spec

\* The number that is to be written is the newest one and stands for the slot
\* to update; what is erased for it is not the number in force.
LEMMA ChooseSector ==
  ASSUME SlotsType, BootSlot = running
  PROVE  /\ EraseSector(OlderSector) => BootSlot' = running
         /\ SeqFor(NextUpdateSlot) > otadata[1 - OlderSector]
         /\ SeqFor(NextUpdateSlot) > NoSeq
         /\ (SeqFor(NextUpdateSlot) - 1) % 2 = NextUpdateSlot
<1> DEFINE a == otadata[0]
           b == otadata[1]
<1>1. a \in Nat /\ b \in Nat /\ running \in {0, 1}
  BY DEF SlotsType, Slot
<1>2. running = IF a = 0 /\ b = 0 THEN 0
                ELSE IF a >= b THEN (a - 1) % 2 ELSE (b - 1) % 2
  BY <1>1 DEF BootSlot, NoSeq
<1>3. NextUpdateSlot = 1 - running
  BY DEF NextUpdateSlot
<1>4. SeqFor(NextUpdateSlot) = IF a = 0 /\ b = 0 THEN 2
                               ELSE IF a >= b THEN a + 1 ELSE b + 1
  BY <1>1, <1>2, <1>3 DEF SeqFor, Newest, NoSeq
<1>5. OlderSector = IF a = 0 THEN 0 ELSE IF a >= b THEN 1 ELSE 0
  BY DEF OlderSector, NoSeq
<1>6. EraseSector(OlderSector) => BootSlot' = running
  <2> SUFFICES ASSUME EraseSector(OlderSector) PROVE BootSlot' = running
    OBVIOUS
  <2>1. CASE OlderSector = 0
    <3>1. otadata'[0] = 0 /\ otadata'[1] = b
      BY <2>1 DEF EraseSector, SlotsType, Slot, NoSeq
    <3>2. QED
      BY <1>1, <1>2, <1>5, <2>1, <3>1 DEF BootSlot, NoSeq
  <2>2. CASE OlderSector = 1
    <3>1. otadata'[0] = a /\ otadata'[1] = 0
      BY <2>2 DEF EraseSector, SlotsType, Slot, NoSeq
    <3>2. QED
      BY <1>1, <1>2, <1>5, <2>2, <3>1 DEF BootSlot, NoSeq
  <2>3. QED
    BY <1>5, <2>1, <2>2
<1>7. /\ SeqFor(NextUpdateSlot) > otadata[1 - OlderSector]
      /\ SeqFor(NextUpdateSlot) > NoSeq
  <2>1. CASE OlderSector = 0
    BY <1>1, <1>4, <1>5, <2>1 DEF NoSeq
  <2>2. CASE OlderSector = 1
    BY <1>1, <1>4, <1>5, <2>2 DEF NoSeq
  <2>3. QED
    BY <1>5, <2>1, <2>2
<1>8. (SeqFor(NextUpdateSlot) - 1) % 2 = NextUpdateSlot
  BY <1>1, <1>2, <1>3, <1>4
<1>9. QED
  BY <1>6, <1>7, <1>8

\* Once it is written the slot to update is the boot slot.
LEMMA WriteNewest ==
  ASSUME SlotsType, NEW i \in Slot, NEW seq \in Nat,
         seq > otadata[1 - i], seq > NoSeq, (seq - 1) % 2 = NextUpdateSlot,
         WriteSector(i, seq)
  PROVE  BootSlot' = NextUpdateSlot
<1>1. otadata[0] \in Nat /\ otadata[1] \in Nat
  BY DEF SlotsType, Slot
<1>2. CASE i = 0
  <2>1. otadata'[0] = seq /\ otadata'[1] = otadata[1]
    BY <1>2 DEF WriteSector, SlotsType, Slot
  <2>2. QED
    BY <1>1, <1>2, <2>1 DEF BootSlot, NoSeq
<1>3. CASE i = 1
  <2>1. otadata'[0] = otadata[0] /\ otadata'[1] = seq
    BY <1>3 DEF WriteSector, SlotsType, Slot
  <2>2. QED
    BY <1>1, <1>3, <2>1 DEF BootSlot, NoSeq
<1>4. QED
  BY <1>2, <1>3 DEF Slot

LEMMA InitBoot == Init => BootInv
<1> SUFFICES ASSUME Init PROVE BootInv
  OBVIOUS
<1>1. PICK h \in History :
        otadata = [i \in Slot |-> h[i + 1]] /\ running = h[3]
  BY DEF Init, SlotsInit
<1>2. otadata[0] = h[1] /\ otadata[1] = h[2]
  BY <1>1 DEF Slot
<1>3. BootSlot = running
  BY <1>1, <1>2 DEF History, BootSlot, NoSeq
<1>4. otaState = "idle" /\ \A u \in Updater : updater[u] = "none"
  BY DEF Init, AllUpdaters
<1>5. QED
  BY <1>3, <1>4 DEF BootInv

\* What the boot loader would start changes only when otadata is written.
LEMMA UpdaterBoot ==
  ASSUME OtaTypeOK, CreatorInv, ShownInv, BootInv,
         NEW u \in Updater, UpdaterAction(u)
  PROVE  BootInv'
<1> SUFFICES ASSUME ~overlapped' PROVE BootInv'
  BY DEF BootInv
<1>1. ~overlapped /\ \A v \in Updater \ {u} : updater'[v] = "none"
  BY UpdaterSteps DEF CreatorInv, Live
<1>2. SlotsType
  BY DEF OtaTypeOK, SlotsType
<1>3. /\ updater \in [Updater -> UpdaterStep]
      /\ next \in [Updater -> [sector : Slot, seq : Nat]]
      /\ otaState \in Shown(updater[u]) /\ updater[u] # "none"
  BY <1>1, UpdaterSteps DEF ShownInv, OtaTypeOK, Live
<1> DEFINE Writes == {"eraseData", "writeData", "delay"}
<1>4. BootSlot = IF otaState = "success" THEN NextUpdateSlot ELSE running
  BY <1>1 DEF BootInv
<1>5. updater[u] # "delay" => otaState # "success" /\ BootSlot = running
  BY <1>3, <1>4 DEF Shown, UpdaterStep
<1>6. updater[u] # "delay"
  BY DEF UpdaterAction, Run, Attempt, Open, Begin, ReadWrite, ReadEnds,
     CheckComplete, End, SetBoot, EraseData, WriteData, DataFails, Cleanup, Done
<1>7. ASSUME BootSlot' = running, running' = running, otaState' # "success",
             updater'[u] \notin Writes
      PROVE  BootInv'
  BY <1>1, <1>7 DEF BootInv
<1>8. CASE SetBoot(u)
  <2>1. CASE /\ ImageLoads(NextUpdateSlot)
             /\ next' = [next EXCEPT ![u] = [sector |-> OlderSector,
                                             seq |-> SeqFor(NextUpdateSlot)]]
             /\ Goto(u, "eraseData") /\ UNCHANGED otaState
    <3>1. UNCHANGED slotVars
      BY <1>8 DEF SetBoot
    <3>2. /\ next'[u] = [sector |-> OlderSector, seq |-> SeqFor(NextUpdateSlot)]
          /\ updater'[u] = "eraseData"
      BY <1>3, <2>1 DEF Goto
    <3>3. /\ OlderSector' = OlderSector /\ NextUpdateSlot' = NextUpdateSlot
          /\ SeqFor(NextUpdateSlot)' = SeqFor(NextUpdateSlot)
          /\ BootSlot' = BootSlot
          /\ Whole(NextUpdateSlot)'
      BY <2>1, <3>1 DEF slotVars, OlderSector, NextUpdateSlot, SeqFor, Newest,
         BootSlot, ImageLoads, Whole
    <3>4. running' = running /\ otaState' # "success"
      BY <1>5, <1>6, <2>1, <3>1 DEF slotVars
    <3>5. QED
      BY <1>1, <1>5, <1>6, <3>2, <3>3, <3>4 DEF BootInv
  <2>2. CASE Fail(u, "cleanup")
    <3>1. UNCHANGED slotVars /\ updater'[u] = "cleanup" /\ otaState' = "failed"
      BY <1>3, <1>8, <2>2 DEF SetBoot, Fail, Goto
    <3>2. BootSlot' = BootSlot /\ running' = running
      BY <3>1 DEF slotVars, BootSlot
    <3>3. QED
      BY <1>5, <1>6, <1>7, <3>1, <3>2
  <2>3. QED
    BY <1>8, <2>1, <2>2 DEF SetBoot
<1>9. CASE EraseData(u)
  <2>1. /\ updater[u] = "eraseData" /\ EraseSector(next[u].sector)
        /\ updater'[u] = "writeData"
        /\ UNCHANGED <<otaState, next>>
    BY <1>3, <1>9 DEF EraseData, Goto, sharedVars, localVars
  <2>2. /\ Whole(NextUpdateSlot)
        /\ next[u].sector = OlderSector /\ next[u].seq = SeqFor(NextUpdateSlot)
    BY <1>1, <2>1 DEF BootInv
  <2>3. /\ UNCHANGED <<slots, running>>
        /\ otadata' = [otadata EXCEPT ![OlderSector] = NoSeq]
    BY <2>1, <2>2 DEF EraseSector
  <2>4. /\ BootSlot' = running
        /\ SeqFor(NextUpdateSlot) > otadata[1 - OlderSector]
        /\ SeqFor(NextUpdateSlot) > NoSeq
        /\ (SeqFor(NextUpdateSlot) - 1) % 2 = NextUpdateSlot
    BY <1>2, <1>5, <1>6, <2>1, <2>2, ChooseSector
  <2>5. otadata'[1 - OlderSector] = otadata[1 - OlderSector]
    BY <1>2, <2>3, SlotNumbers DEF SlotsType, Slot
  <2>6. NextUpdateSlot' = NextUpdateSlot /\ Whole(NextUpdateSlot)'
    BY <2>2, <2>3 DEF NextUpdateSlot, Whole
  <2>7. /\ next'[u].seq > otadata'[1 - next'[u].sector]
        /\ next'[u].seq > NoSeq
        /\ (next'[u].seq - 1) % 2 = NextUpdateSlot'
    BY <2>1, <2>2, <2>4, <2>5, <2>6
  <2>8. running' = running /\ otaState' # "success"
    BY <1>5, <1>6, <2>1, <2>3
  <2>9. QED
    BY <1>1, <2>1, <2>4, <2>6, <2>7, <2>8 DEF BootInv
<1>10. CASE WriteData(u)
  <2>1. /\ updater[u] = "writeData" /\ WriteSector(next[u].sector, next[u].seq)
        /\ updater'[u] = "delay" /\ otaState' = "success"
    BY <1>3, <1>10 DEF WriteData, Goto
  <2>2. /\ Whole(NextUpdateSlot)
        /\ next[u].seq > otadata[1 - next[u].sector]
        /\ next[u].seq > NoSeq
        /\ (next[u].seq - 1) % 2 = NextUpdateSlot
    BY <1>1, <2>1 DEF BootInv
  <2>3. next[u].sector \in Slot /\ next[u].seq \in Nat
    BY <1>3
  <2>4. BootSlot' = NextUpdateSlot
    BY <1>2, <2>1, <2>2, <2>3, WriteNewest
  <2>5. NextUpdateSlot' = NextUpdateSlot /\ Whole(NextUpdateSlot)'
    BY <2>1, <2>2 DEF WriteSector, NextUpdateSlot, Whole
  <2>6. QED
    BY <1>1, <2>1, <2>4, <2>5 DEF BootInv
<1>11. CASE ~SetBoot(u) /\ ~EraseData(u) /\ ~WriteData(u)
  <2>1. UNCHANGED <<otadata, running>> /\ otaState' # "success"
        /\ updater'[u] \notin Writes
    <3>1. UNCHANGED <<otadata, running>>
      BY <1>11 DEF UpdaterAction, Run, Attempt, Open, Begin, ReadWrite, ReadEnds,
         CheckComplete, End, DataFails, Cleanup, Done, EraseSlot, WriteChunk,
         slotVars
    <3>2. otaState' \in {otaState, "running", "failed"}
      BY <1>11 DEF UpdaterAction, Run, Attempt, Open, Begin, ReadWrite, ReadEnds,
         CheckComplete, End, DataFails, Cleanup, Done, Fail, sharedVars
    <3>3. \/ Goto(u, "attempt") \/ Goto(u, "open") \/ Goto(u, "begin")
          \/ Goto(u, "read") \/ Goto(u, "complete") \/ Goto(u, "end")
          \/ Goto(u, "setBoot") \/ Goto(u, "cleanup") \/ Goto(u, "done")
          \/ Goto(u, "none")
          \/ updater' = updater /\ updater[u] = "read"
      BY <1>11, Zenon DEF UpdaterAction, Run, Attempt, Open, Begin, ReadWrite,
         ReadEnds, CheckComplete, End, DataFails, Cleanup, Done, Fail
    <3>4. updater'[u] \notin Writes
      BY <1>3, <3>3 DEF Goto
    <3>5. QED
      BY <1>5, <1>6, <3>1, <3>2, <3>4
  <2>2. BootSlot' = BootSlot
    BY <2>1 DEF BootSlot
  <2>3. QED
    BY <1>5, <1>6, <1>7, <2>1, <2>2
<1>12. QED
  BY <1>8, <1>9, <1>10, <1>11

LEMMA RestartBoot ==
  ASSUME OtaTypeOK, RunningWhole, ShownInv, BootInv, Restart
  PROVE  BootInv'
<1> SUFFICES ASSUME ~overlapped' PROVE BootInv'
  BY DEF BootInv
<1>1. ~overlapped /\ Boot
  BY DEF Restart
<1>2. Whole(BootSlot)
  BY <1>1 DEF BootInv, ShownInv, RunningWhole
<1>3. running' = BootSlot /\ BootSlot' = BootSlot
  BY <1>1, <1>2 DEF Boot, BootSlot
<1>4. otaState' = "idle" /\ \A u \in Updater : updater'[u] = "none"
  BY DEF Restart, AllUpdaters
<1>5. QED
  BY <1>3, <1>4 DEF BootInv

LEMMA BootInvariant == Spec => []BootInv
<1>1. OtaTypeOK /\ CreatorInv /\ ShownInv /\ RunningWhole /\ BootInv
        /\ [Next]_vars => BootInv'
  <2> SUFFICES ASSUME OtaTypeOK, CreatorInv, ShownInv, RunningWhole, BootInv,
                      [Next]_vars
               PROVE  BootInv'
    OBVIOUS
  <2>1. ASSUME UNCHANGED <<slotVars, otaState, next>>, ~overlapped' => ~overlapped,
               \A u \in Updater :
                 updater'[u] = updater[u] \/ updater'[u] = "start"
        PROVE  BootInv'
    <3>1. /\ OlderSector' = OlderSector /\ NextUpdateSlot' = NextUpdateSlot
          /\ SeqFor(NextUpdateSlot)' = SeqFor(NextUpdateSlot)
          /\ BootSlot' = BootSlot /\ running' = running
          /\ otadata' = otadata
          /\ Whole(NextUpdateSlot) => Whole(NextUpdateSlot)'
      BY <2>1 DEF slotVars, OlderSector, NextUpdateSlot, SeqFor, Newest, BootSlot,
         Whole
    <3>2. QED
      BY <2>1, <3>1 DEF BootInv
  <2>2. ASSUME NEW c \in Client, ClientAction(c) PROVE BootInv'
    <3>1. UNCHANGED <<slotVars, otaState, next>>
      BY <2>2 DEF ClientAction, Upgrade, StartRequest, CheckTask, CreateTask,
         sharedVars, localVars
    <3>2. ~overlapped' => ~overlapped
      <4>1. CASE CheckTask(c)
        BY <4>1 DEF CheckTask
      <4>2. CASE ~CheckTask(c)
        BY <2>2, <4>2 DEF ClientAction, Upgrade, StartRequest, CreateTask
      <4>3. QED
        BY <4>1, <4>2
    <3>3. updater' = updater \/ \E u \in Updater : Goto(u, "start")
      BY <2>2 DEF ClientAction, Upgrade, StartRequest, CheckTask, CreateTask
    <3>4. \A u \in Updater : updater'[u] = updater[u] \/ updater'[u] = "start"
      BY <3>3 DEF Goto, OtaTypeOK
    <3>5. QED
      BY <2>1, <3>1, <3>2, <3>4
  <2>3. CASE UNCHANGED vars
    BY <2>1, <2>3 DEF vars, sharedVars, localVars, historyVars
  <2>4. QED
    BY <2>2, <2>3, UpdaterBoot, RestartBoot DEF Next
<1>2. QED
  BY <1>1, InitBoot, TypeCorrect, CreatorInvariant, ShownInvariant, RunningKept,
     PTL DEF Spec

\* BootSlotWhole for all constants: wherever an update breaks off, the boot
\* loader has a whole image to start, the old one until otadata is written.
THEOREM BootSlotSafe == Spec => []BootSlotWhole
<1>1. RunningWhole /\ ShownInv /\ BootInv => BootSlotWhole
  BY DEF RunningWhole, ShownInv, BootInv, BootSlotWhole
<1>2. QED
  BY <1>1, RunningKept, ShownInvariant, BootInvariant, PTL

\* StatusTellsOutcome for all constants.
THEOREM StatusTrue == Spec => []StatusTellsOutcome
<1>1. OtaTypeOK /\ CreatorInv /\ ShownInv /\ BootInv => StatusTellsOutcome
  <2> SUFFICES ASSUME OtaTypeOK, CreatorInv, ShownInv, BootInv, ~overlapped
               PROVE  StatusTellsOutcome
    BY DEF StatusTellsOutcome
  <2>1. otaState = "running" => otaTask # NoTask
    BY DEF CreatorInv, ShownInv
  <2>2. NextUpdateSlot # running
    BY SlotNumbers DEF OtaTypeOK, SlotsType
  <2>3. QED
    BY <2>1, <2>2 DEF ShownInv, BootInv, StatusTellsOutcome
<1>2. QED
  BY <1>1, TypeCorrect, CreatorInvariant, ShownInvariant, BootInvariant, PTL
=============================================================================
