----------------------------- MODULE Downloader -----------------------------
(***************************************************************************)
(* The download of a firmware file by the PC program (Form1.cs): the thread *)
(* SendThread of SendFileFrame, the timer thread it starts, and the handler *)
(* that receives answers, serialPort_DataReceived or Ble_DeviceReceiveData. *)
(*                                                                          *)
(* Abstracted: the progress bar and the texts; FileLength is sent but the   *)
(* boot loader does not use it; a file of at most 64 KB, as uart.c:54 says; *)
(* time, as a timer thread that may fire whenever it runs; a user who is    *)
(* slower with the next download than the last message of this one.         *)
(***************************************************************************)
EXTENDS SerialLink

CONSTANT MaxOvertime \* timeouts in a row before it gives up (5)

ASSUME TimeoutAssumption == MaxOvertime \in Nat

VARIABLES
  dl,            \* what SendThread does next
  Progress,      \* the frame being sent
  SentFlag,      \* a copy of it is out
  Overtime,      \* timeouts since the frame was read
  timer,         \* where the timer thread is: "runs" or "count"
  receiveBuff,   \* SppReceiveBuff[0] or BleReceiveBuff[0], if there is one
  spare,         \* a handler is due for bytes that another one has read
  file,          \* the number of the download
  falseAck       \* history: the downloads in which an answer to another frame,
                 \* or of the application, was taken for an acknowledgement

pcVars ==
  <<dl, Progress, SentFlag, Overtime, timer, receiveBuff, spare, file, falseAck>>

Cleared == Byte("0")
EmptyArray == Byte("none")  \* the array read has no byte

DownloaderInit ==
  /\ dl = "idle"
  /\ Progress = 0
  /\ SentFlag = FALSE
  /\ Overtime = 0
  /\ timer = "runs"
  /\ receiveBuff = Cleared
  /\ spare = FALSE
  /\ file = 0
  /\ falseAck = {}

\* RenewInterface shows that the download is complete, and enables the button
\* again, unless the last frame took two timeouts or more.
ShownComplete == dl = "finished" /\ Overtime < 2

\* buttonDownload_Click: the button is enabled when no download is in progress.
\* A program that has crashed is started anew.
Click ==
  /\ dl \in {"idle", "failed", "crashed"} \/ ShownComplete
  /\ file < MaxFiles
  /\ file' = file + 1
  /\ Progress' = 1
  /\ IF dl = "crashed"
     THEN /\ receiveBuff' = Cleared /\ SentFlag' = FALSE /\ Overtime' = 0
          /\ spare' = FALSE
     ELSE UNCHANGED <<receiveBuff, SentFlag, Overtime, spare>>
  /\ dl' = "begin"
  /\ UNCHANGED <<timer, falseAck, linkVars>>

\* Function 1 gets no answer from a boot loader that understands it.  Then the
\* timer thread is started.
Begin ==
  /\ dl = "begin"
  /\ Send(1, 0, file)
  /\ dl' = "read"
  /\ UNCHANGED <<Progress, SentFlag, Overtime, timer, receiveBuff, spare, file, falseAck>>

ReadFrame ==
  /\ dl = "read"
  /\ Overtime' = 0
  /\ SentFlag' = FALSE
  /\ dl' = "send"
  /\ UNCHANGED <<Progress, timer, receiveBuff, spare, file, falseAck, linkVars>>

\* The loop body with SentFlag clear: SendData, and only then the answer is
\* cleared.  It may run with an answer present, which came after the condition
\* of the loop was evaluated.
SendFrame ==
  /\ dl = "send" \/ (dl = "wait" /\ ~SentFlag)
  /\ Send(2, Progress, file)
  /\ dl' = "clear"
  /\ UNCHANGED <<Progress, SentFlag, Overtime, timer, receiveBuff, spare, file, falseAck>>

ClearAnswer ==
  /\ dl = "clear"
  /\ receiveBuff # EmptyArray
  /\ receiveBuff' = Cleared
  /\ SentFlag' = TRUE
  /\ dl' = "wait"
  /\ UNCHANGED <<Progress, Overtime, timer, spare, file, falseAck, linkVars>>

\* The first byte of an array without one throws, which nobody catches.
Crash ==
  /\ dl \in {"clear", "wait"}
  /\ receiveBuff = EmptyArray
  /\ dl' = "crashed"
  /\ timer' = "runs"
  /\ UNCHANGED <<Progress, SentFlag, Overtime, receiveBuff, spare, file, falseAck, linkVars>>

\* The loop body with SentFlag set: a bad frame is sent again, and that is not
\* counted as a timeout.
Rejected ==
  /\ dl = "wait"
  /\ SentFlag
  /\ receiveBuff.byte = "0xaa"
  /\ receiveBuff' = Cleared
  /\ SentFlag' = FALSE
  /\ UNCHANGED <<dl, Progress, Overtime, timer, spare, file, falseAck, linkVars>>

\* The answer 0x55 ends the loop: the next frame follows, or function 3.
Accepted ==
  /\ dl = "wait"
  /\ receiveBuff.byte = "0x55"
  /\ falseAck' = IF receiveBuff.file = file /\ receiveBuff.frame = Progress
                 THEN falseAck ELSE falseAck \cup {file}
  /\ IF Progress < Frames
     THEN Progress' = Progress + 1 /\ dl' = "read"
     ELSE dl' = "last" /\ UNCHANGED Progress
  /\ UNCHANGED <<SentFlag, Overtime, timer, receiveBuff, spare, file, linkVars>>

\* Function 3, which gets no answer, and the end of the timer thread.
SendLast ==
  /\ dl = "last"
  /\ Send(3, 0, file)
  /\ dl' = "finished"
  /\ timer' = "runs"
  /\ UNCHANGED <<Progress, SentFlag, Overtime, receiveBuff, spare, file, falseAck>>

SendThread ==
  \/ Begin \/ ReadFrame \/ SendFrame \/ ClearAnswer \/ Crash
  \/ Rejected \/ Accepted \/ SendLast

\* The timer thread counts from the end of the last SendData, but goes on while
\* the next one blocks: its 800 ms can be over wherever SendThread is.
TimerRuns == dl \in {"read", "send", "clear", "wait", "last"}

Timeout ==
  /\ TimerRuns /\ timer = "runs"
  /\ SentFlag' = FALSE
  /\ timer' = "count"
  /\ UNCHANGED <<dl, Progress, Overtime, receiveBuff, spare, file, falseAck, linkVars>>

\* Mutant of CountTimeout: the download never ends.
CountForever ==
  /\ timer = "count"
  /\ Overtime' = IF Overtime > MaxOvertime THEN Overtime ELSE Overtime + 1
  /\ timer' = "runs"
  /\ UNCHANGED <<dl, Progress, SentFlag, receiveBuff, spare, file, falseAck, linkVars>>

CountTimeout ==
  /\ timer = "count"
  /\ Overtime' = Overtime + 1
  /\ timer' = "runs"
  /\ dl' = IF Overtime' > MaxOvertime THEN "failed" ELSE dl
  /\ UNCHANGED <<Progress, SentFlag, receiveBuff, spare, file, falseAck, linkVars>>

\* The handler takes the first byte of those that are there and discards the
\* others, each of which has a handler coming.
ReceiveAnswer ==
  /\ toPc # <<>>
  /\ receiveBuff' = Head(toPc)
  /\ \/ toPc' = Tail(toPc) /\ UNCHANGED spare
     \/ Len(toPc) > 1 /\ toPc' = <<>> /\ spare' = TRUE
  /\ UNCHANGED <<dl, Progress, SentFlag, Overtime, timer, file, falseAck, toDevice>>

\* The handler finds nothing to read.
ReceiveNothing ==
  /\ spare
  /\ spare' = FALSE
  /\ receiveBuff' = EmptyArray
  /\ UNCHANGED <<dl, Progress, SentFlag, Overtime, timer, file, falseAck, linkVars>>
=============================================================================
