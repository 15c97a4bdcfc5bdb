--------------------------- MODULE FirmwareUpdate ---------------------------
(* A firmware update: the downloader on the PC and the boot loader of the    *)
(* board, or its application, at the two ends of the serial link.            *)
EXTENDS Downloader, Bootloader

vars == <<linkVars, pcVars, deviceVars>>

Init == LinkInit /\ DownloaderInit /\ BootloaderInit

PcSends == SendThread /\ UNCHANGED deviceVars
PcReceives == (ReceiveAnswer \/ ReceiveNothing) /\ UNCHANGED deviceVars
PcTimeout == Timeout /\ UNCHANGED deviceVars
PcCounts == CountTimeout /\ UNCHANGED deviceVars
PcClick == Click /\ UNCHANGED deviceVars

LinkStep == LoseAnswer /\ UNCHANGED pcVars
BoardReceives == DeviceStep /\ UNCHANGED pcVars
BoardRuns == (CheckFunCode \/ StartApp \/ AppSends) /\ UNCHANGED pcVars
BoardResets == (Reset \/ PowerLossInWrite) /\ UNCHANGED pcVars

Next ==
  \/ PcSends \/ PcReceives \/ PcTimeout \/ PcCounts \/ PcClick
  \/ LinkStep \/ BoardReceives \/ BoardRuns \/ BoardResets

Spec == Init /\ [][Next]_vars

\* The threads of the PC and the interrupt handler of the board run; what is sent
\* arrives or is lost; the timer thread counts while SendThread waits, since
\* only the end of a SendData sets it back.
FairSpec ==
  /\ Spec
  /\ WF_vars(PcSends) /\ WF_vars(PcReceives) /\ WF_vars(PcCounts)
  /\ WF_vars(PcTimeout /\ dl = "wait" /\ SentFlag)
  /\ WF_vars(BoardReceives)

-----------------------------------------------------------------------------
UpdateTypeOK ==
  /\ toDevice \in Seq(Message) /\ Len(toDevice) <= MaxQueue
  /\ toPc \in Seq(Answer) /\ Len(toPc) <= MaxQueue
  /\ dl \in {"idle", "begin", "read", "send", "clear", "wait", "last",
             "finished", "failed", "crashed"}
  /\ Progress \in 0..Frames
  /\ SentFlag \in BOOLEAN /\ spare \in BOOLEAN
  /\ timer \in {"runs", "count"}
  /\ receiveBuff \in Answer \cup {Cleared, EmptyArray}
  /\ file \in 0..MaxFiles
  /\ Overtime \in 0..(MaxOvertime + file)
  /\ device \in {"boot", "app"} /\ loop \in {"loop", "jump"}
  /\ FunCode \in 0..3
  /\ buffCounter \in 0..(Size - 1)
  /\ image \in [1..Frames -> 0..Torn]

\* Once the last frame is acknowledged (Form1.cs:335), every frame in the flash
\* is of this file, or torn by a power loss since, whatever is lost, damaged, sent
\* again, late, or was sent by an earlier download; unless an acknowledgement was
\* taken for that of another frame, or a byte of the application for one: the
\* answers do not tell.
CompleteMeansStored ==
  dl \in {"last", "finished"} /\ file \notin falseAck =>
    \A f \in 1..Frames : image[f] \in {file, Torn}

\* The application is started from an image that is mixed or torn only after
\* a reset that interrupted a download, after such a false acknowledgement, or if
\* a frame is stored between the check of main and its jump.
StartedWhole ==
  device = "app" /\ Mixed => interrupted \/ falseAck # {} \/ raced

Ended == dl \in {"idle", "finished", "failed", "crashed"}

\* A download ends, complete or with "write timed out" (Form1.cs:184), whatever is
\* lost or sent by the application, and whenever it starts, unless rejected frames
\* (0xaa), which are not counted, keep coming.
EndsUnlessRejected == []<>Ended \/ []<>(receiveBuff.byte = "0xaa")
=============================================================================
