----------------------------- MODULE SerialLink -----------------------------
(* The serial link (a Bluetooth SPP or BLE bridge) between the downloader on *)
(* the PC and the board: two byte streams.  A message of the downloader is   *)
(* always Size bytes, so one stream is a sequence of messages, the other of  *)
(* single bytes.  What gets lost or damaged is decided at the receiver.      *)
EXTENDS Naturals, Sequences

CONSTANTS Frames,    \* frames of a firmware file
          MaxFiles,  \* bound: downloads the user starts, each of a new file
          MaxQueue   \* bound: messages or answers in transit

ASSUME LinkAssumption ==
  /\ Frames \in Nat \ {0}
  /\ MaxFiles \in Nat
  /\ MaxQueue \in Nat

VARIABLES toDevice,  \* messages in transit
          toPc       \* answers in transit

linkVars == <<toDevice, toPc>>

\* A message: its function, and the frame of which file.
Message == [fun : 1..3, frame : 0..Frames, file : 0..MaxFiles]

\* A byte on its way to the PC.  What frame it acknowledges, if it is the answer
\* 0x55 of the boot loader, is not on the link: only the properties look at it.
Answer == [byte : {"0x55", "0xaa", "other"}, frame : 0..Frames, file : 0..MaxFiles]
Byte(b) == [byte |-> b, frame |-> 0, file |-> 0]

LinkInit == toDevice = <<>> /\ toPc = <<>>

Send(fun, frame, file) ==
  /\ Len(toDevice) < MaxQueue
  /\ toDevice' = Append(toDevice, [fun |-> fun, frame |-> frame, file |-> file])
  /\ UNCHANGED toPc

Reply(answer) ==
  /\ Len(toPc) < MaxQueue
  /\ toPc' = Append(toPc, answer)
=============================================================================
