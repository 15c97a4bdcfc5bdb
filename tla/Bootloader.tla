----------------------------- MODULE Bootloader -----------------------------
(***************************************************************************)
(* The boot loader of the STM32 board: DownloadFile in the USART interrupt *)
(* (MODULE/uart.c), main, and JumpToAddr.                                  *)
(*                                                                         *)
(* DownloadFile collects Size bytes, whatever they are, and then looks for *)
(* a message in them.  One that begins up to Room bytes into the buffer    *)
(* lies in it whole, because the end of a message is padding; if only its  *)
(* hash runs over the end, the hash is wrong; with a later one nothing     *)
(* happens.  Nothing realigns the buffer with the messages but a reset.    *)
(*                                                                         *)
(* Abstracted: a page write is one step, or a power loss in the middle of  *)
(* it (StmFlash has its steps); the hash, which no damaged message passes. *)
(***************************************************************************)
EXTENDS SerialLink

CONSTANTS Size,        \* bytes in a message (SPP 1054, BLE 158)
          Slack,       \* padding of a frame (5)
          ShortSlack,  \* padding of functions 1 and 3 (Size - 25)
          Hash,        \* bytes in the hash (16)
          LossSizes,   \* bytes that get lost of a message
          PageFrames,  \* frames in a page of the flash (SPP 1, BLE 8)
          MaxResets    \* bound: resets and power losses

ASSUME BufferAssumption ==
  /\ Size \in Nat /\ ShortSlack \in 1..Size /\ Slack \in 1..ShortSlack
  /\ Hash \in Nat \ {0} /\ ShortSlack + Hash < Size
  /\ LossSizes \subseteq 1..Size
  /\ PageFrames \in Nat \ {0}
  /\ MaxResets \in Nat

VARIABLES
  device,       \* "boot" or "app": what runs
  loop,         \* main is in its "loop", or about to "jump"
  FunCode,      \* the function of the latest message, 0 after a reset
  buffCounter,  \* bytes in recBuff
  debris,       \* recBuff holds the head of a damaged message
  delay,        \* the interrupt handler is in delay_ms(500): "no", "yes", or
                \* "full" when the data register holds a byte
  image,        \* the file each frame in the flash is of (0: the first), or Torn
  resets,
  interrupted,  \* history: a reset found the image mixed
  raced         \* history: a frame was stored while main was about to jump

deviceVars == <<device, loop, FunCode, buffCounter, debris, delay, image, resets,
                interrupted, raced>>

Torn == MaxFiles + 1

Holds(file) == \A f \in 1..Frames : image[f] = file
Mixed == ~\E file \in 0..MaxFiles : Holds(file)

BootloaderInit ==
  /\ device = "boot"
  /\ loop = "loop"
  /\ FunCode = 0
  /\ buffCounter = 0
  /\ debris = FALSE
  /\ delay = "no"
  /\ image = [f \in 1..Frames |-> 0]
  /\ resets = 0
  /\ interrupted = FALSE
  /\ raced = FALSE

-----------------------------------------------------------------------------
(* DownloadFile, called for each byte of a message of which some are lost. *)

Fills(lost) == buffCounter + Size - lost >= Size

\* What it makes of the buffer when it is full.
Room(fun) == IF fun = 2 THEN Slack ELSE ShortSlack
Verdicts(fun, lost, corrupt) ==
  IF ~Fills(lost) THEN {"none"}
  ELSE IF lost > 0 \/ corrupt \/ debris THEN {"none", "bad"}
  ELSE IF buffCounter <= Room(fun) THEN {"good"}
  ELSE IF buffCounter < Room(fun) + Hash THEN {"bad"}
  ELSE {"none"}

\* Mutant of Handle: a frame with a wrong hash is acknowledged.
AcknowledgeBad(m, verdict) ==
  /\ verdict = "bad"
  /\ Reply([byte |-> "0x55", frame |-> m.frame, file |-> m.file])
  /\ UNCHANGED <<FunCode, image, delay, raced>>

Handle(m, verdict) ==
  \/ /\ verdict = "good" /\ m.fun = 1
     /\ FunCode' = 1
     /\ delay' = "yes"
     /\ UNCHANGED <<image, toPc, raced>>
  \/ /\ verdict = "good" /\ m.fun = 2
     /\ FunCode' = 2
     /\ image' = [image EXCEPT ![m.frame] = m.file]
     /\ raced' = (raced \/ loop = "jump")
     /\ Reply([byte |-> "0x55", frame |-> m.frame, file |-> m.file])
     /\ UNCHANGED delay
  \/ /\ verdict = "good" /\ m.fun = 3
     /\ FunCode' = 3
     /\ UNCHANGED <<image, delay, toPc, raced>>
  \/ /\ verdict = "bad"
     /\ Reply(Byte("0xaa"))
     /\ UNCHANGED <<FunCode, image, delay, raced>>
  \/ /\ verdict = "none"
     /\ UNCHANGED <<FunCode, image, delay, toPc, raced>>

\* Mutant of Collect: the counter is not reset when the buffer is full.
CollectOverflow(lost) ==
  /\ buffCounter' = buffCounter + Size - lost
  /\ debris' = FALSE

\* The bytes that stay in the buffer for the next message.  (A loss leaves less
\* than a header of four bytes or more than the padding.)
Collect(lost) ==
  /\ buffCounter' = (buffCounter + Size - lost) % Size
  /\ debris' = IF Fills(lost) THEN FALSE
               ELSE debris \/ (lost > 0 /\ Size - lost > Slack)

\* A message arrives, perhaps damaged: some bytes are lost or are wrong.
Receive ==
  /\ device = "boot" /\ delay = "no"
  /\ toDevice # <<>>
  /\ \E lost \in {0} \cup LossSizes, corrupt \in BOOLEAN :
       LET m == Head(toDevice)
       IN /\ lost = 0 \/ ~corrupt
          /\ Collect(lost)
          /\ \E verdict \in Verdicts(m.fun, lost, corrupt) : Handle(m, verdict)
  /\ toDevice' = Tail(toDevice)
  /\ UNCHANGED <<device, loop, resets, interrupted>>

\* In the 500 ms of function 1 the receiver overruns: one byte waits in the
\* data register, the others are lost.
Overrun ==
  /\ device = "boot" /\ delay # "no"
  /\ toDevice # <<>>
  /\ toDevice' = Tail(toDevice)
  /\ delay' = "full"
  /\ UNCHANGED <<device, loop, FunCode, buffCounter, debris, image, resets,
                 interrupted, raced, toPc>>

\* The byte in the data register is the next to be collected.
DelayOver ==
  /\ delay' = "no"
  /\ \/ /\ delay = "yes"
        /\ UNCHANGED <<FunCode, buffCounter, debris, image, toPc>>
     \/ /\ delay = "full"
        /\ Collect(Size - 1)
        /\ \E answer \in Verdicts(0, Size - 1, FALSE) :
             IF answer = "bad" THEN Reply(Byte("0xaa")) ELSE UNCHANGED toPc
        /\ UNCHANGED <<FunCode, image>>
  /\ UNCHANGED <<device, loop, resets, interrupted, raced, toDevice>>

\* An answer is lost on its way.
LoseAnswer ==
  /\ toPc # <<>>
  /\ toPc' = Tail(toPc)
  /\ UNCHANGED <<toDevice, deviceVars>>

-----------------------------------------------------------------------------
(* main, and resets.                                                       *)

\* Mutant of CheckFunCode: the five seconds are not stopped by a frame.
CheckTimeOnly ==
  /\ device = "boot" /\ delay = "no"
  /\ loop = "loop" /\ loop' = "jump"
  /\ UNCHANGED <<device, FunCode, buffCounter, debris, delay, image, resets,
                 interrupted, raced, linkVars>>

\* Nothing arrived for five seconds, or function 3 did.
CheckFunCode ==
  /\ device = "boot" /\ delay = "no"
  /\ loop = "loop" /\ FunCode \in {0, 3}
  /\ loop' = "jump"
  /\ UNCHANGED <<device, FunCode, buffCounter, debris, delay, image, resets,
                 interrupted, raced, linkVars>>

\* JumpToAddr starts the application, or returns if the stack top of the image
\* is not legal.  The interrupt can have come since the check.
StartApp ==
  /\ device = "boot" /\ delay = "no"
  /\ loop = "jump" /\ loop' = "loop"
  /\ device' \in {"boot", "app"}
  /\ UNCHANGED <<FunCode, buffCounter, debris, delay, image, resets,
                 interrupted, raced, linkVars>>

\* The application ignores the messages of a download ...
AppReceive ==
  /\ device = "app"
  /\ toDevice # <<>>
  /\ toDevice' = Tail(toDevice)
  /\ UNCHANGED <<toPc, deviceVars>>

\* ... and sends its own, any byte of which can be the first that a handler reads.
AppSends ==
  /\ device = "app"
  /\ \E b \in {"0x55", "0xaa", "other"} : Reply(Byte(b))
  /\ UNCHANGED <<toDevice, deviceVars>>

Restart(newImage) ==
  /\ resets < MaxResets
  /\ resets' = resets + 1
  /\ device' = "boot"
  /\ loop' = "loop"
  /\ FunCode' = 0
  /\ buffCounter' = 0
  /\ debris' = FALSE
  /\ delay' = "no"
  /\ image' = newImage
  /\ interrupted' = (interrupted \/ Mixed \/ newImage # image)
  /\ UNCHANGED raced

\* A power loss, or the reset the application makes on request.
Reset == Restart(image) /\ UNCHANGED linkVars

\* A power loss while a frame is written: its page has been erased, and what
\* was programmed of it is not all.
PowerLossInWrite ==
  /\ device = "boot" /\ delay = "no"
  /\ toDevice # <<>>
  /\ Verdicts(2, 0, FALSE) = {"good"}
  /\ LET m == Head(toDevice)
         page(f) == (f - 1) \div PageFrames
     IN /\ m.fun = 2
        /\ Restart([f \in 1..Frames |->
                      IF page(f) = page(m.frame) THEN Torn ELSE image[f]])
  /\ toDevice' = Tail(toDevice)
  /\ UNCHANGED toPc

DeviceStep == Receive \/ Overrun \/ DelayOver \/ AppReceive
=============================================================================
