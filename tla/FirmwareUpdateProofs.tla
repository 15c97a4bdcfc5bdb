------------------------- MODULE FirmwareUpdateProofs -------------------------
(***************************************************************************)
(* Proofs about FirmwareUpdate for any number of frames, of downloads and  *)
(* of messages in transit, any size of a message and any losses: its       *)
(* types, that the frames of a download whose acknowledgements are its own *)
(* are in the flash, and that the application starts from a whole image.   *)
(*                                                                         *)
(* Both rest on the order of the link: when a frame of a download has been *)
(* stored, no message of an earlier download is left that could overwrite  *)
(* it, and when function 3 arrives all frames before it have.              *)
(***************************************************************************)
EXTENDS FirmwareUpdate, SequenceTheorems, TLAPS

-----------------------------------------------------------------------------
(* The invariant.                                                          *)

LinkType ==
  /\ toDevice \in Seq(Message) /\ Len(toDevice) <= MaxQueue
  /\ toPc \in Seq(Answer) /\ Len(toPc) <= MaxQueue

PcType ==
  /\ dl \in {"idle", "begin", "read", "send", "clear", "wait", "last",
             "finished", "failed", "crashed"}
  /\ Progress \in 0..Frames
  /\ SentFlag \in BOOLEAN /\ spare \in BOOLEAN
  /\ timer \in {"runs", "count"}
  /\ receiveBuff \in Answer \cup {Cleared, EmptyArray}
  /\ file \in 0..MaxFiles
  /\ Overtime \in 0..(MaxOvertime + file)
  /\ timer = "count" => TimerRuns
  /\ dl # "idle" => Progress # 0 /\ file # 0
  /\ dl \in {"begin", "read"} => Overtime < MaxOvertime + file
  /\ dl \in {"send", "clear", "wait", "last"} => Overtime <= MaxOvertime

BoardType ==
  /\ device \in {"boot", "app"} /\ loop \in {"loop", "jump"}
  /\ FunCode \in 0..3
  /\ buffCounter \in 0..(Size - 1)
  /\ debris \in BOOLEAN
  /\ delay \in {"no", "yes", "full"}
  /\ image \in [1..Frames -> 0..Torn]
  /\ resets \in 0..MaxResets
  /\ interrupted \in BOOLEAN /\ raced \in BOOLEAN

\* Messages arrive in the order of the downloads.
QueueInv ==
  /\ \A i \in 1..Len(toDevice) :
       /\ toDevice[i].file <= file
       /\ toDevice[i].fun = 2 => toDevice[i].frame # 0
  /\ \A i, j \in 1..Len(toDevice) :
       i <= j => toDevice[i].file <= toDevice[j].file

\* A frame that has been stored for this download, and that no message of an
\* earlier one can change any more.
Stored(f) ==
  /\ image[f] \in {file, Torn}
  /\ \A i \in 1..Len(toDevice) : toDevice[i].file = file

InTransit == {toPc[i] : i \in 1..Len(toPc)} \cup {receiveBuff}
Ack(f) == [byte |-> "0x55", frame |-> f, file |-> file]

\* An acknowledgement of a frame tells that it is stored, and so are the frames
\* that SendThread has behind it, unless it was misled.
AckInv ==
  /\ \A a \in InTransit : a.file <= file
  /\ \A f \in 1..Frames : Ack(f) \in InTransit => Stored(f)
  /\ file \notin falseAck =>
       \A f \in 1..Frames : f < Progress \/ dl \in {"last", "finished"} => Stored(f)

\* When function 3 arrives, all frames of its download are stored.
LastInv ==
  falseAck = {} =>
    \A i \in 1..Len(toDevice) : toDevice[i].fun = 3 =>
      /\ \A f \in 1..Frames : image[f] \in {toDevice[i].file, Torn}
      /\ \A j \in 1..i : toDevice[j].file = toDevice[i].file

\* main jumps to a whole image, and the application runs from one.
ImageInv ==
  /\ ~interrupted => \A f \in 1..Frames : image[f] # Torn
  /\ ~interrupted /\ falseAck = {} =>
       /\ FunCode \in {0, 3} => ~Mixed
       /\ (loop = "jump" \/ device = "app") /\ ~raced => ~Mixed

Inv ==
  /\ LinkType /\ PcType /\ BoardType
  /\ QueueInv /\ AckInv /\ LastInv /\ ImageInv

-----------------------------------------------------------------------------
(* Arithmetic and sequences.                                               *)

Assumptions == LinkAssumption /\ TimeoutAssumption /\ BufferAssumption

LEMMA Given == Assumptions
BY LinkAssumption, TimeoutAssumption, BufferAssumption DEF Assumptions

LEMMA Division ==
  ASSUME NEW a \in Nat, NEW n \in Nat \ {0}
  PROVE  /\ a \div n \in Nat
         /\ a % n \in 0..(n - 1)
         /\ a = n * (a \div n) + (a % n)
  OBVIOUS

\* The counter of the bytes wraps when the buffer is full, and only then.
LEMMA Wrap ==
  ASSUME NEW n \in Nat \ {0}, NEW b \in 0..(n - 1), NEW lost \in 0..n
  PROVE  /\ (b + n - lost) % n = IF b >= lost THEN b - lost ELSE b + n - lost
         /\ (b + n - lost) % n \in 0..(n - 1)
<1> DEFINE a == b + n - lost
           q == a \div n
           r == a % n
<1>1. a \in Nat
  OBVIOUS
<1>2. q \in Nat /\ r \in 0..(n - 1) /\ a = n * q + r
  BY <1>1, Division
<1> HIDE DEF q, r
<1>3. CASE q = 0
  BY <1>2, <1>3 DEF r
<1>4. CASE q = 1
  BY <1>2, <1>4 DEF r
<1>5. CASE q >= 2
  <2>1. n * q >= n * 2
    BY <1>2, <1>5
  <2> QED
    BY <2>1, <1>2
<1> QED
  BY <1>2, <1>3, <1>4, <1>5

LEMMA Appended ==
  ASSUME NEW S, NEW s \in Seq(S), NEW b \in S
  PROVE  /\ Append(s, b) \in Seq(S) /\ Len(Append(s, b)) = Len(s) + 1
         /\ Len(s) \in Nat
         /\ \A i \in 1..Len(s) : Append(s, b)[i] = s[i]
         /\ Append(s, b)[Len(s) + 1] = b
         /\ \A i \in 1..(Len(s) + 1) : i \in 1..Len(s) \/ i = Len(s) + 1
  OBVIOUS

LEMMA Taken ==
  ASSUME NEW S, NEW s \in Seq(S), s # <<>>
  PROVE  /\ Head(s) = s[1] /\ s[1] \in S /\ 1 \in 1..Len(s)
         /\ Tail(s) \in Seq(S) /\ Len(Tail(s)) = Len(s) - 1
         /\ Len(s) \in Nat \ {0}
         /\ \A i \in 1..Len(Tail(s)) :
              Tail(s)[i] = s[i + 1] /\ i + 1 \in 1..Len(s)
  OBVIOUS

LEMMA Emptied ==
  ASSUME NEW S
  PROVE  <<>> \in Seq(S) /\ Len(<<>>) = 0 /\ 1..0 = {}
  OBVIOUS

-----------------------------------------------------------------------------
(* Types.                                                                  *)

LEMMA ByteTypes ==
  /\ \A b \in {"0x55", "0xaa", "other"} : Byte(b) \in Answer
  /\ Cleared.byte = "0" /\ Cleared.file = 0 /\ Cleared.frame = 0
  /\ EmptyArray.byte = "none" /\ EmptyArray.file = 0 /\ EmptyArray.frame = 0
<1>1. 0 \in 0..Frames /\ 0 \in 0..MaxFiles
  BY Given DEF Assumptions, LinkAssumption
<1> QED
  BY <1>1 DEF Byte, Answer, Cleared, EmptyArray

LEMMA SendType ==
  ASSUME LinkType, NEW fun \in 1..3, NEW f \in 0..Frames, NEW k \in 0..MaxFiles,
         Send(fun, f, k)
  PROVE  LinkType'
<1> DEFINE m == [fun |-> fun, frame |-> f, file |-> k]
<1>1. m \in Message /\ toDevice \in Seq(Message)
  BY DEF Message, LinkType
<1>2. toDevice' = Append(toDevice, m) /\ toPc' = toPc /\ Len(toDevice) < MaxQueue
  BY DEF Send
<1> HIDE DEF m
<1>3. toDevice' \in Seq(Message) /\ Len(toDevice') = Len(toDevice) + 1
      /\ Len(toDevice) \in Nat
  BY <1>1, <1>2, Appended
<1>4. Len(toDevice') <= MaxQueue
  BY <1>2, <1>3, Given DEF Assumptions, LinkAssumption
<1> QED
  BY <1>2, <1>3, <1>4 DEF LinkType

LEMMA ReplyType ==
  ASSUME LinkType, NEW a \in Answer, Reply(a)
  PROVE  toPc' \in Seq(Answer) /\ Len(toPc') <= MaxQueue
<1>1. toPc \in Seq(Answer) /\ toPc' = Append(toPc, a) /\ Len(toPc) < MaxQueue
  BY DEF LinkType, Reply
<1>2. toPc' \in Seq(Answer) /\ Len(toPc') = Len(toPc) + 1 /\ Len(toPc) \in Nat
  BY <1>1, Appended
<1> QED
  BY <1>1, <1>2, Given DEF Assumptions, LinkAssumption

LEMMA TakeType ==
  ASSUME LinkType
  PROVE  /\ toDevice # <<>> => /\ Head(toDevice) \in Message
                               /\ Tail(toDevice) \in Seq(Message)
                               /\ Len(Tail(toDevice)) <= MaxQueue
         /\ toPc # <<>> => /\ Head(toPc) \in Answer
                           /\ Tail(toPc) \in Seq(Answer)
                           /\ Len(Tail(toPc)) <= MaxQueue
         /\ <<>> \in Seq(Answer) /\ Len(<<>>) <= MaxQueue
<1>1. MaxQueue \in Nat
  BY Given DEF Assumptions, LinkAssumption
<1>2. toDevice \in Seq(Message) /\ Len(toDevice) <= MaxQueue
      /\ toPc \in Seq(Answer) /\ Len(toPc) <= MaxQueue
  BY DEF LinkType
<1>3. ASSUME toDevice # <<>>
      PROVE  /\ Head(toDevice) \in Message /\ Tail(toDevice) \in Seq(Message)
             /\ Len(Tail(toDevice)) <= MaxQueue
  <2>1. /\ Head(toDevice) = toDevice[1] /\ toDevice[1] \in Message
        /\ Tail(toDevice) \in Seq(Message)
        /\ Len(Tail(toDevice)) = Len(toDevice) - 1 /\ Len(toDevice) \in Nat \ {0}
    BY <1>2, <1>3, Taken
  <2> QED
    BY <1>1, <1>2, <2>1
<1>4. ASSUME toPc # <<>>
      PROVE  /\ Head(toPc) \in Answer /\ Tail(toPc) \in Seq(Answer)
             /\ Len(Tail(toPc)) <= MaxQueue
  <2>1. /\ Head(toPc) = toPc[1] /\ toPc[1] \in Answer
        /\ Tail(toPc) \in Seq(Answer)
        /\ Len(Tail(toPc)) = Len(toPc) - 1 /\ Len(toPc) \in Nat \ {0}
    BY <1>2, <1>4, Taken
  <2> QED
    BY <1>1, <1>2, <2>1
<1>5. <<>> \in Seq(Answer) /\ Len(<<>>) <= MaxQueue
  BY <1>1, Emptied
<1> QED
  BY <1>3, <1>4, <1>5

\* SendThread, the timer and the user.
LEMMA PcTypes ==
  ASSUME PcType, LinkType,
         SendThread \/ Timeout \/ CountTimeout \/ Click
         \/ ReceiveAnswer \/ ReceiveNothing
  PROVE  PcType' /\ LinkType'
<1>1. /\ Frames \in Nat \ {0} /\ MaxFiles \in Nat /\ MaxOvertime \in Nat
      /\ Progress \in 0..Frames /\ file \in 0..MaxFiles
      /\ Overtime \in 0..(MaxOvertime + file)
  BY Given DEF Assumptions, LinkAssumption, TimeoutAssumption, PcType
<1>2. CASE Begin
  <2>1. LinkType'
    BY <1>1, <1>2, SendType DEF Begin
  <2>2. PcType'
    BY <1>2 DEF Begin, PcType, TimerRuns
  <2> QED
    BY <2>1, <2>2
<1>3. CASE ReadFrame
  <2>1. LinkType'
    BY <1>3 DEF ReadFrame, linkVars, LinkType
  <2>2. Overtime' \in 0..(MaxOvertime + file) /\ Overtime' <= MaxOvertime
    BY <1>1, <1>3 DEF ReadFrame
  <2>3. /\ SentFlag' \in BOOLEAN /\ dl = "read" /\ dl' = "send"
        /\ UNCHANGED <<Progress, timer, receiveBuff, spare, file>>
    BY <1>3 DEF ReadFrame
  <2>4. PcType'
    BY <2>2, <2>3 DEF PcType, TimerRuns
  <2> QED
    BY <2>1, <2>4
<1>4. CASE SendFrame
  <2>1. LinkType'
    BY <1>1, <1>4, SendType DEF SendFrame
  <2>2. PcType'
    BY <1>4 DEF SendFrame, PcType, TimerRuns
  <2> QED
    BY <2>1, <2>2
<1>5. CASE ClearAnswer
  <2>1. LinkType'
    BY <1>5 DEF ClearAnswer, linkVars, LinkType
  <2>2. SentFlag' \in BOOLEAN
    BY <1>5 DEF ClearAnswer
  <2>3. PcType'
    BY <1>5, <2>2 DEF ClearAnswer, PcType, TimerRuns
  <2> QED
    BY <2>1, <2>3
<1>6. CASE Crash
  BY <1>6 DEF Crash, linkVars, LinkType, PcType, TimerRuns
<1>7. CASE Rejected
  <2>1. LinkType'
    BY <1>7 DEF Rejected, linkVars, LinkType
  <2>2. SentFlag' \in BOOLEAN
    BY <1>7 DEF Rejected
  <2>3. PcType'
    BY <1>7, <2>2 DEF Rejected, PcType, TimerRuns
  <2> QED
    BY <2>1, <2>3
<1>8. CASE Accepted
  <2>1. LinkType'
    BY <1>8 DEF Accepted, linkVars, LinkType
  <2>2. file # 0 /\ Overtime <= MaxOvertime
    BY <1>8 DEF Accepted, PcType
  <2>3. Overtime < MaxOvertime + file
    BY <1>1, <2>2
  <2>4. Progress' \in 0..Frames /\ Progress' # 0 /\ dl' \in {"read", "last"}
    BY <1>1, <1>8 DEF Accepted, PcType
  <2>5. PcType'
    BY <1>8, <2>2, <2>3, <2>4 DEF Accepted, PcType, TimerRuns
  <2> QED
    BY <2>1, <2>5
<1>9. CASE SendLast
  <2>1. LinkType'
    BY <1>1, <1>9, SendType DEF SendLast
  <2>2. PcType'
    BY <1>9 DEF SendLast, PcType, TimerRuns
  <2> QED
    BY <2>1, <2>2
<1>10. CASE Timeout
  <2>1. LinkType'
    BY <1>10 DEF Timeout, linkVars, LinkType
  <2>2. SentFlag' \in BOOLEAN
    BY <1>10 DEF Timeout
  <2>3. PcType'
    BY <1>10, <2>2 DEF Timeout, PcType, TimerRuns
  <2> QED
    BY <2>1, <2>3
<1>11. CASE CountTimeout
  <2>1. LinkType'
    BY <1>11 DEF CountTimeout, linkVars, LinkType
  <2>2. TimerRuns /\ Overtime' = Overtime + 1
        /\ dl' = IF Overtime + 1 > MaxOvertime THEN "failed" ELSE dl
    BY <1>11 DEF CountTimeout, PcType
  <2>3. file # 0 /\ Overtime < MaxOvertime + file
    BY <1>1, <2>2 DEF PcType, TimerRuns
  <2>4. Overtime' \in 0..(MaxOvertime + file)
    BY <1>1, <2>2, <2>3
  <2>5. dl' # "failed" => dl' = dl /\ Overtime' <= MaxOvertime
    BY <1>1, <2>2
  <2>6. dl' # "failed" => Overtime' < MaxOvertime + file
    BY <1>1, <2>3, <2>4, <2>5
  <2>7. PcType'
    BY <1>11, <2>2, <2>3, <2>4, <2>5, <2>6 DEF CountTimeout, PcType, TimerRuns
  <2> QED
    BY <2>1, <2>7
<1>12. CASE Click
  <2>1. LinkType'
    BY <1>12 DEF Click, linkVars, LinkType
  <2>2. file' = file + 1 /\ file < MaxFiles /\ Progress' = 1 /\ dl' = "begin"
        /\ (Overtime' = Overtime \/ Overtime' = 0)
        /\ (receiveBuff' = receiveBuff \/ receiveBuff' = Cleared)
    BY <1>12 DEF Click
  <2>3. SentFlag' \in BOOLEAN /\ spare' \in BOOLEAN
    BY <1>12 DEF Click, PcType
  <2>4. /\ file' \in 0..MaxFiles /\ file' # 0 /\ Progress' \in 0..Frames
        /\ Overtime' \in 0..(MaxOvertime + file') /\ Overtime' < MaxOvertime + file'
    BY <1>1, <2>2
  <2>5. timer' = timer /\ timer # "count"
    BY <1>12 DEF Click, ShownComplete, PcType, TimerRuns
  <2>6. PcType'
    BY <2>2, <2>3, <2>4, <2>5 DEF PcType, TimerRuns
  <2> QED
    BY <2>1, <2>6
<1>13. CASE ReceiveAnswer
  <2>1. toDevice' = toDevice /\ toPc # <<>> /\ toPc' \in {Tail(toPc), <<>>}
        /\ receiveBuff' = Head(toPc)
    BY <1>13 DEF ReceiveAnswer
  <2>2. LinkType' /\ receiveBuff' \in Answer
    BY <2>1, TakeType DEF LinkType
  <2>3. spare' \in BOOLEAN
    BY <1>13 DEF ReceiveAnswer, PcType
  <2>4. PcType'
    BY <1>13, <2>2, <2>3 DEF ReceiveAnswer, PcType, TimerRuns
  <2> QED
    BY <2>2, <2>4
<1>14. CASE ReceiveNothing
  <2>1. LinkType'
    BY <1>14 DEF ReceiveNothing, linkVars, LinkType
  <2>2. spare' \in BOOLEAN
    BY <1>14 DEF ReceiveNothing
  <2>3. PcType'
    BY <1>14, <2>2 DEF ReceiveNothing, PcType, TimerRuns
  <2> QED
    BY <2>1, <2>3
<1> QED
  BY <1>2, <1>3, <1>4, <1>5, <1>6, <1>7, <1>8, <1>9, <1>10, <1>11, <1>12,
     <1>13, <1>14 DEF SendThread

LEMMA CollectType ==
  ASSUME BoardType, NEW lost \in 0..Size, Collect(lost)
  PROVE  buffCounter' \in 0..(Size - 1) /\ debris' \in BOOLEAN
<1>1. Size \in Nat \ {0} /\ Slack \in Nat
  BY Given DEF Assumptions, BufferAssumption
<1>2. buffCounter \in 0..(Size - 1) /\ debris \in BOOLEAN
  BY DEF BoardType
<1>3. buffCounter' \in 0..(Size - 1)
  BY <1>1, <1>2, Wrap DEF Collect
<1> QED
  BY <1>2, <1>3 DEF Collect

\* A message has arrived that was not lost: what the boot loader does with it.
Stores(m) ==
  /\ m.fun = 2
  /\ FunCode' = 2
  /\ image' = [image EXCEPT ![m.frame] = m.file]
  /\ raced' = (raced \/ loop = "jump")
  /\ toPc' = Append(toPc, [byte |-> "0x55", frame |-> m.frame, file |-> m.file])
Only(fun) == FunCode' = fun /\ UNCHANGED <<image, raced, toPc>>
Rejects == toPc' = Append(toPc, Byte("0xaa")) /\ UNCHANGED <<FunCode, image, raced>>

LEMMA ReceiveCases ==
  ASSUME LinkType, BoardType, Receive
  PROVE  /\ toDevice # <<>> /\ toDevice' = Tail(toDevice)
         /\ UNCHANGED <<device, loop, resets, interrupted>>
         /\ device = "boot"
         /\ buffCounter' \in 0..(Size - 1) /\ debris' \in BOOLEAN
         /\ delay' \in {"no", "yes", "full"}
         /\ toPc' \in Seq(Answer) /\ Len(toPc') <= MaxQueue
         /\ \/ Stores(Head(toDevice))
            \/ Only(1)
            \/ Only(3) /\ Head(toDevice).fun = 3
            \/ Rejects
            \/ Only(FunCode)
<1> DEFINE m == Head(toDevice)
           a == [byte |-> "0x55", frame |-> m.frame, file |-> m.file]
<1>1. PICK lost \in {0} \cup LossSizes, corrupt \in BOOLEAN :
        /\ Collect(lost)
        /\ \E verdict \in Verdicts(m.fun, lost, corrupt) : Handle(m, verdict)
  BY DEF Receive
<1>2. PICK verdict \in Verdicts(m.fun, lost, corrupt) : Handle(m, verdict)
  BY <1>1
<1>3. lost \in 0..Size
  BY Given DEF Assumptions, BufferAssumption
<1>4. buffCounter' \in 0..(Size - 1) /\ debris' \in BOOLEAN
  BY <1>1, <1>3, CollectType
<1>5. /\ toDevice # <<>> /\ toDevice' = Tail(toDevice)
      /\ UNCHANGED <<device, loop, resets, interrupted>>
      /\ device = "boot" /\ delay = "no"
  BY DEF Receive
<1>6. m \in Message
  BY <1>5, TakeType
<1>7. a \in Answer /\ Byte("0xaa") \in Answer
  BY <1>6, ByteTypes DEF Answer, Message
<1>8. toPc \in Seq(Answer) /\ Len(toPc) <= MaxQueue
  BY DEF LinkType
<1> HIDE DEF m, a
<1>9. CASE verdict = "good" /\ m.fun = 2
  <2>1. /\ FunCode' = 2 /\ delay' = delay /\ Reply(a)
        /\ image' = [image EXCEPT ![m.frame] = m.file]
    BY <1>2, <1>9 DEF Handle, a
  <2>2. toPc' = Append(toPc, a)
    BY <2>1 DEF Reply
  <2>3. raced' = (raced \/ loop = "jump")
    <3>1. verdict # "bad" /\ verdict # "none" /\ m.fun # 1 /\ m.fun # 3
      BY <1>9
    <3> QED
      BY <1>2, <3>1, Zenon DEF Handle
  <2>4. Stores(m)
    BY <1>9, <2>1, <2>2, <2>3, Zenon DEF Stores, a
  <2>5. toPc' \in Seq(Answer) /\ Len(toPc') <= MaxQueue
    BY <1>7, <2>1, ReplyType
  <2> QED
    BY <1>4, <1>5, <2>1, <2>4, <2>5 DEF m
<1>10. CASE verdict = "bad"
  <2>1. Reply(Byte("0xaa")) /\ UNCHANGED <<FunCode, image, delay, raced>>
    BY <1>2, <1>10 DEF Handle
  <2>2. Rejects
    BY <2>1 DEF Rejects, Reply
  <2>3. toPc' \in Seq(Answer) /\ Len(toPc') <= MaxQueue
    BY <1>7, <2>1, ReplyType
  <2> QED
    BY <1>4, <1>5, <2>1, <2>2, <2>3
<1>11. CASE verdict = "good" /\ m.fun = 1
  <2>1. Only(1) /\ delay' = "yes" /\ toPc' = toPc
    BY <1>2, <1>11 DEF Handle, Only
  <2> QED
    BY <1>4, <1>5, <1>8, <2>1
<1>12. CASE verdict = "good" /\ m.fun = 3
  <2>1. Only(3) /\ delay' = delay /\ toPc' = toPc
    BY <1>2, <1>12 DEF Handle, Only
  <2> QED
    BY <1>4, <1>5, <1>8, <1>12, <2>1 DEF m
<1>13. CASE verdict = "none"
  <2>1. Only(FunCode) /\ delay' = delay /\ toPc' = toPc
    BY <1>2, <1>13 DEF Handle, Only
  <2> QED
    BY <1>4, <1>5, <1>8, <2>1
<1> QED
  BY <1>2, <1>9, <1>10, <1>11, <1>12, <1>13 DEF Handle

\* A reset keeps the image, or destroys a page of it.
LEMMA RestartCases ==
  ASSUME LinkType, BoardType, Reset \/ PowerLossInWrite
  PROVE  /\ image' \in [1..Frames -> 0..Torn]
         /\ \A f \in 1..Frames : image'[f] \in {image[f], Torn}
         /\ toPc' = toPc
         /\ toDevice' = toDevice \/ (toDevice # <<>> /\ toDevice' = Tail(toDevice))
         /\ device' = "boot" /\ loop' = "loop" /\ FunCode' = 0 /\ buffCounter' = 0
         /\ debris' = FALSE /\ delay' = "no" /\ resets' \in 0..MaxResets
         /\ interrupted' \in BOOLEAN
         /\ ~interrupted' => ~interrupted /\ ~Mixed /\ image' = image
         /\ raced' = raced
<1>1. Torn \in Nat /\ image \in [1..Frames -> 0..Torn]
      /\ resets \in 0..MaxResets /\ MaxResets \in Nat
  BY Given DEF Assumptions, LinkAssumption, BufferAssumption, Torn, BoardType
<1>2. ASSUME NEW new, Restart(new)
      PROVE  /\ image' = new
             /\ device' = "boot" /\ loop' = "loop" /\ FunCode' = 0 /\ buffCounter' = 0
             /\ debris' = FALSE /\ delay' = "no" /\ resets' \in 0..MaxResets
             /\ interrupted' \in BOOLEAN
             /\ ~interrupted' => ~interrupted /\ ~Mixed /\ image' = image
             /\ raced' = raced
  <2>1. /\ image' = new /\ raced' = raced
        /\ device' = "boot" /\ loop' = "loop" /\ FunCode' = 0 /\ buffCounter' = 0
        /\ delay' = "no" /\ resets' = resets + 1 /\ resets < MaxResets
    BY <1>2 DEF Restart
  <2>2. resets' \in 0..MaxResets
    BY <1>1, <2>1
  <2>3. interrupted' = (interrupted \/ Mixed \/ new # image) /\ debris' = FALSE
    BY <1>2, Zenon DEF Restart
  <2>4. interrupted' \in BOOLEAN
    BY <2>3, Zenon
  <2>5. ~interrupted' => ~interrupted /\ ~Mixed /\ new = image
    BY <2>3, Zenon
  <2> QED
    BY <2>1, <2>2, <2>3, <2>4, <2>5
<1>3. CASE Reset
  <2>1. Restart(image) /\ toDevice' = toDevice /\ toPc' = toPc
    BY <1>3 DEF Reset, linkVars
  <2> QED
    BY <1>1, <1>2, <2>1
<1>4. CASE PowerLossInWrite
  <2> DEFINE page(f) == (f - 1) \div PageFrames
             new == [f \in 1..Frames |->
                       IF page(f) = page(Head(toDevice).frame) THEN Torn ELSE image[f]]
  <2>1. Restart(new) /\ toDevice # <<>> /\ toDevice' = Tail(toDevice) /\ toPc' = toPc
    BY <1>4 DEF PowerLossInWrite
  <2>2. new \in [1..Frames -> 0..Torn]
    BY <1>1
  <2>3. \A f \in 1..Frames : new[f] \in {image[f], Torn}
    OBVIOUS
  <2> HIDE DEF new
  <2> QED
    BY <1>2, <2>1, <2>2, <2>3
<1> QED
  BY <1>3, <1>4

\* The board and the link.
LEMMA BoardTypes ==
  ASSUME LinkType, BoardType,
         LoseAnswer \/ DeviceStep \/ CheckFunCode \/ StartApp \/ AppSends
         \/ Reset \/ PowerLossInWrite
  PROVE  LinkType' /\ BoardType'
<1>1. CASE LoseAnswer
  <2>1. LinkType'
    BY <1>1, TakeType DEF LoseAnswer, LinkType
  <2>2. BoardType'
    BY <1>1 DEF LoseAnswer, deviceVars, BoardType
  <2> QED
    BY <2>1, <2>2
<1>2. CASE Receive
  <2>1. /\ toDevice # <<>> /\ toDevice' = Tail(toDevice)
        /\ toPc' \in Seq(Answer) /\ Len(toPc') <= MaxQueue
    BY <1>2, ReceiveCases
  <2>2. LinkType'
    BY <2>1, TakeType DEF LinkType
  <2>3. FunCode' \in 0..3 /\ image' \in [1..Frames -> 0..Torn] /\ raced' \in BOOLEAN
    <3>1. FunCode \in 0..3 /\ image \in [1..Frames -> 0..Torn] /\ raced \in BOOLEAN
      BY DEF BoardType
    <3>2. CASE Stores(Head(toDevice))
      <4>1. Head(toDevice).file \in 0..Torn
        BY <2>1, TakeType, Given
        DEF Message, Torn, Assumptions, LinkAssumption
      <4>2. FunCode' = 2
            /\ image' = [image EXCEPT ![Head(toDevice).frame] = Head(toDevice).file]
        BY <3>2 DEF Stores
      <4>3. raced' = (raced \/ loop = "jump")
        BY <3>2, Zenon DEF Stores
      <4>4. raced' \in BOOLEAN
        BY <4>3, Zenon
      <4>5. image' \in [1..Frames -> 0..Torn]
        BY <3>1, <4>1, <4>2
      <4> QED
        BY <4>2, <4>4, <4>5
    <3> QED
      BY <1>2, <3>1, <3>2, ReceiveCases DEF Only, Rejects
  <2>4. BoardType'
    BY <1>2, <2>3, ReceiveCases DEF BoardType
  <2> QED
    BY <2>2, <2>4
<1>3. CASE Overrun
  <2>1. LinkType'
    BY <1>3, TakeType DEF Overrun, LinkType
  <2>2. BoardType'
    BY <1>3 DEF Overrun, BoardType
  <2> QED
    BY <2>1, <2>2
<1>4. CASE DelayOver
  <2>1. toPc' = toPc \/ Reply(Byte("0xaa"))
    BY <1>4 DEF DelayOver
  <2>2. toPc' \in Seq(Answer) /\ Len(toPc') <= MaxQueue
    BY <2>1, ByteTypes, ReplyType DEF LinkType
  <2>3. LinkType'
    BY <1>4, <2>2 DEF DelayOver, LinkType
  <2>4. buffCounter' \in 0..(Size - 1) /\ debris' \in BOOLEAN
    <3>1. Size - 1 \in 0..Size
      BY Given DEF Assumptions, BufferAssumption
    <3>2. CASE Collect(Size - 1)
      BY <3>1, <3>2, CollectType
    <3> QED
      BY <1>4, <3>2 DEF DelayOver, BoardType
  <2>5. BoardType'
    BY <1>4, <2>4 DEF DelayOver, BoardType
  <2> QED
    BY <2>3, <2>5
<1>5. CASE AppReceive
  <2>1. LinkType'
    BY <1>5, TakeType DEF AppReceive, LinkType
  <2>2. BoardType'
    BY <1>5 DEF AppReceive, deviceVars, BoardType
  <2> QED
    BY <2>1, <2>2
<1>6. CASE AppSends
  <2>1. PICK b \in {"0x55", "0xaa", "other"} : Reply(Byte(b))
    BY <1>6 DEF AppSends
  <2>2. LinkType'
    BY <1>6, <2>1, ByteTypes, ReplyType DEF AppSends, LinkType
  <2>3. BoardType'
    BY <1>6 DEF AppSends, deviceVars, BoardType
  <2> QED
    BY <2>2, <2>3
<1>7. CASE CheckFunCode \/ StartApp
  BY <1>7 DEF CheckFunCode, StartApp, linkVars, LinkType, BoardType
<1>8. CASE Reset \/ PowerLossInWrite
  <2>1. LinkType'
    BY <1>8, RestartCases, TakeType DEF LinkType
  <2>2. debris' \in BOOLEAN /\ interrupted' \in BOOLEAN /\ raced' \in BOOLEAN
    BY <1>8, RestartCases, Zenon DEF BoardType
  <2>3. /\ device' = "boot" /\ loop' = "loop" /\ FunCode' = 0 /\ buffCounter' = 0
        /\ delay' = "no" /\ resets' \in 0..MaxResets
        /\ image' \in [1..Frames -> 0..Torn]
    BY <1>8, RestartCases
  <2>4. 0 \in 0..(Size - 1)
    BY Given DEF Assumptions, BufferAssumption
  <2>5. BoardType'
    BY <2>2, <2>3, <2>4 DEF BoardType
  <2> QED
    BY <2>1, <2>5
<1> QED
  BY <1>1, <1>2, <1>3, <1>4, <1>5, <1>6, <1>7, <1>8 DEF DeviceStep

-----------------------------------------------------------------------------
(* What a step does to the queues and to the image.                        *)

Types == LinkType /\ PcType /\ BoardType

\* The link loses its first message, or nothing happens to it.
Fewer == toDevice' = toDevice \/ (toDevice # <<>> /\ toDevice' = Tail(toDevice))

\* A frame gets torn, or becomes one of the file of the first message.
Overwrites ==
  \A f \in 1..Frames :
    \/ image'[f] \in {image[f], Torn}
    \/ toDevice # <<>> /\ image'[f] = Head(toDevice).file

\* The PC gets an answer that acknowledges no frame, or the one just stored.
NewAnswer(a) ==
  \/ a.frame = 0 /\ a.file <= file
  \/ /\ toDevice # <<>> /\ toDevice' = Tail(toDevice)
     /\ a.file = Head(toDevice).file
     /\ a.frame \in 1..Frames => image'[a.frame] = a.file

\* The steps after which each message is an earlier one, or one of this download.
LEMMA MessagesKept ==
  ASSUME LinkType, Fewer
  PROVE  /\ Len(toDevice') \in Nat
         /\ \/ toDevice' = toDevice
            \/ /\ Len(toDevice') = Len(toDevice) - 1
               /\ \A i \in 1..Len(toDevice') :
                    toDevice'[i] = toDevice[i + 1] /\ i + 1 \in 1..Len(toDevice)
<1>1. toDevice \in Seq(Message) /\ Len(toDevice) \in Nat
  BY DEF LinkType
<1>2. CASE toDevice' = toDevice
  BY <1>1, <1>2
<1>3. CASE toDevice # <<>> /\ toDevice' = Tail(toDevice)
  <2>1. /\ Len(Tail(toDevice)) = Len(toDevice) - 1 /\ Len(toDevice) \in Nat \ {0}
        /\ \A i \in 1..Len(Tail(toDevice)) :
             Tail(toDevice)[i] = toDevice[i + 1] /\ i + 1 \in 1..Len(toDevice)
    BY <1>1, <1>3, Taken
  <2>2. Len(toDevice') \in Nat /\ Len(toDevice') = Len(toDevice) - 1
    BY <1>3, <2>1
  <2>3. \A i \in 1..Len(toDevice') :
          toDevice'[i] = toDevice[i + 1] /\ i + 1 \in 1..Len(toDevice)
    BY <1>3, <2>1, Zenon
  <2> QED
    BY <2>2, <2>3
<1> QED
  BY <1>2, <1>3 DEF Fewer

LEMMA MessageAdded ==
  ASSUME LinkType, PcType, NEW fun \in 1..3, NEW f \in 0..Frames, Send(fun, f, file)
  PROVE  /\ Len(toDevice) \in Nat /\ Len(toDevice') = Len(toDevice) + 1
         /\ \A i \in 1..Len(toDevice) : toDevice'[i] = toDevice[i]
         /\ toDevice'[Len(toDevice) + 1] = [fun |-> fun, frame |-> f, file |-> file]
         /\ \A i \in 1..Len(toDevice') : i \in 1..Len(toDevice) \/ i = Len(toDevice) + 1
<1> DEFINE m == [fun |-> fun, frame |-> f, file |-> file]
<1>1. m \in Message /\ toDevice \in Seq(Message)
  BY DEF Message, LinkType, PcType
<1>2. toDevice' = Append(toDevice, m)
  BY DEF Send
<1> HIDE DEF m
<1>3. /\ Len(Append(toDevice, m)) = Len(toDevice) + 1
      /\ Len(toDevice) \in Nat
      /\ \A i \in 1..Len(toDevice) : Append(toDevice, m)[i] = toDevice[i]
      /\ Append(toDevice, m)[Len(toDevice) + 1] = m
      /\ \A i \in 1..(Len(toDevice) + 1) : i \in 1..Len(toDevice) \/ i = Len(toDevice) + 1
  BY <1>1, Appended
<1> QED
  BY <1>2, <1>3 DEF m

LEMMA HeadFacts ==
  ASSUME LinkType, QueueInv, toDevice # <<>>
  PROVE  /\ 1 \in 1..Len(toDevice) /\ Head(toDevice) = toDevice[1]
         /\ Head(toDevice) \in Message
         /\ Head(toDevice).file <= file
         /\ Head(toDevice).fun = 2 => Head(toDevice).frame \in 1..Frames
         /\ \A i \in 1..Len(toDevice) : Head(toDevice).file <= toDevice[i].file
<1>1. toDevice \in Seq(Message)
  BY DEF LinkType
<1>2. Head(toDevice) = toDevice[1] /\ toDevice[1] \in Message /\ 1 \in 1..Len(toDevice)
      /\ Len(toDevice) \in Nat
  BY <1>1, Taken
<1>3. Head(toDevice).frame \in 0..Frames
  BY <1>2 DEF Message
<1>4. toDevice[1].file <= file /\ (toDevice[1].fun = 2 => toDevice[1].frame # 0)
  BY <1>2 DEF QueueInv
<1>5. \A i \in 1..Len(toDevice) : toDevice[1].file <= toDevice[i].file
  BY <1>2 DEF QueueInv
<1>6. toDevice[1].fun = 2 => toDevice[1].frame \in 1..Frames
  BY <1>2, <1>3, <1>4, Given DEF Assumptions, LinkAssumption
<1> QED
  BY <1>2, <1>4, <1>5, <1>6

LEMMA QueueKept ==
  ASSUME Types, Types', QueueInv, Fewer, file' >= file
  PROVE  QueueInv'
<1>1. file \in Nat /\ file' \in Nat /\ MaxFiles \in Nat
  BY Given DEF Types, PcType, Assumptions, LinkAssumption
<1>2. toDevice \in Seq(Message) /\ Len(toDevice) \in Nat
  BY DEF Types, LinkType
<1>3. ASSUME NEW i \in 1..Len(toDevice)
      PROVE  toDevice[i].file <= file'
  <2>1. toDevice[i] \in Message
    BY <1>2
  <2>2. toDevice[i].file \in Nat
    BY <2>1, Given DEF Message, Assumptions, LinkAssumption
  <2> QED
    BY <1>1, <2>2 DEF QueueInv
<1>4. CASE toDevice' = toDevice
  BY <1>3, <1>4 DEF QueueInv
<1>5. CASE /\ Len(toDevice') = Len(toDevice) - 1
           /\ \A i \in 1..Len(toDevice') :
                toDevice'[i] = toDevice[i + 1] /\ i + 1 \in 1..Len(toDevice)
  <2>1. \A i \in 1..Len(toDevice') :
          /\ toDevice'[i].file <= file'
          /\ toDevice'[i].fun = 2 => toDevice'[i].frame # 0
    BY <1>1, <1>3, <1>5 DEF QueueInv
  <2>2. ASSUME NEW i \in 1..Len(toDevice'), NEW j \in 1..Len(toDevice'), i <= j
        PROVE  toDevice'[i].file <= toDevice'[j].file
    <3>1. i + 1 \in 1..Len(toDevice) /\ j + 1 \in 1..Len(toDevice) /\ i + 1 <= j + 1
      BY <1>2, <1>5, <2>2
    <3> QED
      BY <1>5, <3>1 DEF QueueInv
  <2> QED
    BY <2>1, <2>2 DEF QueueInv
<1> QED
  BY <1>4, <1>5, MessagesKept DEF Types

LEMMA QueueSent ==
  ASSUME Types, QueueInv, NEW fun \in 1..3, NEW f \in 0..Frames,
         Send(fun, f, file), file' = file, fun = 2 => f # 0
  PROVE  QueueInv'
<1>1. /\ Len(toDevice) \in Nat /\ Len(toDevice') = Len(toDevice) + 1
      /\ \A i \in 1..Len(toDevice) : toDevice'[i] = toDevice[i]
      /\ toDevice'[Len(toDevice) + 1] = [fun |-> fun, frame |-> f, file |-> file]
      /\ \A i \in 1..Len(toDevice') : i \in 1..Len(toDevice) \/ i = Len(toDevice) + 1
  BY MessageAdded DEF Types
<1>2. file \in Nat
  BY Given DEF Types, PcType, Assumptions, LinkAssumption
<1>3. \A i \in 1..Len(toDevice') :
        /\ toDevice'[i].file <= file'
        /\ toDevice'[i].fun = 2 => toDevice'[i].frame # 0
  BY <1>1, <1>2 DEF QueueInv
<1>4. ASSUME NEW i \in 1..Len(toDevice'), NEW j \in 1..Len(toDevice'), i <= j
      PROVE  toDevice'[i].file <= toDevice'[j].file
  <2>1. CASE j \in 1..Len(toDevice)
    <3>1. i \in 1..Len(toDevice)
      BY <1>1, <1>4, <2>1
    <3> QED
      BY <1>1, <1>4, <2>1, <3>1 DEF QueueInv
  <2>2. CASE j = Len(toDevice) + 1
    BY <1>1, <1>2, <1>3, <2>2
  <2> QED
    BY <1>1, <2>1, <2>2
<1> QED
  BY <1>3, <1>4 DEF QueueInv

\* What has been stored stays, whatever arrives: all that is on its way is of the
\* same download.
LEMMA StoredKept ==
  ASSUME Types, QueueInv, Fewer, Overwrites, file' = file,
         NEW f \in 1..Frames, Stored(f)
  PROVE  Stored(f)'
<1>1. image[f] \in {file, Torn} /\ \A i \in 1..Len(toDevice) : toDevice[i].file = file
  BY DEF Stored
<1>2. toDevice # <<>> => Head(toDevice).file = file
  BY <1>1, HeadFacts DEF Types
<1>3. image'[f] \in {file, Torn}
  BY <1>1, <1>2 DEF Overwrites
<1>4. \A i \in 1..Len(toDevice') : toDevice'[i].file = file
  BY <1>1, MessagesKept DEF Types
<1> QED
  BY <1>3, <1>4 DEF Stored, Torn

LEMMA AckKept ==
  ASSUME Types, Types', QueueInv, AckInv, Fewer, Overwrites,
         UNCHANGED <<file, falseAck, Progress>>,
         dl' \in {"last", "finished"} => dl \in {"last", "finished"},
         \A a \in InTransit' : a \in InTransit \/ NewAnswer(a)
  PROVE  AckInv'
<1>1. file \in Nat /\ Frames \in Nat /\ MaxFiles \in Nat
  BY Given DEF Types, PcType, Assumptions, LinkAssumption
<1>2. ASSUME NEW a \in InTransit' PROVE a.file <= file'
  <2>1. CASE a \in InTransit
    BY <2>1 DEF AckInv
  <2>2. CASE NewAnswer(a)
    BY <2>2, HeadFacts DEF NewAnswer, Types
  <2> QED
    BY <1>2, <2>1, <2>2
<1>3. ASSUME NEW f \in 1..Frames, Ack(f)' \in InTransit' PROVE Stored(f)'
  <2> DEFINE a == [byte |-> "0x55", frame |-> f, file |-> file]
  <2>1. a = Ack(f) /\ a = Ack(f)' /\ a.frame = f /\ a.file = file
    BY DEF Ack
  <2> HIDE DEF a
  <2>2. CASE a \in InTransit
    BY <2>1, <2>2, StoredKept DEF AckInv
  <2>3. CASE NewAnswer(a)
    <3>1. f # 0
      BY <1>1
    <3>2. toDevice # <<>> /\ toDevice' = Tail(toDevice)
          /\ Head(toDevice).file = file /\ image'[f] = file
      BY <2>1, <2>3, <3>1 DEF NewAnswer
    <3>3. \A i \in 1..Len(toDevice') : toDevice'[i] = Tail(toDevice)[i]
                                      /\ Tail(toDevice)[i] = toDevice[i + 1]
                                      /\ i + 1 \in 1..Len(toDevice)
      BY <3>2, Taken DEF Types, LinkType
    <3>4. ASSUME NEW i \in 1..Len(toDevice') PROVE toDevice'[i].file = file
      <4>1. i + 1 \in 1..Len(toDevice) /\ toDevice'[i] = toDevice[i + 1]
        BY <3>3
      <4>2. file <= toDevice[i + 1].file /\ toDevice[i + 1].file <= file
        BY <3>2, <4>1, HeadFacts DEF QueueInv, Types
      <4>3. toDevice[i + 1] \in Message
        BY <4>1 DEF Types, LinkType
      <4>4. toDevice[i + 1].file \in Nat
        BY <4>3, <1>1 DEF Message
      <4> QED
        BY <1>1, <4>1, <4>2, <4>4
    <3> QED
      BY <3>2, <3>4 DEF Stored
  <2> QED
    BY <1>3, <2>1, <2>2, <2>3
<1>4. ASSUME file' \notin falseAck', NEW f \in 1..Frames,
             f < Progress' \/ dl' \in {"last", "finished"}
      PROVE  Stored(f)'
  BY <1>4, StoredKept DEF AckInv
<1> QED
  BY <1>2, <1>3, <1>4 DEF AckInv

\* A message of this download that is sent changes nothing about it.
LEMMA StoredSent ==
  ASSUME Types, NEW fun \in 1..3, NEW k \in 0..Frames, Send(fun, k, file),
         file' = file, image' = image, NEW f \in 1..Frames, Stored(f)
  PROVE  Stored(f)'
<1>1. /\ Len(toDevice) \in Nat /\ Len(toDevice') = Len(toDevice) + 1
      /\ \A i \in 1..Len(toDevice) : toDevice'[i] = toDevice[i]
      /\ toDevice'[Len(toDevice) + 1] = [fun |-> fun, frame |-> k, file |-> file]
      /\ \A i \in 1..Len(toDevice') : i \in 1..Len(toDevice) \/ i = Len(toDevice) + 1
  BY MessageAdded DEF Types
<1>2. image[f] \in {file, Torn} /\ \A i \in 1..Len(toDevice) : toDevice[i].file = file
  BY DEF Stored
<1>3. \A i \in 1..Len(toDevice') : toDevice'[i].file = file
  BY <1>1, <1>2
<1> QED
  BY <1>2, <1>3 DEF Stored, Torn

LEMMA AckSent ==
  ASSUME Types, AckInv, NEW fun \in 1..3, NEW k \in 0..Frames, Send(fun, k, file),
         UNCHANGED <<file, falseAck, Progress, image, receiveBuff>>,
         dl' \in {"last", "finished"} => dl \in {"last", "finished"}
  PROVE  AckInv'
<1>1. InTransit' = InTransit
  BY DEF InTransit, Send
<1>2. \A f \in 1..Frames : Stored(f) => Stored(f)'
  BY StoredSent
<1>3. \A f : Ack(f)' = Ack(f)
  BY DEF Ack
<1>4. \A a \in InTransit' : a.file <= file'
  BY <1>1 DEF AckInv
<1>5. ASSUME NEW f \in 1..Frames, Ack(f)' \in InTransit' PROVE Stored(f)'
  BY <1>1, <1>2, <1>3, <1>5 DEF AckInv
<1>6. ASSUME file' \notin falseAck', NEW f \in 1..Frames,
             f < Progress' \/ dl' \in {"last", "finished"}
      PROVE  Stored(f)'
  BY <1>2, <1>6 DEF AckInv
<1> QED
  BY <1>4, <1>5, <1>6 DEF AckInv

LEMMA LastKept ==
  ASSUME Types, QueueInv, LastInv, Fewer, Overwrites, falseAck' = {} => falseAck = {}
  PROVE  LastInv'
<1> SUFFICES ASSUME falseAck' = {}, NEW i \in 1..Len(toDevice'), toDevice'[i].fun = 3
             PROVE  /\ \A f \in 1..Frames : image'[f] \in {toDevice'[i].file, Torn}
                    /\ \A j \in 1..i : toDevice'[j].file = toDevice'[i].file
  BY DEF LastInv, Torn
<1>1. \A k \in 1..Len(toDevice) : toDevice[k].fun = 3 =>
        /\ \A f \in 1..Frames : image[f] \in {toDevice[k].file, Torn}
        /\ \A j \in 1..k : toDevice[j].file = toDevice[k].file
  BY DEF LastInv
<1>2. toDevice \in Seq(Message) /\ Len(toDevice) \in Nat /\ Len(toDevice') \in Nat
  BY MessagesKept DEF Types, LinkType
<1>3. PICK k \in 1..Len(toDevice) :
        /\ toDevice'[i] = toDevice[k]
        /\ \A j \in 1..i : \E l \in 1..k : toDevice'[j] = toDevice[l]
  <2>1. CASE toDevice' = toDevice
    BY <1>2, <2>1
  <2>2. CASE \A j \in 1..Len(toDevice') :
               toDevice'[j] = toDevice[j + 1] /\ j + 1 \in 1..Len(toDevice)
    <3>1. ASSUME NEW j \in 1..i
          PROVE  j + 1 \in 1..(i + 1) /\ toDevice'[j] = toDevice[j + 1]
      BY <1>2, <2>2
    <3> QED
      BY <2>2, <3>1
  <2> QED
    BY <2>1, <2>2, MessagesKept DEF Types
<1>4. \A j \in 1..i : toDevice'[j].file = toDevice[k].file
  BY <1>1, <1>3
<1>5. toDevice # <<>> => Head(toDevice).file = toDevice[k].file
  <2>1. 1 \in 1..k
    BY <1>2
  <2> QED
    BY <1>1, <1>3, <2>1, HeadFacts DEF Types
<1>6. \A f \in 1..Frames : image'[f] \in {toDevice[k].file, Torn}
  BY <1>1, <1>3, <1>5 DEF Overwrites
<1> QED
  BY <1>3, <1>4, <1>6

LEMMA LastSent ==
  ASSUME Types, LastInv, NEW fun \in {1, 2}, NEW k \in 0..Frames, Send(fun, k, file),
         UNCHANGED <<image, falseAck>>
  PROVE  LastInv'
<1> SUFFICES ASSUME falseAck' = {}, NEW i \in 1..Len(toDevice'), toDevice'[i].fun = 3
             PROVE  /\ \A f \in 1..Frames : image'[f] \in {toDevice'[i].file, Torn}
                    /\ \A j \in 1..i : toDevice'[j].file = toDevice'[i].file
  BY DEF LastInv, Torn
<1>1. /\ Len(toDevice) \in Nat /\ Len(toDevice') = Len(toDevice) + 1
      /\ \A j \in 1..Len(toDevice) : toDevice'[j] = toDevice[j]
      /\ toDevice'[Len(toDevice) + 1] = [fun |-> fun, frame |-> k, file |-> file]
      /\ \A j \in 1..Len(toDevice') : j \in 1..Len(toDevice) \/ j = Len(toDevice) + 1
  BY MessageAdded DEF Types
<1>2. i \in 1..Len(toDevice)
  BY <1>1
<1>3. \A j \in 1..i : toDevice'[j] = toDevice[j]
  BY <1>1, <1>2
<1> QED
  BY <1>1, <1>2, <1>3 DEF LastInv

\* As long as the board and falseAck do not change, or only falseAck grows.
LEMMA ImageKept ==
  ASSUME ImageInv, falseAck' = {} => falseAck = {}, UNCHANGED deviceVars
  PROVE  ImageInv'
BY DEF ImageInv, deviceVars, Mixed, Holds, Torn

-----------------------------------------------------------------------------
(* The steps.                                                              *)

Order == QueueInv /\ AckInv /\ LastInv /\ ImageInv

\* Steps of the PC that send nothing, and neither begin nor accept a frame.
LEMMA QuietOrder ==
  ASSUME Types, Types', Order, UNCHANGED <<toDevice, deviceVars, file, falseAck, Progress>>,
         dl' \in {"last", "finished"} => dl \in {"last", "finished"},
         \A a \in InTransit' : a \in InTransit \/ NewAnswer(a)
  PROVE  Order'
<1>1. Fewer /\ image' = image
  BY DEF Fewer, deviceVars
<1>2. Overwrites
  BY <1>1 DEF Overwrites
<1>3. file \in Nat /\ file' = file
  BY Given DEF Types, PcType, Assumptions, LinkAssumption
<1>4. QueueInv'
  BY <1>1, <1>3, QueueKept DEF Order
<1>5. AckInv'
  BY <1>1, <1>2, AckKept DEF Order
<1>6. LastInv'
  BY <1>1, <1>2, LastKept DEF Order
<1>7. ImageInv'
  BY ImageKept DEF Order
<1> QED
  BY <1>4, <1>5, <1>6, <1>7 DEF Order

LEMMA QuietStep ==
  ASSUME Types, Types', Order, UNCHANGED deviceVars,
         ReadFrame \/ ClearAnswer \/ Crash \/ Rejected \/ Timeout \/ CountTimeout
         \/ ReceiveNothing
  PROVE  Order'
<1> DEFINE Steps == ReadFrame \/ ClearAnswer \/ Crash \/ Rejected \/ Timeout
                    \/ CountTimeout \/ ReceiveNothing
<1>1. UNCHANGED <<toDevice, toPc, file, falseAck, Progress>>
  BY DEF ReadFrame, ClearAnswer, Crash, Rejected, Timeout, CountTimeout,
         ReceiveNothing, linkVars
<1>2. receiveBuff' \in {receiveBuff, Cleared, EmptyArray}
  BY DEF ReadFrame, ClearAnswer, Crash, Rejected, Timeout, CountTimeout,
         ReceiveNothing
<1>3. dl' \in {"last", "finished"} => dl \in {"last", "finished"}
  BY DEF ReadFrame, ClearAnswer, Crash, Rejected, Timeout, CountTimeout,
         ReceiveNothing
<1>4. ASSUME NEW a \in InTransit' PROVE a \in InTransit \/ NewAnswer(a)
  <2>1. a \in InTransit \/ a \in {Cleared, EmptyArray}
    BY <1>1, <1>2, <1>4 DEF InTransit
  <2>2. file \in Nat
    BY Given DEF Types, PcType, Assumptions, LinkAssumption
  <2>3. a \in {Cleared, EmptyArray} => a.frame = 0 /\ a.file <= file
    BY <2>2, ByteTypes
  <2> QED
    BY <2>1, <2>3 DEF NewAnswer
<1> QED
  BY <1>1, <1>3, <1>4, QuietOrder

LEMMA ReceiveAnswerStep ==
  ASSUME Types, Types', Order, UNCHANGED deviceVars, ReceiveAnswer
  PROVE  Order'
<1>1. /\ UNCHANGED <<toDevice, file, falseAck, Progress, dl>>
      /\ toPc # <<>> /\ receiveBuff' = Head(toPc) /\ toPc' \in {Tail(toPc), <<>>}
  BY DEF ReceiveAnswer
<1>2. toPc \in Seq(Answer)
  BY DEF Types, LinkType
<1>3. /\ Head(toPc) = toPc[1] /\ 1 \in 1..Len(toPc)
      /\ \A i \in 1..Len(Tail(toPc)) : Tail(toPc)[i] = toPc[i + 1] /\ i + 1 \in 1..Len(toPc)
  BY <1>1, <1>2, Taken
<1>4. \A i \in 1..Len(toPc') : toPc'[i] \in {toPc[j] : j \in 1..Len(toPc)}
  BY <1>1, <1>3, Emptied
<1>5. \A a \in InTransit' : a \in InTransit
  BY <1>1, <1>3, <1>4 DEF InTransit
<1> QED
  BY <1>1, <1>5, QuietOrder

LEMMA SendStep ==
  ASSUME Types, Types', Order, UNCHANGED deviceVars, Begin \/ SendFrame
  PROVE  Order'
<1>1. UNCHANGED <<file, falseAck, Progress, receiveBuff, image>>
      /\ dl' \notin {"last", "finished"}
  BY DEF Begin, SendFrame, deviceVars
<1>2. Frames \in Nat /\ Progress \in 0..Frames
  BY Given DEF Types, PcType, Assumptions, LinkAssumption
<1>3. PICK fun \in {1, 2}, k \in 0..Frames : Send(fun, k, file) /\ (fun = 2 => k # 0)
  <2>1. CASE Begin
    BY <1>2, <2>1 DEF Begin
  <2>2. CASE SendFrame
    BY <1>2, <2>2 DEF SendFrame, Types, PcType
  <2> QED
    BY <2>1, <2>2
<1>4. QueueInv'
  BY <1>1, <1>3, QueueSent DEF Order
<1>5. AckInv'
  BY <1>1, <1>3, AckSent DEF Order
<1>6. LastInv'
  BY <1>1, <1>3, LastSent DEF Order
<1>7. ImageInv'
  BY <1>1, ImageKept DEF Order
<1> QED
  BY <1>4, <1>5, <1>6, <1>7 DEF Order

\* When SendThread sends function 3, all frames are stored or it was misled.
LEMMA SendLastStep ==
  ASSUME Types, Types', Order, UNCHANGED deviceVars, SendLast
  PROVE  Order'
<1>1. /\ UNCHANGED <<file, falseAck, Progress, receiveBuff, image>>
      /\ dl = "last" /\ Send(3, 0, file)
  BY DEF SendLast, deviceVars
<1>2. Frames \in Nat \ {0} /\ 0 \in 0..Frames
  BY Given DEF Assumptions, LinkAssumption
<1>3. QueueInv'
  BY <1>1, <1>2, QueueSent DEF Order
<1>4. AckInv'
  BY <1>1, <1>2, AckSent DEF Order
<1>5. LastInv'
  <2> SUFFICES ASSUME falseAck' = {}, NEW i \in 1..Len(toDevice'), toDevice'[i].fun = 3
               PROVE  /\ \A f \in 1..Frames : image'[f] \in {toDevice'[i].file, Torn}
                      /\ \A j \in 1..i : toDevice'[j].file = toDevice'[i].file
    BY DEF LastInv, Torn
  <2>1. \A f \in 1..Frames : Stored(f)
    BY <1>1 DEF Order, AckInv
  <2>2. \A f \in 1..Frames : Stored(f)'
    BY <1>1, <1>2, <2>1, StoredSent
  <2>3. 1 \in 1..Frames
    BY <1>2
  <2>4. \A j \in 1..Len(toDevice') : toDevice'[j].file = file
    BY <1>1, <2>2, <2>3 DEF Stored
  <2>5. Len(toDevice') \in Nat
    BY <1>1, <1>2, MessageAdded DEF Types
  <2> QED
    BY <1>1, <2>2, <2>4, <2>5 DEF Stored, Torn
<1>6. ImageInv'
  BY <1>1, ImageKept DEF Order
<1> QED
  BY <1>3, <1>4, <1>5, <1>6 DEF Order

\* The acknowledgement of the frame that was sent tells that it is stored.
LEMMA AcceptedStep ==
  ASSUME Types, Types', Order, UNCHANGED deviceVars, Accepted
  PROVE  Order'
<1>1. /\ receiveBuff.byte = "0x55"
      /\ UNCHANGED <<file, receiveBuff, toDevice, toPc, image>>
      /\ falseAck' = IF receiveBuff.file = file /\ receiveBuff.frame = Progress
                     THEN falseAck ELSE falseAck \cup {file}
      /\ \/ Progress < Frames /\ Progress' = Progress + 1 /\ dl' = "read"
         \/ ~(Progress < Frames) /\ dl' = "last" /\ Progress' = Progress
  BY DEF Accepted, linkVars, deviceVars
<1>2. Frames \in Nat /\ Progress \in 0..Frames
  BY Given DEF Types, PcType, Assumptions, LinkAssumption
<1>3. Fewer /\ (falseAck' = {} => falseAck = {})
  BY <1>1 DEF Fewer
<1>4. Overwrites
  BY <1>1 DEF Overwrites
<1>5. file \in Nat /\ file' = file
  BY <1>1, Given DEF Types, PcType, Assumptions, LinkAssumption
<1>6. QueueInv'
  BY <1>3, <1>5, QueueKept DEF Order
<1>7. \A f \in 1..Frames : Stored(f) <=> Stored(f)'
  BY <1>1 DEF Stored, Torn
<1>8. ASSUME file' \notin falseAck', NEW f \in 1..Frames,
             f < Progress' \/ dl' \in {"last", "finished"}
      PROVE  Stored(f)
  <2>1. file \notin falseAck /\ receiveBuff.file = file /\ receiveBuff.frame = Progress
    BY <1>1, <1>8
  <2>2. f < Progress \/ f = Progress
    BY <1>1, <1>2, <1>8
  <2>3. CASE f < Progress
    BY <2>1, <2>3 DEF Order, AckInv
  <2>4. CASE f = Progress
    <3>1. receiveBuff \in Answer
      BY <1>1, ByteTypes DEF Types, PcType
    <3>2. receiveBuff = Ack(f)
      BY <1>1, <2>1, <2>4, <3>1 DEF Answer, Ack
    <3> QED
      BY <3>2 DEF Order, AckInv, InTransit
  <2> QED
    BY <2>2, <2>3, <2>4
<1>9. AckInv'
  <2>1. InTransit' = InTransit
    BY <1>1 DEF InTransit
  <2>2. \A f : Ack(f)' = Ack(f)
    BY <1>1 DEF Ack
  <2>3. \A a \in InTransit' : a.file <= file'
    BY <1>1, <2>1 DEF Order, AckInv
  <2>4. \A f \in 1..Frames : Ack(f)' \in InTransit' => Stored(f)'
    BY <1>7, <2>1, <2>2 DEF Order, AckInv
  <2> QED
    BY <1>7, <1>8, <2>3, <2>4 DEF AckInv
<1>10. LastInv'
  BY <1>3, <1>4, LastKept DEF Order
<1>11. ImageInv'
  BY <1>3, ImageKept DEF Order
<1> QED
  BY <1>6, <1>9, <1>10, <1>11 DEF Order

\* Nothing in transit is of the download that begins.
LEMMA ClickStep ==
  ASSUME Types, Types', Order, UNCHANGED deviceVars, Click
  PROVE  Order'
<1>1. /\ file' = file + 1 /\ Progress' = 1 /\ dl' = "begin"
      /\ receiveBuff' \in {receiveBuff, Cleared}
      /\ UNCHANGED <<falseAck, toDevice, toPc, image>>
  BY DEF Click, linkVars, deviceVars
<1>2. file \in Nat /\ Frames \in Nat /\ MaxFiles \in Nat
  BY Given DEF Types, PcType, Assumptions, LinkAssumption
<1>3. Fewer
  BY <1>1 DEF Fewer
<1>4. Overwrites
  BY <1>1 DEF Overwrites
<1>5. QueueInv'
  BY <1>1, <1>2, <1>3, QueueKept DEF Order
<1>6. ASSUME NEW a \in InTransit' PROVE a.file \in Nat /\ a.file < file'
  <2>1. a \in InTransit \/ a = Cleared
    BY <1>1, <1>6 DEF InTransit
  <2>2. CASE a \in InTransit
    <3>1. a \in Answer \cup {Cleared, EmptyArray}
      BY <2>2 DEF InTransit, Types, LinkType, PcType
    <3>2. a.file \in Nat
      BY <1>2, <3>1, ByteTypes DEF Answer
    <3> QED
      BY <1>1, <1>2, <2>2, <3>2 DEF Order, AckInv
  <2>3. CASE a = Cleared
    BY <1>1, <1>2, <2>3, ByteTypes
  <2> QED
    BY <2>1, <2>2, <2>3
<1>7. AckInv'
  <2>1. ASSUME NEW a \in InTransit' PROVE a.file <= file'
    BY <1>1, <1>2, <1>6, <2>1
  <2>2. ASSUME NEW f \in 1..Frames, Ack(f)' \in InTransit' PROVE Stored(f)'
    <3>1. Ack(f)'.file = file'
      BY DEF Ack
    <3>2. Ack(f)'.file < file'
      BY <1>6, <2>2
    <3> QED
      BY <1>1, <1>2, <3>1, <3>2
  <2>3. \A f \in 1..Frames : ~(f < Progress' \/ dl' \in {"last", "finished"})
    BY <1>1, <1>2
  <2> QED
    BY <2>1, <2>2, <2>3 DEF AckInv
<1>8. LastInv'
  BY <1>1, <1>3, <1>4, LastKept DEF Order
<1>9. ImageInv'
  BY <1>1, ImageKept DEF Order
<1> QED
  BY <1>5, <1>7, <1>8, <1>9 DEF Order

\* A step of the board or of the link keeps the order of what is in transit.
LEMMA BoardOrder ==
  ASSUME Types, Types', Order, UNCHANGED pcVars, Fewer, Overwrites,
         \A a \in InTransit' : a \in InTransit \/ NewAnswer(a)
  PROVE  QueueInv' /\ AckInv' /\ LastInv'
<1>1. UNCHANGED <<file, falseAck, Progress, dl>>
  BY DEF pcVars
<1>2. file \in Nat /\ file' = file
  BY <1>1, Given DEF Types, PcType, Assumptions, LinkAssumption
<1>3. QueueInv'
  BY <1>2, QueueKept DEF Order
<1>4. AckInv'
  BY <1>1, AckKept DEF Order
<1>5. LastInv'
  BY <1>1, LastKept DEF Order
<1> QED
  BY <1>3, <1>4, <1>5

LEMMA AnswerSent ==
  ASSUME LinkType, UNCHANGED pcVars, NEW b \in Answer, toPc' = Append(toPc, b)
  PROVE  \A a \in InTransit' : a \in InTransit \/ a = b
<1>1. /\ \A i \in 1..Len(toPc) : Append(toPc, b)[i] = toPc[i]
      /\ Append(toPc, b)[Len(toPc) + 1] = b
      /\ Len(Append(toPc, b)) = Len(toPc) + 1
      /\ \A i \in 1..(Len(toPc) + 1) : i \in 1..Len(toPc) \/ i = Len(toPc) + 1
  BY Appended DEF LinkType
<1>2. receiveBuff' = receiveBuff
  BY DEF pcVars
<1> QED
  BY <1>1, <1>2 DEF InTransit

LEMMA ByteAnswer ==
  ASSUME Types, NEW b \in {"0x55", "0xaa", "other"}
  PROVE  Byte(b) \in Answer /\ NewAnswer(Byte(b))
<1>1. file \in Nat
  BY Given DEF Types, PcType, Assumptions, LinkAssumption
<1> QED
  BY <1>1, ByteTypes DEF NewAnswer, Byte

\* The steps of the board and of the link but those that change the image.
LEMMA BoardStep ==
  ASSUME Types, Types', Order, UNCHANGED pcVars,
         LoseAnswer \/ Overrun \/ DelayOver \/ AppReceive \/ AppSends
         \/ CheckFunCode \/ StartApp
  PROVE  Order'
<1>1. UNCHANGED <<FunCode, image, interrupted, raced>>
  BY DEF LoseAnswer, Overrun, DelayOver, AppReceive, AppSends, CheckFunCode,
         StartApp, deviceVars
<1>2. Fewer
  BY DEF Fewer, LoseAnswer, Overrun, DelayOver, AppReceive, AppSends, CheckFunCode,
         StartApp, linkVars
<1>3. Overwrites
  BY <1>1 DEF Overwrites
<1>4. \/ toPc' = toPc
      \/ toPc # <<>> /\ toPc' = Tail(toPc)
      \/ \E b \in {"0x55", "0xaa", "other"} : toPc' = Append(toPc, Byte(b))
  BY DEF LoseAnswer, Overrun, DelayOver, AppReceive, AppSends, CheckFunCode,
         StartApp, linkVars, Reply
<1>5. ASSUME NEW a \in InTransit' PROVE a \in InTransit \/ NewAnswer(a)
  <2>1. receiveBuff' = receiveBuff
    BY DEF pcVars
  <2>2. CASE toPc' = toPc
    BY <1>5, <2>1, <2>2 DEF InTransit
  <2>3. CASE toPc # <<>> /\ toPc' = Tail(toPc)
    <3>1. \A i \in 1..Len(Tail(toPc)) :
            Tail(toPc)[i] = toPc[i + 1] /\ i + 1 \in 1..Len(toPc)
      BY <2>3, Taken DEF Types, LinkType
    <3> QED
      BY <1>5, <2>1, <2>3, <3>1 DEF InTransit
  <2>4. ASSUME NEW b \in {"0x55", "0xaa", "other"}, toPc' = Append(toPc, Byte(b))
        PROVE  a \in InTransit \/ NewAnswer(a)
    <3>1. Byte(b) \in Answer /\ NewAnswer(Byte(b))
      BY ByteAnswer
    <3>2. a \in InTransit \/ a = Byte(b)
      BY <1>5, <2>4, <3>1, AnswerSent DEF Types
    <3> QED
      BY <3>1, <3>2
  <2> QED
    BY <1>4, <2>2, <2>3, <2>4
<1>6. QueueInv' /\ AckInv' /\ LastInv'
  BY <1>2, <1>3, <1>5, BoardOrder
<1>7. loop' = "jump" \/ device' = "app"
        => (loop = "jump" \/ device = "app") \/ FunCode \in {0, 3}
  BY DEF LoseAnswer, Overrun, DelayOver, AppReceive, AppSends, CheckFunCode,
         StartApp, deviceVars
<1>8. falseAck' = falseAck
  BY DEF pcVars
<1>9. Mixed' <=> Mixed
  BY <1>1 DEF Mixed, Holds
<1>10. FunCode' = FunCode /\ image' = image /\ (interrupted' <=> interrupted)
       /\ (raced' <=> raced)
  BY <1>1, Zenon
<1>11. ASSUME ~interrupted', falseAck' = {},
              FunCode' \in {0, 3} \/ ((loop' = "jump" \/ device' = "app") /\ ~raced')
       PROVE  ~Mixed'
  BY <1>7, <1>8, <1>9, <1>10, <1>11 DEF Order, ImageInv
<1>12. ASSUME ~interrupted', NEW f \in 1..Frames PROVE image'[f] # Torn'
  <2>1. ~interrupted /\ image'[f] = image[f] /\ Torn' = Torn
    BY <1>10, <1>12 DEF Torn
  <2> QED
    BY <2>1 DEF Order, ImageInv
<1>13. ImageInv'
  BY <1>11, <1>12 DEF ImageInv
<1> QED
  BY <1>6, <1>13 DEF Order

LEMMA ReceiveStep ==
  ASSUME Types, Types', Order, UNCHANGED pcVars, Receive
  PROVE  Order'
<1> DEFINE m == Head(toDevice)
<1>1. /\ toDevice # <<>> /\ toDevice' = Tail(toDevice)
      /\ UNCHANGED <<device, loop, interrupted>> /\ device = "boot"
      /\ \/ Stores(m) \/ Only(1) \/ (Only(3) /\ m.fun = 3) \/ Rejects \/ Only(FunCode)
  <2>1. LinkType /\ BoardType
    BY DEF Types
  <2>2. UNCHANGED <<device, loop, interrupted>> /\ device = "boot"
    BY DEF Receive
  <2>3. /\ toDevice # <<>> /\ toDevice' = Tail(toDevice)
        /\ \/ Stores(m) \/ Only(1) \/ (Only(3) /\ m.fun = 3) \/ Rejects \/ Only(FunCode)
    BY <2>1, ReceiveCases
  <2> QED
    BY <2>2, <2>3, Zenon
<1>2. /\ 1 \in 1..Len(toDevice) /\ m = toDevice[1]
      /\ m \in Message /\ m.file <= file
      /\ m.fun = 2 => m.frame \in 1..Frames
  BY <1>1, HeadFacts DEF Types, Order
<1>3. UNCHANGED <<file, falseAck, receiveBuff>>
  BY DEF pcVars
<1>4. Fewer
  BY <1>1 DEF Fewer
<1>5. image \in [1..Frames -> 0..Torn] /\ MaxFiles \in Nat
  BY Given DEF Types, BoardType, Assumptions, LinkAssumption
<1> HIDE DEF m
<1>6. CASE Stores(m)
  <2> DEFINE b == [byte |-> "0x55", frame |-> m.frame, file |-> m.file]
  <2>1. /\ m.fun = 2 /\ FunCode' = 2 /\ toPc' = Append(toPc, b)
        /\ image' = [image EXCEPT ![m.frame] = m.file]
    BY <1>6 DEF Stores
  <2>2. raced' = (raced \/ loop = "jump")
    BY <1>6, Zenon DEF Stores
  <2>3. m.frame \in 1..Frames /\ image'[m.frame] = m.file
        /\ \A f \in 1..Frames : f # m.frame => image'[f] = image[f]
    BY <1>2, <1>5, <2>1
  <2>4. Overwrites
    BY <1>1, <2>3 DEF Overwrites, m
  <2>5. NewAnswer(b) /\ b \in Answer
    BY <1>1, <1>2, <2>3 DEF NewAnswer, m, Answer, Message
  <2> HIDE DEF b
  <2>6. \A a \in InTransit' : a \in InTransit \/ NewAnswer(a)
    BY <2>1, <2>5, AnswerSent DEF Types
  <2>7. QueueInv' /\ AckInv' /\ LastInv'
    BY <1>4, <2>4, <2>6, BoardOrder
  <2>8. m.file # Torn
    BY <1>2, <1>5 DEF Message, Torn
  <2>9. \A f \in 1..Frames : image[f] # Torn => image'[f] # Torn'
    BY <2>3, <2>8 DEF Torn
  <2>10. (loop' = "jump" \/ device' = "app") => raced'
    BY <1>1, <2>2, Zenon
  <2>11. ImageInv'
    BY <1>1, <2>1, <2>9, <2>10 DEF Order, ImageInv
  <2> QED
    BY <2>7, <2>11 DEF Order
<1>7. CASE Only(1) \/ (Only(3) /\ m.fun = 3) \/ Rejects \/ Only(FunCode)
  <2>1. UNCHANGED <<image, raced>>
    BY <1>7 DEF Only, Rejects
  <2>2. Overwrites
    BY <2>1 DEF Overwrites
  <2>3. ASSUME NEW a \in InTransit' PROVE a \in InTransit \/ NewAnswer(a)
    <3>1. CASE toPc' = toPc
      BY <1>3, <2>3, <3>1 DEF InTransit
    <3>2. CASE Rejects
      <4>1. toPc' = Append(toPc, Byte("0xaa"))
        BY <3>2 DEF Rejects
      <4>2. Byte("0xaa") \in Answer /\ NewAnswer(Byte("0xaa"))
        BY ByteAnswer
      <4> QED
        BY <2>3, <4>1, <4>2, AnswerSent DEF Types
    <3> QED
      BY <1>7, <3>1, <3>2 DEF Only
  <2>4. QueueInv' /\ AckInv' /\ LastInv'
    BY <1>4, <2>2, <2>3, BoardOrder
  <2>5. Mixed' <=> Mixed
    BY <2>1 DEF Mixed, Holds
  <2>6. ASSUME ~interrupted, falseAck = {}, FunCode' \in {0, 3} PROVE ~Mixed
    <3>1. CASE FunCode \in {0, 3}
      BY <2>6, <3>1 DEF Order, ImageInv
    <3>2. CASE Only(3) /\ m.fun = 3
      <4>1. \A f \in 1..Frames : image[f] \in {m.file, Torn}
        BY <1>2, <2>6, <3>2 DEF Order, LastInv
      <4>2. \A f \in 1..Frames : image[f] # Torn
        BY <2>6 DEF Order, ImageInv
      <4>3. Holds(m.file) /\ m.file \in 0..MaxFiles
        BY <1>2, <4>1, <4>2 DEF Holds, Message
      <4> QED
        BY <4>3 DEF Mixed
    <3> QED
      BY <1>7, <2>6, <3>1, <3>2 DEF Only, Rejects
  <2>7. ImageInv'
    BY <1>1, <1>3, <2>1, <2>5, <2>6 DEF Order, ImageInv, Torn
  <2> QED
    BY <2>4, <2>7 DEF Order
<1> QED
  BY <1>1, <1>6, <1>7

LEMMA ResetStep ==
  ASSUME Types, Types', Order, UNCHANGED pcVars, Reset \/ PowerLossInWrite
  PROVE  Order'
<1>1. /\ \A f \in 1..Frames : image'[f] \in {image[f], Torn}
      /\ toPc' = toPc
      /\ toDevice' = toDevice \/ (toDevice # <<>> /\ toDevice' = Tail(toDevice))
      /\ ~interrupted' => ~interrupted /\ ~Mixed /\ image' = image
  BY RestartCases DEF Types
<1>2. Fewer /\ Overwrites
  BY <1>1 DEF Fewer, Overwrites
<1>3. UNCHANGED <<falseAck, receiveBuff>>
  BY DEF pcVars
<1>4. \A a \in InTransit' : a \in InTransit
  BY <1>1, <1>3 DEF InTransit
<1>5. QueueInv' /\ AckInv' /\ LastInv'
  BY <1>2, <1>4, BoardOrder
<1>6. ASSUME ~interrupted'
      PROVE  ~Mixed' /\ \A f \in 1..Frames : image'[f] # Torn'
  <2>1. ~interrupted /\ ~Mixed /\ image' = image
    BY <1>1, <1>6
  <2>2. \A f \in 1..Frames : image[f] # Torn
    BY <2>1 DEF Order, ImageInv
  <2> QED
    BY <2>1, <2>2 DEF Mixed, Holds, Torn
<1>7. ImageInv'
  BY <1>6 DEF ImageInv
<1> QED
  BY <1>5, <1>7 DEF Order

-----------------------------------------------------------------------------
(* The invariant, and the theorems.                                        *)

LEMMA InitTypes == Init => Types
<1> SUFFICES ASSUME Init PROVE Types
  OBVIOUS
<1>1. /\ 0 \in 0..Frames /\ 0 \in 0..MaxFiles /\ 0 \in 0..(MaxOvertime + 0)
      /\ 0 \in 0..(Size - 1) /\ 0 \in 0..MaxResets /\ 0 \in 0..Torn /\ 0 <= MaxQueue
  BY Given DEF Assumptions, LinkAssumption, TimeoutAssumption, BufferAssumption, Torn
<1>2. LinkType
  BY <1>1, Emptied DEF Init, LinkInit, LinkType
<1>3. SentFlag \in BOOLEAN /\ spare \in BOOLEAN
  BY DEF Init, DownloaderInit
<1>4. PcType
  BY <1>1, <1>3 DEF Init, DownloaderInit, PcType, TimerRuns
<1>5. debris \in BOOLEAN /\ interrupted \in BOOLEAN /\ raced \in BOOLEAN
  BY DEF Init, BootloaderInit
<1>6. image \in [1..Frames -> 0..Torn]
  BY <1>1 DEF Init, BootloaderInit
<1>7. BoardType
  BY <1>1, <1>5, <1>6 DEF Init, BootloaderInit, BoardType
<1> QED
  BY <1>2, <1>4, <1>7 DEF Types

LEMMA InitOrder == Init => Order
<1> SUFFICES ASSUME Init PROVE Order
  OBVIOUS
<1>1. /\ toDevice = <<>> /\ toPc = <<>> /\ file = 0 /\ dl = "idle" /\ Progress = 0
      /\ receiveBuff = Cleared /\ image = [f \in 1..Frames |-> 0]
  BY DEF Init, LinkInit, DownloaderInit, BootloaderInit
<1>2. Frames \in Nat /\ MaxFiles \in Nat
  BY Given DEF Assumptions, LinkAssumption
<1>3. Len(toDevice) = 0 /\ Len(toPc) = 0 /\ 1..0 = {}
  BY <1>1, Emptied
<1>4. QueueInv /\ LastInv
  BY <1>3 DEF QueueInv, LastInv
<1>5. AckInv
  <2>1. InTransit = {Cleared}
    BY <1>1, <1>3 DEF InTransit
  <2>2. \A f \in 1..Frames : Ack(f) # Cleared
    <3>1. \A f : Ack(f).byte = "0x55"
      BY DEF Ack
    <3> QED
      BY <3>1, ByteTypes
  <2> QED
    BY <1>1, <1>2, <2>1, <2>2, ByteTypes DEF AckInv
<1>6. ImageInv
  <2>1. \A f \in 1..Frames : image[f] = 0 /\ image[f] # Torn
    BY <1>1, <1>2 DEF Torn
  <2>2. Holds(0) /\ 0 \in 0..MaxFiles
    BY <1>2, <2>1 DEF Holds
  <2> QED
    BY <2>1, <2>2 DEF ImageInv, Mixed
<1> QED
  BY <1>4, <1>5, <1>6 DEF Order

LEMMA StepTypes == Types /\ Next => Types'
<1> SUFFICES ASSUME Types, Next PROVE Types'
  OBVIOUS
<1>1. CASE PcSends \/ PcTimeout \/ PcCounts \/ PcClick \/ PcReceives
  <2>1. PcType' /\ LinkType'
    BY <1>1, PcTypes
    DEF Types, PcSends, PcTimeout, PcCounts, PcClick, PcReceives
  <2>2. UNCHANGED deviceVars
    BY <1>1 DEF PcSends, PcTimeout, PcCounts, PcClick, PcReceives
  <2>3. BoardType'
    BY <2>2 DEF Types, BoardType, deviceVars
  <2> QED
    BY <2>1, <2>3 DEF Types
<1>2. CASE LinkStep \/ BoardReceives \/ BoardRuns \/ BoardResets
  <2>1. LinkType' /\ BoardType'
    BY <1>2, BoardTypes
    DEF Types, LinkStep, BoardReceives, BoardRuns, BoardResets
  <2>2. UNCHANGED pcVars
    BY <1>2 DEF LinkStep, BoardReceives, BoardRuns, BoardResets
  <2>3. PcType'
    BY <2>2 DEF Types, PcType, TimerRuns, pcVars
  <2> QED
    BY <2>1, <2>3 DEF Types
<1> QED
  BY <1>1, <1>2 DEF Next

LEMMA StepOrder == Types /\ Types' /\ Order /\ Next => Order'
<1> SUFFICES ASSUME Types, Types', Order, Next PROVE Order'
  OBVIOUS
<1>1. CASE PcSends
  BY <1>1, SendStep, SendLastStep, AcceptedStep, QuietStep DEF PcSends, SendThread
<1>2. CASE PcReceives
  BY <1>2, ReceiveAnswerStep, QuietStep DEF PcReceives
<1>3. CASE PcTimeout \/ PcCounts
  BY <1>3, QuietStep DEF PcTimeout, PcCounts
<1>4. CASE PcClick
  BY <1>4, ClickStep DEF PcClick
<1>5. CASE LinkStep
  BY <1>5, BoardStep DEF LinkStep
<1>6. CASE BoardReceives
  BY <1>6, ReceiveStep, BoardStep DEF BoardReceives, DeviceStep
<1>7. CASE BoardRuns
  BY <1>7, BoardStep DEF BoardRuns
<1>8. CASE BoardResets
  BY <1>8, ResetStep DEF BoardResets
<1> QED
  BY <1>1, <1>2, <1>3, <1>4, <1>5, <1>6, <1>7, <1>8 DEF Next

LEMMA Stutter == Types /\ Order /\ UNCHANGED vars => Types' /\ Order'
<1> SUFFICES ASSUME Types, Order, UNCHANGED vars PROVE Types' /\ Order'
  OBVIOUS
<1>1. UNCHANGED <<linkVars, pcVars, deviceVars>>
  BY DEF vars
<1>2. UNCHANGED <<toDevice, toPc, dl, Progress, Overtime, receiveBuff, file, falseAck>>
  BY <1>1 DEF linkVars, pcVars
<1>3. Types'
  <2>1. LinkType'
    BY <1>2 DEF Types, LinkType
  <2>2. PcType'
    BY <1>1 DEF Types, PcType, pcVars, TimerRuns
  <2>3. BoardType'
    BY <1>1 DEF Types, BoardType, deviceVars
  <2> QED
    BY <2>1, <2>2, <2>3 DEF Types
<1>4. \A a \in InTransit' : a \in InTransit
  BY <1>2 DEF InTransit
<1>5. Order'
  BY <1>1, <1>2, <1>3, <1>4, QuietOrder
<1> QED
  BY <1>3, <1>5

LEMMA Invariance == Spec => [](Types /\ Order)
<1>1. Init => Types /\ Order
  BY InitTypes, InitOrder
<1>2. Types /\ Order /\ [Next]_vars => Types' /\ Order'
  BY StepTypes, StepOrder, Stutter
<1> QED
  BY <1>1, <1>2, PTL DEF Spec

\* The types of the downloader, of the link and of the boot loader, the bound of
\* Overtime over all downloads, and that of the receive buffer (uart.c:171).
THEOREM TypeCorrect == Spec => []UpdateTypeOK
<1>1. Types => UpdateTypeOK
  BY DEF Types, LinkType, PcType, BoardType, UpdateTypeOK
<1> QED
  BY <1>1, Invariance, PTL

\* When the last frame has been acknowledged, every frame in the flash is of the
\* file sent, or torn since, unless the PC took another answer for that of the
\* frame it sent (Form1.cs:308).
THEOREM CompleteStored == Spec => []CompleteMeansStored
<1>1. Types /\ Order => CompleteMeansStored
  BY DEF Order, AckInv, Stored, CompleteMeansStored
<1> QED
  BY <1>1, Invariance, PTL

\* The application starts from a whole image (USER/main.c:32, 40), unless a reset
\* interrupted a download, the PC was misled by an answer, or a frame was stored
\* after the check of main.
THEOREM StartsWhole == Spec => []StartedWhole
<1>1. Order => StartedWhole
  BY DEF Order, ImageInv, StartedWhole
<1> QED
  BY <1>1, Invariance, PTL
=============================================================================
