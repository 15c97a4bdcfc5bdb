---------------------------- MODULE LockTaskProofs ----------------------------
(***************************************************************************)
(* Proofs about LockTask for any page size and number of pages, any set of *)
(* cards and any table that lies in one page: first what a write of the    *)
(* flash driver that stays in one page has done to the memory at each of   *)
(* its steps, then the invariant of the task, and that it implements       *)
(* CardLock.                                                               *)
(***************************************************************************)
EXTENDS LockTask, SequenceTheorems, TLAPS

-----------------------------------------------------------------------------
(* The invariant of the flash driver.                                      *)

\* The writes the driver is used for: into the cells of one page.
InPage(a, buf) ==
  /\ a \in Cells
  /\ buf \in Seq(Half)
  /\ buf # <<>>
  /\ (a % PageSize) + Len(buf) <= PageSize

PageCells(p) == (p * PageSize)..(p * PageSize + PageSize - 1)

Target == Stored(call.before, call.cell, call.buf)

CallInv ==
  /\ mem \in [Cells -> Half]
  /\ phase \in {"idle", "page", "program"}
  /\ call.before \in [Cells -> Half]
  /\ call.cell \in Cells
  /\ call.buf \in Seq(Half)

\* The locals of a write are those BeginWrite computed, until it ends.
JobInv ==
  /\ phase = "idle" => job = NoJob
  /\ phase # "idle" =>
       /\ InPage(call.cell, call.buf)
       /\ job = [addr |-> 2 * call.cell, buf |-> call.buf,
                 page |-> call.cell \div PageSize,
                 off |-> call.cell % PageSize, remain |-> Len(call.buf)]

\* The cells that remain to be programmed, first to last, are erased, and all
\* the others hold what they should in the end.  They reach beyond the buffer
\* only if a cell under the buffer was in use.
Remaining(first, last) ==
  /\ first <= last + 1
  /\ last >= call.cell + Len(call.buf) - 1
  /\ first..last \subseteq PageCells(call.cell \div PageSize)
  /\ first..last \subseteq Cells
  /\ program = [i \in 1..(last - first + 1) |->
                  <<first + i - 1, Target[first + i - 1]>>]
  /\ mem = [c \in Cells |-> IF c \in first..last THEN Blank ELSE Target[c]]
  /\ \/ first..last \subseteq Covered
     \/ \E d \in Covered : call.before[d] # Blank

ProgressInv ==
  /\ phase = "idle" => mem = Target /\ program = <<>>
  /\ phase = "page" => mem = call.before /\ program = <<>>
  /\ phase = "program" => \E first, last \in Nat : Remaining(first, last)

FlashInv == CallInv /\ JobInv /\ ProgressInv

-----------------------------------------------------------------------------
\* Division by the page size, as multiplication.
LEMMA Division ==
  ASSUME NEW a \in Nat, NEW n \in Nat \ {0}
  PROVE  /\ a \div n \in Nat
         /\ a % n \in 0..(n - 1)
         /\ a = n * (a \div n) + (a % n)
  OBVIOUS

LEMMA Product ==
  ASSUME NEW m \in Nat, NEW n \in Nat, NEW k \in Nat, m <= n
  PROVE  k * m <= k * n
  OBVIOUS

LEMMA PageOf ==
  ASSUME FlashAssumption, NEW c \in Nat, NEW p \in Nat
  PROVE  c \div PageSize = p <=> c \in PageCells(p)
<1> DEFINE q == c \div PageSize
           r == c % PageSize
<1>1. /\ PageSize \in Nat \ {0} /\ q \in Nat /\ r \in 0..(PageSize - 1)
      /\ c = PageSize * q + r
  BY Division DEF FlashAssumption
<1>2. /\ p * PageSize = PageSize * p
      /\ PageSize * (q + 1) = PageSize * q + PageSize
      /\ PageSize * (p + 1) = PageSize * p + PageSize
  BY <1>1
<1>3. /\ PageSize * q \in Nat /\ PageSize * p \in Nat
  BY <1>1
<1> HIDE DEF q, r
<1>4. CASE q = p
  BY <1>1, <1>2, <1>3, <1>4 DEF PageCells, q
<1>5. CASE q < p
  <2>1. PageSize * (q + 1) <= PageSize * p
    BY <1>1, <1>5, Product
  <2> QED
    BY <1>1, <1>2, <1>3, <1>5, <2>1 DEF PageCells, q
<1>6. CASE p < q
  <2>1. PageSize * (p + 1) <= PageSize * q
    BY <1>1, <1>6, Product
  <2> QED
    BY <1>1, <1>2, <1>3, <1>6, <2>1 DEF PageCells, q
<1> QED
  BY <1>1, <1>4, <1>5, <1>6

\* A page that has a cell of the flash lies in the flash.
LEMMA WholePage ==
  ASSUME FlashAssumption, NEW c \in Cells
  PROVE  /\ c \in Nat
         /\ c \div PageSize \in 0..(Pages - 1)
         /\ c % PageSize \in 0..(PageSize - 1)
         /\ c = (c \div PageSize) * PageSize + (c % PageSize)
         /\ PageCells(c \div PageSize) \subseteq Cells
<1> DEFINE q == c \div PageSize
           r == c % PageSize
<1>1. PageSize \in Nat \ {0} /\ Pages \in Nat \ {0} /\ c \in Nat
      /\ Pages * PageSize \in Nat /\ c < Pages * PageSize
  BY DEF FlashAssumption, Cells
<1>2. /\ q \in Nat /\ r \in 0..(PageSize - 1) /\ c = PageSize * q + r
  BY <1>1, Division
<1> HIDE DEF q, r
<1>3. PageSize * q \in Nat /\ q * PageSize = PageSize * q
      /\ Pages * PageSize = PageSize * Pages
  BY <1>1, <1>2
<1>4. q < Pages
  <2>1. SUFFICES ASSUME Pages <= q PROVE FALSE
    BY <1>1, <1>2
  <2>2. PageSize * Pages <= PageSize * q
    BY <1>1, <1>2, <2>1, Product
  <2> QED
    BY <1>1, <1>2, <1>3, <2>2
<1>5. PageSize * (q + 1) <= PageSize * Pages
  BY <1>1, <1>2, <1>4, Product
<1>6. PageSize * (q + 1) = PageSize * q + PageSize
  BY <1>1, <1>2
<1>7. PageCells(q) \subseteq Cells
  BY <1>1, <1>2, <1>3, <1>5, <1>6 DEF PageCells, Cells
<1> QED
  BY <1>1, <1>2, <1>3, <1>4, <1>7 DEF q, r

LEMMA FirstCell ==
  ASSUME FlashAssumption
  PROVE  0 \in Cells
<1>1. Pages * PageSize >= PageSize * 1
  BY Product DEF FlashAssumption
<1> QED
  BY <1>1 DEF FlashAssumption, Cells

\* The cells a write covers, and its page, in the terms of its locals.
LEMMA Footprint ==
  ASSUME FlashAssumption, NEW a \in Cells, NEW buf \in Seq(Half),
         InPage(a, buf)
  PROVE  /\ Len(buf) \in 1..PageSize
         /\ AtMost(Len(buf), PageSize - (a % PageSize)) = Len(buf)
         /\ (a \div PageSize) * PageSize + (a % PageSize) = a
         /\ a..(a + Len(buf) - 1) \subseteq PageCells(a \div PageSize)
         /\ a..(a + Len(buf) - 1) \subseteq Cells
         /\ (2 * a) % 2 = 0 /\ (2 * a) \div 2 = a
<1>1. Len(buf) \in Nat /\ Len(buf) # 0
  BY LenProperties, EmptySeq DEF InPage
<1>2. /\ a \in Nat
      /\ a \div PageSize \in 0..(Pages - 1)
      /\ a % PageSize \in 0..(PageSize - 1)
      /\ a = (a \div PageSize) * PageSize + (a % PageSize)
      /\ PageCells(a \div PageSize) \subseteq Cells
  BY WholePage
<1>3. PageSize \in Nat /\ (a \div PageSize) * PageSize \in Nat
      /\ Pages \in Nat
  BY <1>2 DEF FlashAssumption
<1>4. (a % PageSize) + Len(buf) <= PageSize
  BY DEF InPage
<1>5. a..(a + Len(buf) - 1) \subseteq PageCells(a \div PageSize)
  BY <1>1, <1>2, <1>3, <1>4 DEF PageCells
<1>6. (2 * a) % 2 = 0 /\ (2 * a) \div 2 = a
  BY <1>2
<1>7. AtMost(Len(buf), PageSize - (a % PageSize)) = Len(buf)
  BY <1>1, <1>2, <1>3, <1>4 DEF AtMost
<1>8. Len(buf) \in 1..PageSize
  BY <1>1, <1>2, <1>3, <1>4
<1> QED
  BY <1>2, <1>5, <1>6, <1>7, <1>8

\* What a stored buffer makes of the memory.
LEMMA StoredCells ==
  ASSUME NEW m \in [Cells -> Half], NEW a \in Nat, NEW buf \in Seq(Half)
  PROVE  /\ Stored(m, a, buf) \in [Cells -> Half]
         /\ \A c \in Cells : c \in a..(a + Len(buf) - 1)
              => Stored(m, a, buf)[c] = buf[c - a + 1]
         /\ \A c \in Cells : c \notin a..(a + Len(buf) - 1)
              => Stored(m, a, buf)[c] = m[c]
<1>1. Len(buf) \in Nat
  BY LenProperties
<1>2. \A c \in Cells : c \in Int
  BY DEF Cells
<1>3. \A c \in Cells : c - a \in 0..(Len(buf) - 1)
                       <=> c \in a..(a + Len(buf) - 1)
  BY <1>1, <1>2
<1>4. \A c \in Cells : c \in a..(a + Len(buf) - 1) => buf[c - a + 1] \in Half
  <2> SUFFICES ASSUME NEW c \in Cells, c \in a..(a + Len(buf) - 1)
               PROVE  buf[c - a + 1] \in Half
    OBVIOUS
  <2>1. c - a + 1 \in 1..Len(buf)
    BY <1>1, <1>2
  <2> QED
    BY <2>1, ElementOfSeq
<1>5. Stored(m, a, buf) \in [Cells -> Half]
  BY <1>3, <1>4 DEF Stored
<1> QED
  BY <1>3, <1>5 DEF Stored

-----------------------------------------------------------------------------
(* What each step of the driver does to FlashInv.                          *)

LEMMA NothingStored ==
  ASSUME NEW m \in [Cells -> Half], NEW a \in Nat
  PROVE  Stored(m, a, <<>>) = m
<1> SUFFICES ASSUME NEW c \in Cells
             PROVE  c - a \notin 0..(Len(<<>>) - 1)
  BY DEF Stored
<1>1. 0..(Len(<<>>) - 1) = {}
  BY EmptySeq
<1> QED
  BY <1>1

LEMMA IdleInv ==
  ASSUME FlashAssumption,
         mem' \in [Cells -> Half], phase' = "idle", job' = NoJob,
         program' = <<>>, call' = NoCall(mem')
  PROVE  FlashInv'
<1>1. /\ call'.before = mem' /\ call'.cell = 0 /\ call'.buf = <<>>
      /\ call'.cell \in Cells /\ call'.buf \in Seq(Half)
  BY FirstCell, EmptySeq DEF NoCall
<1>2. CallInv'
  BY <1>1 DEF CallInv
<1>3. Target' = mem'
  BY <1>1, NothingStored DEF Target
<1> QED
  BY <1>2, <1>3 DEF FlashInv, JobInv, ProgressInv

LEMMA FlashInitInv ==
  ASSUME FlashAssumption, FlashInit
  PROVE  FlashInv
<1>1. /\ mem \in [Cells -> Half]
      /\ call.before = mem /\ call.cell = 0 /\ call.buf = <<>>
      /\ call.cell \in Cells /\ call.buf \in Seq(Half)
  BY FirstCell, EmptySeq DEF NoCall, FlashInit, FlashAssumption
<1>2. CallInv
  BY <1>1 DEF CallInv, FlashInit
<1>3. Target = mem
  BY <1>1, NothingStored DEF Target
<1> QED
  BY <1>2, <1>3 DEF FlashInv, JobInv, ProgressInv, FlashInit

LEMMA ResetKeeps ==
  ASSUME FlashAssumption, FlashInv, FlashReset
  PROVE  FlashInv'
BY IdleInv DEF FlashInv, CallInv, FlashReset

LEMMA BeginKeeps ==
  ASSUME FlashAssumption, FlashInv, NEW a, NEW buf, InPage(a, buf),
         BeginWrite(a, buf)
  PROVE  FlashInv'
<1>1. a \in Cells /\ buf \in Seq(Half)
  BY DEF InPage
<1>2. /\ call'.before = mem /\ call'.cell = a /\ call'.buf = buf
      /\ phase' = "page" /\ mem' = mem /\ program' = program
      /\ phase = "idle"
  BY DEF BeginWrite
<1>3. CallInv'
  BY <1>1, <1>2 DEF CallInv, FlashInv
<1>4. JobInv'
  <2>1. AtMost(Len(buf), PageSize - (a % PageSize)) = Len(buf)
    BY <1>1, Footprint
  <2>2. InPage(call.cell, call.buf)'
    BY <1>2 DEF InPage, Cells
  <2> QED
    BY <1>2, <2>1, <2>2 DEF JobInv, BeginWrite
<1>5. ProgressInv'
  BY <1>2 DEF ProgressInv, FlashInv
<1> QED
  BY <1>3, <1>4, <1>5 DEF FlashInv

\* The page is read and maybe erased; all it should hold is left to program.
LEMMA PageKeeps ==
  ASSUME FlashAssumption, FlashInv, PageStep
  PROVE  FlashInv'
<1>0. PICK a, buf, len, p, start :
       /\ a = call.cell /\ buf = call.buf /\ len = Len(buf)
       /\ p = a \div PageSize /\ start = p * PageSize
  OBVIOUS
<1>1. /\ phase = "page" /\ mem = call.before /\ program = <<>>
      /\ InPage(a, buf)
      /\ job.addr = 2 * a /\ job.buf = buf /\ job.page = p
      /\ job.off = a % PageSize /\ job.remain = len
      /\ job' = job /\ call' = call
  BY <1>0 DEF PageStep, FlashInv, ProgressInv, JobInv
<1>2. /\ a \in Cells /\ a \in Nat /\ buf \in Seq(Half)
      /\ mem \in [Cells -> Half]
      /\ PageSize \in Nat /\ Blank \in Half /\ p \in Nat /\ start \in Nat
      /\ a % PageSize \in 0..(PageSize - 1)
      /\ PageCells(p) \subseteq Cells
  <2>1. a \in Cells /\ buf \in Seq(Half) /\ mem \in [Cells -> Half]
    BY <1>0 DEF FlashInv, CallInv
  <2>2. PageSize \in Nat /\ Pages \in Nat /\ Blank \in Half
    BY DEF FlashAssumption
  <2>3. /\ a \in Nat /\ p \in 0..(Pages - 1)
        /\ a % PageSize \in 0..(PageSize - 1)
        /\ PageCells(p) \subseteq Cells
    BY <1>0, <2>1, WholePage
  <2>4. p \in Nat
    BY <2>2, <2>3
  <2>5. start \in Nat
    BY <1>0, <2>2, <2>4
  <2> QED
    BY <2>1, <2>2, <2>3, <2>4, <2>5
<1>3. /\ start + (a % PageSize) = a
      /\ (2 * a) % 2 = 0 /\ (2 * a) \div 2 = a
  BY <1>0, <1>1, <1>2, Footprint
<1>4. /\ len \in 1..PageSize
      /\ a..(a + len - 1) \subseteq PageCells(p)
      /\ a..(a + len - 1) \subseteq Cells
      /\ PageCells(p) = start..(start + PageSize - 1)
  <2>1. start = p * PageSize
    BY <1>0
  <2> QED
    BY <1>0, <1>1, <1>2, <2>1, Footprint DEF PageCells
<1>5. /\ Target \in [Cells -> Half]
      /\ \A c \in Cells : c \in a..(a + len - 1)
           => Target[c] = buf[c - a + 1]
      /\ \A c \in Cells : c \notin a..(a + len - 1) => Target[c] = mem[c]
  <2>1. Target = Stored(mem, a, buf)
    BY <1>0, <1>1 DEF Target
  <2>2. len = Len(buf)
    BY <1>0
  <2>3. mem \in [Cells -> Half] /\ a \in Nat /\ buf \in Seq(Half)
    BY <1>2
  <2>4. /\ Stored(mem, a, buf) \in [Cells -> Half]
        /\ \A c \in Cells : c \in a..(a + Len(buf) - 1)
             => Stored(mem, a, buf)[c] = buf[c - a + 1]
        /\ \A c \in Cells : c \notin a..(a + Len(buf) - 1)
             => Stored(mem, a, buf)[c] = mem[c]
    BY <2>3, StoredCells
  <2> QED
    BY <2>1, <2>2, <2>4
<1>6. /\ Target' = Target /\ Covered' = Covered /\ Covered = a..(a + len - 1)
      /\ call'.cell = a /\ call'.buf = buf /\ Len(call'.buf) = len
      /\ call'.cell \div PageSize = p /\ call'.before = mem
  BY <1>0, <1>1 DEF Target, Stored, Covered, Cells
<1>7. CASE NeedsErase /\ phase' = "program"
  <2> DEFINE last == start + PageSize - 1
             covered(i) == i - job.off \in 1..job.remain
             merged == [i \in 1..PageSize |->
                          <<start + i - 1, IF covered(i) THEN job.buf[i - job.off]
                                           ELSE mem[start + i - 1]>>]
  <2>1. /\ mem' = [c \in Cells |-> IF c \div PageSize = p THEN Blank
                                   ELSE mem[c]]
        /\ program' = merged
    <3>1. /\ mem' = [c \in Cells |-> IF c \div PageSize = job.page
                                     THEN Blank ELSE mem[c]]
          /\ program' = [i \in 1..PageSize |->
                           <<job.page * PageSize + i - 1,
                             IF covered(i) THEN job.buf[i - job.off]
                             ELSE mem[job.page * PageSize + i - 1]>>]
      BY <1>7 DEF PageStep
    <3>2. job.page = p /\ job.page * PageSize = start
      BY <1>0, <1>1
    <3> QED
      BY <1>1, <1>2, <3>1, <3>2
  <2>2. start..last = PageCells(p) /\ last \in Nat
    BY <1>2, <1>4
  <2>3. \A i \in 1..PageSize : merged[i] = <<start + i - 1, Target[start + i - 1]>>
    <3> SUFFICES ASSUME NEW i \in 1..PageSize
                 PROVE  merged[i] = <<start + i - 1, Target[start + i - 1]>>
      OBVIOUS
    <3>1. start + i - 1 \in Cells
      BY <1>2, <1>3, <1>4, <2>2
    <3>2. covered(i) <=> start + i - 1 \in a..(a + len - 1)
      BY <1>1, <1>2, <1>3, <1>4
    <3>3. start + i - 1 - a + 1 = i - job.off
      BY <1>1, <1>2, <1>3, <1>4
    <3>4. Target[start + i - 1] = IF covered(i) THEN buf[i - job.off]
                                  ELSE mem[start + i - 1]
      BY <1>2, <1>3, <1>4, <1>5, <3>1, <3>2, <3>3
    <3> QED
      BY <1>1, <1>2, <3>4
  <2>4. program' = [i \in 1..(last - start + 1) |->
                      <<start + i - 1, Target[start + i - 1]>>]
    <3>1. last - start + 1 = PageSize
      BY <1>2, <1>3, <1>4
    <3> QED
      BY <2>1, <2>3, <3>1
  <2>5. mem' = [c \in Cells |-> IF c \in start..last THEN Blank ELSE Target[c]]
    <3> SUFFICES ASSUME NEW c \in Cells
                 PROVE  (IF c \div PageSize = p THEN Blank ELSE mem[c])
                          = IF c \in start..last THEN Blank ELSE Target[c]
      BY <2>1
    <3>1. c \in Nat
      BY DEF Cells
    <3>2. c \div PageSize = p <=> c \in start..last
      BY <1>2, <2>2, <3>1, PageOf
    <3> QED
      BY <1>3, <1>4, <1>5, <2>2, <3>2
  <2>6. \E d \in Covered : call.before[d] # Blank
    <3>1. PICK i \in 0..(len - 1) : mem[start + (a % PageSize) + i] # Blank
      BY <1>0, <1>1, <1>7 DEF NeedsErase
    <3>2. mem[a + i] # Blank
      BY <1>3, <3>1
    <3>3. a \in Nat /\ len \in Nat
      BY <1>2, <1>4
    <3>4. a + i \in Covered
      BY <1>6, <3>3
    <3> QED
      BY <1>1, <3>2, <3>4
  <2>7. Remaining(start, last)'
    <3>1. start <= last + 1 /\ last >= a + len - 1
      <4>1. a + len - 1 \in start..last
        <5>1. a + len - 1 \in a..(a + len - 1)
          BY <1>2, <1>4
        <5> QED
          BY <1>4, <2>2, <5>1
      <4> QED
        BY <1>2, <1>3, <1>4, <2>2, <4>1
    <3> HIDE DEF last, merged
    <3> QED
      BY <1>1, <1>2, <1>6, <2>2, <2>4, <2>5, <2>6, <3>1
      DEF Remaining, Cells
  <2>8. mem' \in [Cells -> Half]
    BY <1>2, <2>1
  <2> HIDE DEF last, merged
  <2> QED
    BY <1>1, <1>2, <1>7, <2>2, <2>7, <2>8
    DEF FlashInv, CallInv, JobInv, ProgressInv, InPage, Cells
<1>8. CASE ~NeedsErase /\ mem' = mem
  <2> DEFINE last == a + len - 1
  <2>1. /\ phase' = "program"
        /\ program' = [i \in 1..len |-> <<a + i - 1, buf[i]>>]
    BY <1>0, <1>1, <1>3, <1>4, <1>8 DEF PageStep
  <2>2. last \in Nat /\ last - a + 1 = len /\ a <= last + 1
    BY <1>2, <1>3, <1>4
  <2>3. program' = [i \in 1..(last - a + 1) |-> <<a + i - 1, Target[a + i - 1]>>]
    <3> SUFFICES ASSUME NEW i \in 1..len PROVE buf[i] = Target[a + i - 1]
      BY <2>1, <2>2
    <3>1. a + i - 1 \in a..(a + len - 1) /\ a + i - 1 - a + 1 = i
      BY <1>2, <1>3, <1>4
    <3>2. a + i - 1 \in Cells
      BY <1>3, <1>4, <3>1
    <3>3. Target[a + i - 1] = buf[a + i - 1 - a + 1]
      BY <1>2, <1>3, <1>4, <1>5, <3>1, <3>2
    <3> QED
      BY <1>2, <1>3, <1>4, <3>1, <3>3
  <2>4. \A c \in a..(a + len - 1) : mem[c] = Blank
    <3> SUFFICES ASSUME NEW c \in a..(a + len - 1) PROVE mem[c] = Blank
      OBVIOUS
    <3>1. c - a \in 0..(len - 1) /\ a + (c - a) = c
      BY <1>2, <1>3, <1>4
    <3>2. mem[start + (a % PageSize) + (c - a)] = Blank
      BY <1>0, <1>1, <1>8, <3>1 DEF NeedsErase
    <3> QED
      BY <1>3, <1>4, <3>1, <3>2
  <2>5. mem = [c \in Cells |-> IF c \in a..last THEN Blank ELSE Target[c]]
    BY <1>2, <1>5, <2>4
  <2>6. Remaining(a, last)'
    <3>1. /\ a..last \subseteq PageCells(p) /\ a..last \subseteq Cells
          /\ a..last \subseteq Covered /\ last >= a + len - 1
      <4>1. Covered = a..last
        BY <1>6
      <4>2. last >= last
        BY <2>2
      <4> QED
        BY <1>4, <4>1, <4>2
    <3> HIDE DEF last
    <3> QED
      BY <1>6, <1>8, <2>2, <2>3, <2>5, <3>1 DEF Remaining, Cells
  <2> HIDE DEF last
  <2> QED
    BY <1>1, <1>2, <1>8, <2>1, <2>2, <2>6
    DEF FlashInv, CallInv, JobInv, ProgressInv, InPage, Cells
<1> QED
  BY <1>0, <1>1, <1>3, <1>4, <1>7, <1>8 DEF PageStep

\* A half-word of the erased rest is programmed.
LEMMA ProgramKeeps ==
  ASSUME FlashAssumption, FlashInv, Program
  PROVE  FlashInv'
<1>1. /\ phase = "program" /\ program # <<>>
      /\ mem \in [Cells -> Half] /\ JobInv
      /\ phase' = phase /\ job' = job /\ call' = call
      /\ program' = Tail(program)
  BY DEF Program, FlashInv, CallInv
<1>2. /\ Target' = Target /\ Covered' = Covered /\ Target \in [Cells -> Half]
  <2>1. /\ call.before \in [Cells -> Half] /\ call.buf \in Seq(Half)
        /\ call.cell \in Nat
    BY DEF FlashInv, CallInv, Cells
  <2> QED
    BY <1>1, <2>1, StoredCells DEF Target, Stored, Covered, Cells
<1>3. PICK first \in Nat, last \in Nat : Remaining(first, last)
  BY <1>1 DEF FlashInv, ProgressInv
<1>4. first <= last /\ first \in first..last /\ first \in Cells
  <2>1. program = [i \in 1..(last - first + 1) |->
                     <<first + i - 1, Target[first + i - 1]>>]
    BY <1>3 DEF Remaining
  <2>2. last - first + 1 # 0
    BY <1>1, <2>1
  <2>3. first <= last + 1 /\ first..last \subseteq Cells
    BY <1>3 DEF Remaining
  <2>4. first <= last
    BY <2>2, <2>3
  <2> QED
    BY <2>3, <2>4
<1>5. /\ Head(program) = <<first, Target[first]>>
      /\ Tail(program) = [i \in 1..(last - (first + 1) + 1) |->
           <<first + 1 + i - 1, Target[first + 1 + i - 1]>>]
  <2>1. /\ program = [i \in 1..(last - first + 1) |->
                        <<first + i - 1, Target[first + i - 1]>>]
    BY <1>3 DEF Remaining
  <2>2. program[1] = <<first, Target[first]>>
    BY <1>4, <2>1
  <2>3. \A i \in 1..(last - first + 1) : program[i] \in Cells \X Half
    <3> SUFFICES ASSUME NEW i \in 1..(last - first + 1)
                 PROVE  program[i] \in Cells \X Half
      OBVIOUS
    <3>1. first + i - 1 \in first..last
      OBVIOUS
    <3>2. first + i - 1 \in Cells
      BY <1>3, <3>1 DEF Remaining
    <3> QED
      BY <1>2, <2>1, <3>2
  <2>4. last - first + 1 \in Nat /\ last - (first + 1) + 1 = last - first + 1 - 1
    BY <1>4
  <2>5. program \in Seq(Cells \X Half) /\ Len(program) = last - first + 1
    <3> DEFINE n == last - first + 1
    <3>1. program = [i \in 1..n |-> program[i]] /\ n \in Nat
      BY <2>1, <2>4
    <3>2. program \in [1..n -> Cells \X Half]
      BY <2>3, <3>1
    <3> HIDE DEF n
    <3>3. program \in Seq(Cells \X Half) /\ Len(program) = n
      BY <3>1, <3>2
    <3> QED
      BY <3>3 DEF n
  <2>6. Head(program) = program[1]
    BY <1>1, <2>5, HeadTailProperties
  <2>7. /\ Tail(program) \in Seq(Cells \X Half)
        /\ Len(Tail(program)) = last - first + 1 - 1
        /\ \A i \in 1..Len(Tail(program)) : Tail(program)[i] = program[i + 1]
    BY <1>1, <2>5, HeadTailProperties
  <2>8. \A i \in 1..(last - (first + 1) + 1) :
          Tail(program)[i] = <<first + 1 + i - 1, Target[first + 1 + i - 1]>>
    <3> SUFFICES ASSUME NEW i \in 1..(last - (first + 1) + 1)
                 PROVE  Tail(program)[i]
                          = <<first + 1 + i - 1, Target[first + 1 + i - 1]>>
      OBVIOUS
    <3>1. /\ i + 1 \in 1..(last - first + 1) /\ i \in 1..Len(Tail(program))
          /\ first + (i + 1) - 1 = first + 1 + i - 1
      BY <2>4, <2>7
    <3>2. program[i + 1] = <<first + (i + 1) - 1, Target[first + (i + 1) - 1]>>
      BY <2>1, <3>1
    <3> QED
      BY <2>7, <3>1, <3>2
  <2>9. Tail(program) = [i \in 1..(last - (first + 1) + 1) |->
           <<first + 1 + i - 1, Target[first + 1 + i - 1]>>]
    <3>1. Tail(program) = [i \in 1..(last - (first + 1) + 1) |->
                             Tail(program)[i]]
      BY <2>4, <2>7, LenProperties
    <3> QED
      BY <2>8, <3>1
  <2> QED
    BY <2>2, <2>6, <2>9
<1>6. mem' = [c \in Cells |-> IF c \in (first + 1)..last THEN Blank
                              ELSE Target[c]]
  <2>1. mem = [c \in Cells |-> IF c \in first..last THEN Blank ELSE Target[c]]
    BY <1>3 DEF Remaining
  <2>2. mem[first] = Blank
    BY <1>4, <2>1
  <2>3. mem' = [mem EXCEPT ![first] = Target[first]]
    <3>1. Head(program)[1] = first /\ Head(program)[2] = Target[first]
      BY <1>5
    <3>2. mem' = IF mem[Head(program)[1]] = Blank
                 THEN [mem EXCEPT ![Head(program)[1]] = Head(program)[2]]
                 ELSE mem
      BY DEF Program
    <3> QED
      BY <2>2, <3>1, <3>2
  <2>4. \A c \in Cells : c \in (first + 1)..last
                           <=> c \in first..last /\ c # first
    BY DEF Cells
  <2> QED
    BY <1>1, <1>4, <2>1, <2>3, <2>4
<1>7. Remaining(first + 1, last)'
  <2>1. /\ (first + 1)..last \subseteq first..last /\ first + 1 <= last + 1
    BY <1>4
  <2>2. /\ call'.cell = call.cell /\ call'.buf = call.buf
        /\ call'.before = call.before
    BY <1>1
  <2>3. /\ last >= call.cell + Len(call.buf) - 1
        /\ first..last \subseteq PageCells(call.cell \div PageSize)
        /\ first..last \subseteq Cells
        /\ \/ first..last \subseteq Covered
           \/ \E d \in Covered : call.before[d] # Blank
    BY <1>3 DEF Remaining
  <2> QED
    BY <1>1, <1>2, <1>5, <1>6, <2>1, <2>2, <2>3 DEF Remaining, Cells, PageCells
<1>8. mem' \in [Cells -> Half]
  BY <1>2, <1>6 DEF FlashAssumption
<1>9. first + 1 \in Nat
  OBVIOUS
<1> QED
  BY <1>1, <1>7, <1>8, <1>9
  DEF FlashInv, CallInv, JobInv, ProgressInv, InPage, Cells

\* All is programmed; the buffer had no more than its page holds.
LEMMA EndKeeps ==
  ASSUME FlashAssumption, FlashInv, EndPage
  PROVE  FlashInv' /\ phase' = "idle"
<1>1. /\ phase = "program" /\ program = <<>> /\ mem' = mem
      /\ program' = program /\ call' = call
      /\ InPage(call.cell, call.buf) /\ call.buf \in Seq(Half)
      /\ job.buf = call.buf /\ job.remain = Len(call.buf)
  BY DEF EndPage, FlashInv, CallInv, JobInv
<1>2. SubSeq(job.buf, job.remain + 1, Len(job.buf)) = <<>>
  <2>1. Len(call.buf) \in Nat
    BY <1>1, LenProperties
  <2> QED
    BY <1>1, <2>1, SubSeqEmpty
<1>3. phase' = "idle" /\ job' = NoJob
  BY <1>2 DEF EndPage
<1>4. mem = Target
  <2>1. PICK first \in Nat, last \in Nat : Remaining(first, last)
    BY <1>1 DEF FlashInv, ProgressInv
  <2>2. program = [i \in 1..(last - first + 1) |->
                     <<first + i - 1, Target[first + i - 1]>>]
        /\ first <= last + 1
    BY <2>1 DEF Remaining
  <2>3. last - first + 1 = 0
    <3>1. last - first + 1 \in Nat
      BY <2>2
    <3>2. Len(program) = last - first + 1
      BY <2>2, <3>1
    <3> QED
      BY <1>1, <3>2, EmptySeq
  <2>4. first..last = {}
    BY <2>3
  <2>5. mem = [c \in Cells |-> IF c \in first..last THEN Blank ELSE Target[c]]
    BY <2>1 DEF Remaining
  <2>6. Target = [c \in Cells |-> Target[c]]
    BY DEF Target, Stored
  <2> QED
    BY <2>4, <2>5, <2>6
<1>5. Target' = Target
  BY <1>1 DEF Target, Stored, Cells
<1> QED
  BY <1>1, <1>3, <1>4, <1>5
  DEF FlashInv, CallInv, JobInv, ProgressInv, Cells

LEMMA FlashStepKeeps ==
  ASSUME FlashAssumption, FlashInv, FlashStep
  PROVE  FlashInv'
BY PageKeeps, ProgramKeeps, EndKeeps DEF FlashStep

LEMMA FlashStutter ==
  ASSUME FlashInv, UNCHANGED flashVars
  PROVE  FlashInv'
<1>1. /\ mem' = mem /\ phase' = phase /\ job' = job /\ program' = program
      /\ call' = call
  BY DEF flashVars
<1>2. Target' = Target /\ Covered' = Covered
  BY <1>1 DEF Target, Stored, Cells, Covered
<1>3. \A first, last : Remaining(first, last) => Remaining(first, last)'
  BY <1>1, <1>2 DEF Remaining, Cells, PageCells
<1> QED
  BY <1>1, <1>2, <1>3 DEF FlashInv, CallInv, JobInv, ProgressInv, InPage, Cells

-----------------------------------------------------------------------------
(* What FlashInv says of the properties of the driver.                     *)

LEMMA InvTypes ==
  ASSUME FlashAssumption, FlashInv
  PROVE  FlashTypeOK
<1>1. /\ mem \in [Cells -> Half] /\ phase \in Phase
      /\ call.before \in [Cells -> Half]
  BY DEF FlashInv, CallInv, Phase
<1>2. job \in [addr : Nat, buf : Seq(Half), page : 0..(Pages - 1),
               off : 0..(PageSize - 1), remain : 0..PageSize]
  <2>1. CASE phase = "idle"
    <3>1. <<>> \in Seq(Half) /\ 0 \in Nat
      BY EmptySeq
    <3>2. 0 \in 0..(Pages - 1) /\ 0 \in 0..(PageSize - 1) /\ 0 \in 0..PageSize
      BY DEF FlashAssumption
    <3> QED
      <4>1. job = [addr |-> 0, buf |-> <<>>, page |-> 0, off |-> 0, remain |-> 0]
        BY <2>1 DEF FlashInv, JobInv, NoJob
      <4> QED
        BY <3>1, <3>2, <4>1
  <2>2. CASE phase # "idle"
    <3>1. /\ InPage(call.cell, call.buf)
          /\ call.cell \in Cells /\ call.buf \in Seq(Half)
          /\ job = [addr |-> 2 * call.cell, buf |-> call.buf,
                    page |-> call.cell \div PageSize,
                    off |-> call.cell % PageSize, remain |-> Len(call.buf)]
      BY <2>2 DEF FlashInv, CallInv, JobInv
    <3>2. /\ call.cell \div PageSize \in 0..(Pages - 1)
          /\ call.cell % PageSize \in 0..(PageSize - 1)
          /\ call.cell \in Nat
      BY <3>1, WholePage
    <3>3. Len(call.buf) \in 1..PageSize
      BY <3>1, Footprint
    <3>4. 2 * call.cell \in Nat /\ Len(call.buf) \in 0..PageSize
      BY <3>2, <3>3
    <3> QED
      BY <3>1, <3>2, <3>4
  <2> QED
    BY <2>1, <2>2
<1>3. \A i \in DOMAIN program : program[i] \in Cells \X Half
  <2>1. CASE phase = "program"
    <3>1. PICK first \in Nat, last \in Nat : Remaining(first, last)
      BY <2>1 DEF FlashInv, ProgressInv
    <3>2. /\ first..last \subseteq Cells
          /\ program = [i \in 1..(last - first + 1) |->
                          <<first + i - 1, Target[first + i - 1]>>]
      BY <3>1 DEF Remaining
    <3>3. Target \in [Cells -> Half]
      <4>1. /\ call.before \in [Cells -> Half] /\ call.buf \in Seq(Half)
            /\ call.cell \in Nat
        BY DEF FlashInv, CallInv, Cells
      <4> QED
        BY <4>1, StoredCells DEF Target
    <3> SUFFICES ASSUME NEW i \in 1..(last - first + 1)
                 PROVE  program[i] \in Cells \X Half
      BY <3>2
    <3>4. first + i - 1 \in first..last
      OBVIOUS
    <3> QED
      BY <3>2, <3>3, <3>4
  <2>2. CASE phase # "program"
    <3>1. program = <<>>
      BY <2>2 DEF FlashInv, CallInv, ProgressInv
    <3> QED
      BY <3>1
  <2> QED
    BY <2>1, <2>2
<1> QED
  BY <1>1, <1>2, <1>3 DEF FlashTypeOK

LEMMA InvStores ==
  ASSUME FlashInv
  PROVE  WriteStoresData
BY DEF FlashInv, ProgressInv, Target, WriteStoresData

LEMMA InvKeepsOthers ==
  ASSUME FlashAssumption, FlashInv
  PROVE  OtherCellsKept
<1> SUFFICES ASSUME NEW c \in Cells \ Covered, mem[c] # call.before[c]
             PROVE  /\ \E d \in Covered : d \div PageSize = c \div PageSize
                    /\ \E d \in Covered : call.before[d] # Blank
  BY DEF OtherCellsKept
<1>1. /\ call.before \in [Cells -> Half] /\ call.cell \in Cells
      /\ call.buf \in Seq(Half) /\ call.cell \in Nat
  BY DEF FlashInv, CallInv, Cells
<1>2. Target[c] = call.before[c]
  BY <1>1, StoredCells DEF Target, Covered
<1>3. phase = "program"
  BY <1>2 DEF FlashInv, CallInv, ProgressInv
<1>4. PICK first \in Nat, last \in Nat : Remaining(first, last)
  BY <1>3 DEF FlashInv, ProgressInv
<1>5. c \in first..last
  BY <1>2, <1>4 DEF Remaining
<1>6. \E d \in Covered : call.before[d] # Blank
  BY <1>4, <1>5 DEF Remaining
<1>7. c \div PageSize = call.cell \div PageSize
  <2>1. c \in PageCells(call.cell \div PageSize) /\ c \in Nat
    BY <1>4, <1>5 DEF Remaining, Cells
  <2>2. call.cell \div PageSize \in Nat
    <3>1. call.cell \div PageSize \in 0..(Pages - 1) /\ Pages \in Nat
      BY <1>1, WholePage DEF FlashAssumption
    <3> QED
      BY <3>1
  <2> QED
    BY <2>1, <2>2, PageOf
<1>8. call.cell \in Covered
  <2>1. InPage(call.cell, call.buf)
    BY <1>3 DEF FlashInv, JobInv
  <2>2. Len(call.buf) \in 1..PageSize
    BY <1>1, <2>1, Footprint
  <2> QED
    BY <1>1, <2>2 DEF Covered
<1> QED
  BY <1>6, <1>7, <1>8

-----------------------------------------------------------------------------
(* The invariant of the lock task.                                         *)

USE FlashAssumption, CardAssumption, TableAssumption

First(k) == TableCell + 2 * (k - 1)
Second(k) == TableCell + 2 * k - 1

\* The first n slots of memory m are used, wholly or torn, the others free.
Used(m, n) ==
  \A k \in 1..Slots :
    /\ k <= n => m[First(k)] # Blank
    /\ k > n => m[First(k)] = Blank /\ m[Second(k)] = Blank

Ordered == \E n \in 0..Slots : Used(mem, n)

TableInv == phase = "idle" => Ordered

\* What is being written: a card into the first free slot, or a full table.
AddsCard(n) ==
  /\ n < Slots
  /\ call.cell = First(n + 1)
  /\ Len(call.buf) = 2
  /\ call.buf[1] # Blank

ShiftsTable(n) ==
  /\ n = Slots
  /\ call.cell = TableCell
  /\ Len(call.buf) = 2 * Slots
  /\ \A k \in 1..Slots : call.buf[2 * k - 1] # Blank

WriteInv ==
  phase # "idle" => \E n \in 0..Slots : /\ Used(call.before, n)
                                        /\ AddsCard(n) \/ ShiftsTable(n)

LockInv == LockTypeOK /\ FlashInv /\ TableInv /\ WriteInv

-----------------------------------------------------------------------------
(* The cells of the table.                                                 *)

LEMMA TableCells ==
  /\ TableCell \in Nat /\ Slots \in Nat /\ Slots > 0
  /\ TableCell % PageSize \in 0..(PageSize - 1)
  /\ \A k \in 1..Slots :
       /\ First(k) \in Cells /\ Second(k) \in Cells
       /\ First(k) \in Nat /\ Second(k) = First(k) + 1
       /\ First(k) % PageSize = (TableCell % PageSize) + 2 * (k - 1)
<1>1. TableCell \in Cells /\ Slots \in Nat \ {0}
      /\ (TableCell % PageSize) + 2 * Slots <= PageSize
  BY DEF TableAssumption
<1>2. PICK t, p, start : /\ t = TableCell % PageSize
                         /\ p = TableCell \div PageSize /\ start = p * PageSize
  OBVIOUS
<1>3. /\ TableCell \in Nat /\ p \in 0..(Pages - 1) /\ t \in 0..(PageSize - 1)
      /\ TableCell = start + t
      /\ PageCells(p) \subseteq Cells
  BY <1>1, <1>2, WholePage
<1>4. p \in Nat /\ start \in Nat /\ PageSize \in Nat
  <2>1. p \in Nat /\ PageSize \in Nat
    BY <1>3 DEF FlashAssumption
  <2> QED
    BY <1>2, <2>1
<1>5. PageCells(p) = start..(start + PageSize - 1)
  BY <1>2 DEF PageCells
<1>6. t + 2 * Slots <= PageSize
  BY <1>1, <1>2
<1>7. ASSUME NEW k \in 1..Slots
      PROVE  /\ First(k) \in Cells /\ Second(k) \in Cells
             /\ First(k) \in Nat /\ Second(k) = First(k) + 1
             /\ First(k) % PageSize = t + 2 * (k - 1)
  <2>1. First(k) = start + t + 2 * (k - 1) /\ Second(k) = First(k) + 1
        /\ First(k) \in Nat
    BY <1>1, <1>3, <1>4 DEF First, Second
  <2>2. First(k) \in PageCells(p) /\ Second(k) \in PageCells(p)
    BY <1>1, <1>3, <1>4, <1>5, <1>6, <2>1
  <2>3. First(k) \div PageSize = p
    BY <1>4, <2>1, <2>2, PageOf
  <2>4. First(k) = start + (First(k) % PageSize)
    <3>1. First(k) \in Cells
      BY <1>3, <2>2
    <3>2. First(k) = (First(k) \div PageSize) * PageSize
                     + (First(k) % PageSize)
      BY <3>1, WholePage
    <3> QED
      BY <1>2, <2>3, <3>2
  <2>5. First(k) % PageSize \in 0..(PageSize - 1)
    BY <1>3, <2>2, WholePage
  <2>6. First(k) % PageSize = t + 2 * (k - 1)
    BY <1>3, <1>4, <2>1, <2>4, <2>5
  <2> QED
    BY <1>3, <2>1, <2>2, <2>6
<1> QED
  BY <1>1, <1>2, <1>3, <1>7

LEMMA FreeSlot ==
  ASSUME NEW n \in 0..Slots, Used(mem, n), NEW k \in 1..Slots
  PROVE  Free(k) <=> k > n
<1>1. /\ TableCell \in Nat /\ First(k) = TableCell + 2 * (k - 1)
      /\ Second(k) = First(k) + 1 /\ First(k) \in Nat
  BY TableCells DEF First
<1>2. Slot(k)[1] = mem[First(k)] /\ Slot(k)[2] = mem[Second(k)]
  <2>1. Slot(k) = [i \in 1..2 |-> mem[First(k) + i - 1]]
    BY DEF Slot, ReadFrom, First
  <2> QED
    BY <1>1, <2>1
<1>3. Free(k) <=> mem[First(k)] = Blank /\ mem[Second(k)] = Blank
  <2>1. Slot(k) = <<Slot(k)[1], Slot(k)[2]>>
    BY DEF Slot, ReadFrom
  <2> QED
    BY <1>2, <2>1 DEF Free
<1> QED
  BY <1>3, TableCells DEF Used

-----------------------------------------------------------------------------
(* At every step of an enrolment the used slots come first.                *)

LEMMA TargetCells ==
  ASSUME FlashInv
  PROVE  /\ \A c \in Cells : c \in Covered
              => Target[c] = call.buf[c - call.cell + 1]
         /\ \A c \in Cells : c \notin Covered => Target[c] = call.before[c]
<1>1. /\ call.before \in [Cells -> Half] /\ call.buf \in Seq(Half)
      /\ call.cell \in Nat
  BY DEF FlashInv, CallInv, Cells
<1>2. PICK m, a, buf : m = call.before /\ a = call.cell /\ buf = call.buf
  OBVIOUS
<1>3. Target = Stored(m, a, buf) /\ Covered = a..(a + Len(buf) - 1)
  BY <1>2 DEF Target, Covered
<1>4. m \in [Cells -> Half] /\ a \in Nat /\ buf \in Seq(Half)
  BY <1>1, <1>2
<1>5. /\ \A c \in Cells : c \in Covered => Target[c] = buf[c - a + 1]
      /\ \A c \in Cells : c \notin Covered => Target[c] = m[c]
  <2>1. /\ \A c \in Cells : c \in a..(a + Len(buf) - 1)
             => Stored(m, a, buf)[c] = buf[c - a + 1]
        /\ \A c \in Cells : c \notin a..(a + Len(buf) - 1)
             => Stored(m, a, buf)[c] = m[c]
    BY <1>4, StoredCells
  <2> QED
    BY <1>3, <2>1
<1> QED
  BY <1>2, <1>5

LEMMA AddingOrdered ==
  ASSUME FlashInv, phase = "program",
         NEW n \in 0..Slots, Used(call.before, n), AddsCard(n)
  PROVE  Ordered
<1> DEFINE new == First(n + 1)
<1>1. PICK first \in Nat, last \in Nat : Remaining(first, last)
  BY DEF FlashInv, ProgressInv
<1>2. /\ n + 1 \in 1..Slots /\ new \in Nat /\ new \in Cells
      /\ new + 1 \in Cells
      /\ Second(n + 1) = new + 1
      /\ n \in Nat /\ Slots \in Nat
  BY TableCells DEF AddsCard
<1>3. \A k \in 1..Slots : /\ First(k) \in Cells /\ Second(k) \in Cells
                          /\ Second(k) = First(k) + 1
                          /\ First(k) = new + 2 * (k - n - 1)
  <2>1. TableCell \in Nat
    BY TableCells
  <2>2. \A k \in 1..Slots : First(k) = new + 2 * (k - n - 1)
    BY <1>2, <2>1 DEF First
  <2> QED
    BY <2>2, TableCells
<1> HIDE DEF new
<1>4. Covered = {new, new + 1}
  <2>1. Covered = new..(new + 1)
    BY <1>2 DEF AddsCard, Covered, new
  <2> QED
    BY <1>2, <2>1
<1>5. first..last \subseteq Covered
  <2>1. \A d \in Covered : call.before[d] = Blank
    BY <1>2, <1>4 DEF Used, new
  <2> QED
    BY <1>1, <2>1 DEF Remaining
<1>6. new + 1 <= last
  BY <1>1, <1>2 DEF Remaining, AddsCard, new
<1>7. mem = [c \in Cells |-> IF c \in first..last THEN Blank ELSE Target[c]]
  BY <1>1 DEF Remaining
<1>8. Target[new] # Blank
  <2>1. new - new + 1 = 1
    BY <1>2
  <2>2. Target[new] = call.buf[new - call.cell + 1] /\ call.cell = new
    BY <1>2, <1>4, TargetCells DEF AddsCard, new
  <2> QED
    BY <2>1, <2>2 DEF AddsCard
<1>9. \A k \in 1..Slots : k # n + 1 =>
        /\ mem[First(k)] = call.before[First(k)]
        /\ mem[Second(k)] = call.before[Second(k)]
  <2> SUFFICES ASSUME NEW k \in 1..Slots, k # n + 1
               PROVE  /\ mem[First(k)] = call.before[First(k)]
                      /\ mem[Second(k)] = call.before[Second(k)]
    OBVIOUS
  <2>1. First(k) \notin Covered /\ Second(k) \notin Covered
    BY <1>2, <1>3, <1>4
  <2> QED
    BY <1>3, <1>5, <1>7, <2>1, TargetCells
<1>10. CASE new \in first..last
  <2>1. mem[new] = Blank /\ mem[new + 1] = Blank
    <3>1. new + 1 \in first..last
      BY <1>2, <1>6, <1>10
    <3> QED
      BY <1>2, <1>7, <1>10, <3>1
  <2>2. Used(mem, n)
    <3> SUFFICES ASSUME NEW k \in 1..Slots
                 PROVE  /\ k <= n => mem[First(k)] # Blank
                        /\ k > n => /\ mem[First(k)] = Blank
                                    /\ mem[Second(k)] = Blank
      BY DEF Used
    <3>1. CASE k = n + 1
      BY <1>2, <2>1, <3>1 DEF new
    <3>2. CASE k # n + 1
      BY <1>2, <1>9, <3>2 DEF Used
    <3> QED
      BY <3>1, <3>2
  <2> QED
    BY <2>2 DEF Ordered
<1>11. CASE new \notin first..last
  <2>1. mem[new] # Blank
    BY <1>2, <1>7, <1>8, <1>11
  <2>2. Used(mem, n + 1)
    <3> SUFFICES ASSUME NEW k \in 1..Slots
                 PROVE  /\ k <= n + 1 => mem[First(k)] # Blank
                        /\ k > n + 1 => /\ mem[First(k)] = Blank
                                        /\ mem[Second(k)] = Blank
      BY DEF Used
    <3>1. CASE k = n + 1
      BY <1>2, <2>1, <3>1 DEF new
    <3>2. CASE k # n + 1
      <4>1. (k <= n + 1 => k <= n) /\ (k > n + 1 => k > n)
        BY <1>2, <3>2
      <4> QED
        BY <1>9, <3>2, <4>1 DEF Used
    <3> QED
      BY <3>1, <3>2
  <2>3. n + 1 \in 0..Slots
    BY <1>2
  <2> QED
    BY <2>2, <2>3 DEF Ordered
<1> QED
  BY <1>10, <1>11

LEMMA ShiftingOrdered ==
  ASSUME FlashInv, phase = "program",
         NEW n \in 0..Slots, ShiftsTable(n)
  PROVE  Ordered
<1>1. PICK first \in Nat, last \in Nat : Remaining(first, last)
  BY DEF FlashInv, ProgressInv
<1>2. TableCell \in Nat /\ Slots \in Nat /\ Slots > 0
  BY TableCells
<1>3. \A k \in 1..Slots : /\ First(k) \in Cells /\ Second(k) \in Cells
                          /\ First(k) = TableCell + 2 * (k - 1)
                          /\ Second(k) = First(k) + 1
  BY TableCells DEF First
<1>4. Covered = TableCell..(TableCell + 2 * Slots - 1)
  BY <1>2 DEF ShiftsTable, Covered
<1>5. TableCell + 2 * Slots - 1 <= last
  BY <1>1, <1>2 DEF Remaining, ShiftsTable
<1>6. mem = [c \in Cells |-> IF c \in first..last THEN Blank ELSE Target[c]]
  BY <1>1 DEF Remaining
<1>7. \A k \in 1..Slots : Target[First(k)] # Blank
  <2> SUFFICES ASSUME NEW k \in 1..Slots PROVE Target[First(k)] # Blank
    OBVIOUS
  <2>1. First(k) \in Covered /\ First(k) - TableCell + 1 = 2 * k - 1
    BY <1>2, <1>3, <1>4
  <2>2. Target[First(k)] = call.buf[First(k) - call.cell + 1]
        /\ call.cell = TableCell
    BY <1>3, <2>1, TargetCells DEF ShiftsTable
  <2> QED
    BY <2>1, <2>2 DEF ShiftsTable
<1>8. \E m \in 0..Slots : \A k \in 1..Slots :
         /\ k <= m => First(k) < first
         /\ k > m => first <= First(k)
  <2>1. CASE first <= TableCell
    <3>1. \A k \in 1..Slots : first <= First(k) /\ ~(k <= 0)
      BY <1>2, <1>3, <2>1
    <3> QED
      BY <1>2, <3>1
  <2>2. CASE first > TableCell + 2 * (Slots - 1)
    <3>1. \A k \in 1..Slots : First(k) < first /\ ~(k > Slots)
      BY <1>2, <1>3, <2>2
    <3> QED
      BY <1>2, <3>1
  <2>3. CASE first > TableCell /\ first <= TableCell + 2 * (Slots - 1)
    <3>1. PICK m : m = (first - TableCell + 1) \div 2
      OBVIOUS
    <3>2. m \in Int /\ 2 * m <= first - TableCell + 1
          /\ first - TableCell + 1 <= 2 * m + 1
      BY <1>2, <3>1
    <3>3. m \in 0..Slots
      BY <1>2, <2>3, <3>2
    <3>4. \A k \in 1..Slots : /\ k <= m => First(k) < first
                              /\ k > m => first <= First(k)
      BY <1>2, <1>3, <3>2
    <3> QED
      BY <3>3, <3>4
  <2> QED
    BY <1>2, <2>1, <2>2, <2>3
<1>9. PICK m \in 0..Slots : \A k \in 1..Slots : /\ k <= m => First(k) < first
                                                /\ k > m => first <= First(k)
  BY <1>8
<1>10. Used(mem, m)
  <2> SUFFICES ASSUME NEW k \in 1..Slots
               PROVE  /\ k <= m => mem[First(k)] # Blank
                      /\ k > m => /\ mem[First(k)] = Blank
                                  /\ mem[Second(k)] = Blank
    BY DEF Used
  <2>1. ASSUME k <= m PROVE mem[First(k)] # Blank
    <3>1. First(k) \notin first..last
      BY <1>9, <2>1, <1>3, <1>2
    <3> QED
      BY <1>3, <1>6, <1>7, <3>1
  <2>2. ASSUME k > m PROVE mem[First(k)] = Blank /\ mem[Second(k)] = Blank
    <3>1. First(k) \in first..last /\ Second(k) \in first..last
      BY <1>2, <1>3, <1>5, <1>9, <2>2
    <3> QED
      BY <1>3, <1>6, <3>1
  <2> QED
    BY <2>1, <2>2
<1> QED
  BY <1>10 DEF Ordered

LEMMA AlwaysOrdered ==
  ASSUME FlashInv, TableInv, WriteInv
  PROVE  Ordered
<1>1. CASE phase = "idle"
  BY <1>1 DEF TableInv
<1>2. CASE phase = "page"
  BY <1>2 DEF FlashInv, ProgressInv, WriteInv, Ordered
<1>3. CASE phase = "program"
  <2>1. PICK n \in 0..Slots : /\ Used(call.before, n)
                              /\ AddsCard(n) \/ ShiftsTable(n)
    BY <1>3 DEF WriteInv
  <2> QED
    BY <1>3, <2>1, AddingOrdered, ShiftingOrdered
<1> QED
  BY <1>1, <1>2, <1>3 DEF FlashInv, CallInv

-----------------------------------------------------------------------------
(* The write an enrolment starts.                                          *)

LEMMA CardBuffer ==
  ASSUME NEW c \in Card
  PROVE  c \in Seq(Half) /\ Len(c) = 2 /\ c[1] # Blank
<1>1. c \in (Half \ {Blank}) \X Half
  BY DEF CardAssumption
<1>2. PICK x \in Half \ {Blank}, y \in Half : c = <<x, y>>
  BY <1>1
<1> QED
  BY <1>2

LEMMA AddBegins ==
  ASSUME FlashInv, NEW c \in Card, NEW n \in 0..Slots, n < Slots,
         Used(mem, n), BeginWrite(First(n + 1), c)
  PROVE  FlashInv' /\ WriteInv'
<1>1. n + 1 \in 1..Slots
  BY TableCells
<1>2. InPage(First(n + 1), c)
  <2>1. /\ First(n + 1) \in Cells
        /\ First(n + 1) % PageSize = (TableCell % PageSize) + 2 * (n + 1 - 1)
    BY <1>1, TableCells
  <2>2. (TableCell % PageSize) + 2 * Slots <= PageSize
    BY DEF TableAssumption
  <2>3. PICK t : t = TableCell % PageSize
    OBVIOUS
  <2>4. t + 2 * (n + 1 - 1) + 2 <= PageSize
    <3>1. t \in 0..(PageSize - 1) /\ t + 2 * Slots <= PageSize
          /\ Slots \in Nat
      BY <2>2, <2>3, TableCells
    <3>2. PageSize \in Nat
      BY DEF FlashAssumption
    <3> QED
      BY <3>1, <3>2
  <2>5. c # <<>>
    BY CardBuffer
  <2> QED
    BY <2>1, <2>3, <2>4, <2>5, CardBuffer DEF InPage
<1>3. FlashInv'
  BY <1>2, BeginKeeps
<1>4. call'.before = mem /\ call'.cell = First(n + 1) /\ call'.buf = c
  BY DEF BeginWrite
<1>5. Used(call'.before, n)
  BY <1>4
<1>6. AddsCard(n)'
  BY <1>4, CardBuffer DEF AddsCard, First
<1> QED
  BY <1>3, <1>5, <1>6 DEF WriteInv, Used, First, Second

LEMMA ShiftedBuffer ==
  ASSUME FlashInv, NEW c \in Card, Used(mem, Slots)
  PROVE  LET buf == ReadFrom(TableCell + 2, 2 * (Slots - 1)) \o c
         IN /\ buf \in Seq(Half) /\ Len(buf) = 2 * Slots
            /\ \A k \in 1..Slots : buf[2 * k - 1] # Blank
<1> DEFINE kept == ReadFrom(TableCell + 2, 2 * (Slots - 1))
           n == 2 * (Slots - 1)
<1>1. /\ TableCell \in Nat /\ Slots \in Nat /\ n \in Nat
      /\ \A k \in 1..Slots : /\ First(k) \in Cells /\ Second(k) \in Cells
                             /\ First(k) = TableCell + 2 * (k - 1)
                             /\ Second(k) = First(k) + 1
  BY TableCells DEF First
<1>2. mem \in [Cells -> Half]
  BY DEF FlashInv, CallInv
<1>3. \A i \in 1..n : TableCell + 2 + i - 1 \in Cells
  <2>1. First(1) = TableCell /\ Second(Slots) = TableCell + 2 * Slots - 1
        /\ First(1) \in Cells /\ Second(Slots) \in Cells
    <3>1. 1 \in 1..Slots /\ Slots \in 1..Slots
      BY TableCells
    <3> QED
      BY <1>1, <3>1
  <2>2. \A d \in TableCell..(TableCell + 2 * Slots - 1) : d \in Cells
    <3>1. PICK size \in Int : size = Pages * PageSize
      BY DEF FlashAssumption
    <3> QED
      BY <1>1, <2>1, <3>1 DEF Cells
  <2>3. \A i \in 1..n : TableCell + 2 + i - 1
                          \in TableCell..(TableCell + 2 * Slots - 1)
    BY <1>1
  <2> QED
    BY <2>2, <2>3
<1>4. kept = [i \in 1..n |-> mem[TableCell + 2 + i - 1]]
  BY DEF ReadFrom
<1> HIDE DEF kept, n
<1>5. kept \in [1..n -> Half]
  BY <1>2, <1>3, <1>4
<1>6. kept \in Seq(Half) /\ Len(kept) = n
  BY <1>1, <1>5
<1>7. /\ c \in Seq(Half) /\ Len(c) = 2 /\ c[1] # Blank
  BY CardBuffer
<1>8. /\ kept \o c \in Seq(Half) /\ Len(kept \o c) = n + 2
      /\ \A i \in 1..(n + 2) : (kept \o c)[i] = IF i <= n THEN kept[i]
                                                ELSE c[i - n]
  <2>1. /\ kept \o c \in Seq(Half) /\ Len(kept \o c) = Len(kept) + Len(c)
        /\ \A i \in 1..(Len(kept) + Len(c)) :
             (kept \o c)[i] = IF i <= Len(kept) THEN kept[i]
                             ELSE c[i - Len(kept)]
    BY <1>6, <1>7, ConcatProperties
  <2> QED
    BY <1>6, <1>7, <2>1
<1>9. n + 2 = 2 * Slots
  BY <1>1 DEF n
<1>10. ASSUME NEW k \in 1..Slots PROVE (kept \o c)[2 * k - 1] # Blank
  <2>1. CASE k < Slots
    <3>1. /\ 2 * k - 1 \in 1..n /\ 2 * k - 1 \in 1..(n + 2)
          /\ k + 1 \in 1..Slots
      BY <1>1, <1>9, <2>1
    <3>2. (kept \o c)[2 * k - 1] = mem[TableCell + 2 + (2 * k - 1) - 1]
      BY <1>1, <1>4, <1>8, <3>1
    <3>3. TableCell + 2 + (2 * k - 1) - 1 = First(k + 1)
      BY <1>1, <3>1
    <3>4. mem[First(k + 1)] # Blank
      BY <3>1, <1>1 DEF Used
    <3> QED
      BY <3>2, <3>3, <3>4
  <2>2. CASE k = Slots
    <3>1. /\ 2 * k - 1 \in 1..(n + 2) /\ ~(2 * k - 1 <= n)
          /\ 2 * k - 1 - n = 1
      BY <1>1, <1>9, <2>2
    <3> QED
      BY <1>7, <1>8, <3>1
  <2>3. k < Slots \/ k = Slots
    BY <1>1
  <2> QED
    BY <2>1, <2>2, <2>3
<1> QED
  BY <1>8, <1>9, <1>10 DEF kept

LEMMA ShiftBegins ==
  ASSUME FlashInv, NEW c \in Card, Used(mem, Slots),
         BeginWrite(TableCell, ReadFrom(TableCell + 2, 2 * (Slots - 1)) \o c)
  PROVE  FlashInv' /\ WriteInv'
<1>1. PICK buf : buf = ReadFrom(TableCell + 2, 2 * (Slots - 1)) \o c
  OBVIOUS
<1>2. /\ buf \in Seq(Half) /\ Len(buf) = 2 * Slots
      /\ \A k \in 1..Slots : buf[2 * k - 1] # Blank
  BY <1>1, ShiftedBuffer
<1>3. InPage(TableCell, buf)
  <2>1. buf # <<>>
    BY <1>2, TableCells, EmptySeq
  <2> QED
    BY <1>2, <2>1 DEF InPage, TableAssumption
<1>4. FlashInv'
  BY <1>1, <1>3, BeginKeeps
<1>5. call'.before = mem /\ call'.cell = TableCell /\ call'.buf = buf
  BY <1>1 DEF BeginWrite
<1>6. Used(call'.before, Slots)
  BY <1>5
<1>7. ShiftsTable(Slots)'
  BY <1>2, <1>5 DEF ShiftsTable
<1>8. Slots \in 0..Slots
  BY TableCells
<1> QED
  BY <1>4, <1>6, <1>7, <1>8 DEF WriteInv, Used, First, Second

LEMMA EnrolmentBegins ==
  ASSUME FlashInv, Ordered, NEW c \in Card, Enrolment(c)
  PROVE  FlashInv' /\ WriteInv' /\ phase' = "page"
<1>1. PICK n \in 0..Slots : Used(mem, n)
  BY DEF Ordered
<1>2. \A k \in 1..Slots : Free(k) <=> k > n
  BY <1>1, FreeSlot
<1>3. CASE n < Slots
  <2>1. n + 1 \in 1..Slots /\ n + 1 > n
    BY <1>3, TableCells
  <2>2. Min({k \in 1..Slots : Free(k)}) = n + 1
    <3> DEFINE S == {k \in 1..Slots : Free(k)}
    <3>1. n + 1 \in S /\ \A y \in S : n + 1 <= y
      BY <1>2, <2>1
    <3>2. \A x \in S : (\A y \in S : x <= y) => x = n + 1
      <4>1. \A x \in S : x \in Int /\ n + 1 <= x
        BY <3>1
      <4> QED
        BY <3>1, <4>1
    <3> HIDE DEF S
    <3>3. Min(S) = n + 1
      BY <3>1, <3>2 DEF Min
    <3> QED
      BY <3>3 DEF S
  <2>3. BeginWrite(TableCell + 2 * (n + 1 - 1), c)
    BY <1>2, <2>1, <2>2 DEF Enrolment
  <2>4. BeginWrite(First(n + 1), c)
    BY <2>3 DEF First
  <2>5. phase' = "page"
    BY <2>4 DEF BeginWrite
  <2> QED
    BY <1>1, <1>3, <2>4, <2>5, AddBegins
<1>4. CASE n = Slots
  <2>1. ~\E k \in 1..Slots : Free(k)
    BY <1>2, <1>4
  <2>2. BeginWrite(TableCell, ReadFrom(TableCell + 2, 2 * (Slots - 1)) \o c)
    BY <2>1 DEF Enrolment
  <2>3. phase' = "page"
    BY <2>2 DEF BeginWrite
  <2> QED
    BY <1>1, <1>4, <2>2, <2>3, ShiftBegins
<1> QED
  BY <1>3, <1>4, TableCells

-----------------------------------------------------------------------------
(* The steps of the task.                                                  *)

LEMMA LockInit ==
  ASSUME Init
  PROVE  LockInv
<1>1. FlashInv
  BY FlashInitInv DEF Init
<1>2. LockTypeOK
  BY DEF Init, FlashInit, LockTypeOK, Phase, State
<1>3. Used(mem, 0)
  <2>1. mem = [a \in Cells |-> Blank]
    BY DEF Init, FlashInit
  <2> QED
    BY <2>1, TableCells DEF Used
<1>4. TableInv /\ WriteInv
  BY <1>3, TableCells DEF TableInv, Ordered, WriteInv, Init, FlashInit
<1> QED
  BY <1>1, <1>2, <1>4 DEF LockInv

\* What leaves the flash alone leaves all but the types alone.
LEMMA FlashUnchanged ==
  ASSUME LockInv, LockTypeOK', UNCHANGED flashVars
  PROVE  LockInv'
<1>1. FlashInv'
  BY FlashStutter DEF LockInv
<1>2. mem' = mem /\ phase' = phase /\ call' = call
  BY DEF flashVars
<1>3. TableInv' /\ WriteInv'
  BY <1>2 DEF LockInv, TableInv, WriteInv, Ordered, Used, AddsCard,
              ShiftsTable, First, Second
<1> QED
  BY <1>1, <1>3 DEF LockInv

LEMMA LockStep ==
  ASSUME LockInv, [Next]_vars
  PROVE  LockInv'
<1> USE DEF servoVars, flashVars, taskVars
<1>1. /\ LockTypeOK /\ FlashInv /\ TableInv /\ WriteInv /\ Ordered
  BY AlwaysOrdered DEF LockInv
<1>2. CASE ScanKey
  <2>1. UNCHANGED flashVars /\ pc = "scan"
    BY <1>2 DEF ScanKey, ScanKey1, ScanRemote, ScanDisable, ScanNothing,
                ScanEnrol, Select, Scanned
  <2>2. LockTypeOK'
    BY <1>1, <1>2, <2>1
    DEF LockTypeOK, ScanKey, ScanKey1, ScanRemote, ScanDisable, ScanNothing,
        ScanEnrol, Select, Scanned, State, Cells
  <2> QED
    BY <2>1, <2>2, FlashUnchanged
<1>3. CASE OpenOnRequest
  <2>1. LockTypeOK' /\ UNCHANGED flashVars
    BY <1>1, <1>3 DEF LockTypeOK, OpenOnRequest, OpenTo, EndPoll, State, Cells
  <2> QED
    BY <2>1, FlashUnchanged
<1>4. CASE DoNothing
  <2>1. LockTypeOK' /\ UNCHANGED flashVars
    BY <1>1, <1>4 DEF LockTypeOK, DoNothing, EndPoll, State, Cells
  <2> QED
    BY <2>1, FlashUnchanged
<1>5. CASE NoCardRead
  <2>1. LockTypeOK' /\ UNCHANGED flashVars
    BY <1>1, <1>5 DEF LockTypeOK, NoCardRead, CloseDoor, EndPoll, State, Cells
  <2> QED
    BY <2>1, FlashUnchanged
<1>6. ASSUME NEW c \in Card, CheckCard(c)
      PROVE  LockInv'
  <2>1. LockTypeOK' /\ UNCHANGED flashVars
    BY <1>1, <1>6 DEF LockTypeOK, CheckCard, OpenTo, EndPoll, State, Cells
  <2> QED
    BY <2>1, FlashUnchanged
<1>7. ASSUME NEW c \in Card, EnrolCard(c)
      PROVE  LockInv'
  <2>1. FlashInv' /\ WriteInv' /\ phase' = "page"
    BY <1>1, <1>7, EnrolmentBegins DEF EnrolCard
  <2>2. LockTypeOK'
    BY <1>1, <1>7, <2>1
    DEF LockTypeOK, EnrolCard, FlashInv, CallInv, State, Phase, Cells
  <2>3. TableInv'
    BY <2>1 DEF TableInv
  <2> QED
    BY <2>1, <2>2, <2>3 DEF LockInv
<1>8. CASE Writing
  <2>1. FlashInv' /\ call' = call /\ UNCHANGED taskVars /\ pc = "write"
    BY <1>1, <1>8, FlashStepKeeps
    DEF Writing, FlashStep, PageStep, Program, EndPage
  <2>2. LockTypeOK'
    BY <1>1, <2>1 DEF LockTypeOK, FlashInv, CallInv, Phase, Cells
  <2>3. phase # "idle"
    BY <1>8 DEF Writing, FlashStep, PageStep, Program, EndPage
  <2>4. WriteInv'
    BY <1>1, <2>1, <2>3
    DEF WriteInv, Used, AddsCard, ShiftsTable, First, Second
  <2>5. TableInv'
    <3>1. CASE EndPage
      BY <1>1, <3>1
      DEF EndPage, TableInv, Ordered, Used, First, Second
    <3>2. CASE PageStep \/ Program
      <4>1. phase' # "idle"
        BY <3>2 DEF PageStep, Program
      <4> QED
        BY <4>1 DEF TableInv
    <3> QED
      BY <1>8, <3>1, <3>2 DEF Writing, FlashStep
  <2> QED
    BY <2>1, <2>2, <2>4, <2>5 DEF LockInv
<1>9. CASE Written
  <2>1. LockTypeOK' /\ UNCHANGED flashVars
    BY <1>1, <1>9 DEF LockTypeOK, Written, EndPoll, State, Cells
  <2> QED
    BY <2>1, FlashUnchanged
<1>10. CASE Reset
  <2>1. FlashInv' /\ phase' = "idle" /\ mem' = mem
    BY <1>1, <1>10, ResetKeeps DEF Reset, FlashReset
  <2>2. LockTypeOK'
    BY <1>1, <1>10, <2>1 DEF LockTypeOK, Reset, Phase, State, Cells
  <2>3. TableInv' /\ WriteInv'
    BY <1>1, <2>1 DEF TableInv, WriteInv, Ordered, Used, First, Second
  <2> QED
    BY <2>1, <2>2, <2>3 DEF LockInv
<1>11. CASE UNCHANGED vars
  <2>1. LockTypeOK' /\ UNCHANGED flashVars
    BY <1>1, <1>11 DEF LockTypeOK, vars, Cells
  <2> QED
    BY <2>1, FlashUnchanged
<1> QED
  BY <1>2, <1>3, <1>4, <1>5, <1>6, <1>7, <1>8, <1>9, <1>10, <1>11
  DEF Next, Act

\* LockInv holds of every behaviour of the lock task.
THEOREM LockInvariant == Spec => []LockInv
BY LockInit, LockStep, PTL DEF Spec

-----------------------------------------------------------------------------
\* The types of the task, and that the flash is written only while the task
\* waits for it (handle_task, systask.c), through any resets.
THEOREM TypeCorrect == Spec => []LockTypeOK
BY LockInvariant, PTL DEF LockInv

\* The types of the driver (STMFLASH_Write) under the writes of the lock task:
\* it stays within the page, and never programs an odd address.
THEOREM FlashTypeCorrect == Spec => []FlashTypeOK
<1>1. LockInv => FlashTypeOK
  BY InvTypes DEF LockInv
<1> QED
  BY <1>1, LockInvariant, PTL

\* Every enrolment that returns has stored its card (STMFLASH_Write,
\* stmflash.c), whatever the table held before.
THEOREM EnrolmentStored == Spec => []WriteStoresData
<1>1. LockInv => WriteStoresData
  BY InvStores DEF LockInv
<1> QED
  BY <1>1, LockInvariant, PTL

\* Wherever an enrolment is interrupted, it harms no other page, and no cell it
\* does not cover while there is a free slot.
THEOREM OthersKept == Spec => []OtherCellsKept
<1>1. LockInv => OtherCellsKept
  BY InvKeepsOthers DEF LockInv
<1> QED
  BY <1>1, LockInvariant, PTL

\* The used slots of the card table come first, wherever enrolments were
\* interrupted (systask.c): for any size of the table and any cards.
THEOREM SlotsInOrder == Spec => []FreeSlotsLast
<1>1. LockInv => FreeSlotsLast
  <2> SUFFICES ASSUME LockInv, NEW k \in 1..(Slots - 1), Free(k)
               PROVE  Free(k + 1)
    BY DEF FreeSlotsLast
  <2>1. PICK n \in 0..Slots : Used(mem, n)
    BY AlwaysOrdered DEF LockInv, Ordered
  <2>2. k \in 1..Slots /\ k + 1 \in 1..Slots
    BY TableCells
  <2>3. k > n
    BY <2>1, <2>2, FreeSlot
  <2>4. k + 1 > n
    BY <2>3
  <2> QED
    BY <2>1, <2>2, <2>4, FreeSlot
<1> QED
  BY <1>1, LockInvariant, PTL
-----------------------------------------------------------------------------
(* The table of the abstract lock, as the slots of the memory.             *)

SlotOf(m, k) == <<m[First(k)], m[Second(k)]>>
HalfPair == Half \X Half

Table == Entries(IF phase = "idle" THEN mem ELSE call.before)

LEMMA EntriesOf ==
  ASSUME NEW m \in [Cells -> Half], NEW n \in 0..Slots, Used(m, n)
  PROVE  /\ Entries(m) = [k \in 1..n |-> SlotOf(m, k)]
         /\ Entries(m) \in Seq(HalfPair)
         /\ Len(Entries(m)) = n
<1> DEFINE used == {k \in 1..Slots : SlotOf(m, k) # <<Blank, Blank>>}
<1>1. n \in Nat /\ Slots \in Nat
  BY TableCells
<1>2. \A k \in 1..Slots : k <= n => k \in used
  BY DEF Used, SlotOf
<1>3. \A k \in used : k <= n
  BY <1>1 DEF Used, SlotOf
<1>4. Max({0} \cup used) = n
  <2> DEFINE S == {0} \cup used
  <2>1. n \in S /\ \A y \in S : y \in Int /\ n >= y
    BY <1>1, <1>2, <1>3
  <2>2. \A x \in S : (\A y \in S : x >= y) => x = n
    BY <1>1, <2>1
  <2> HIDE DEF S
  <2>3. Max(S) = n
    BY <2>1, <2>2 DEF Max
  <2> QED
    BY <2>3 DEF S
<1>5. Entries(m) = [k \in 1..n |-> SlotOf(m, k)]
  BY <1>4 DEF Entries, SlotOf, First, Second
<1>6. \A k \in 1..n : SlotOf(m, k) \in HalfPair
  <2> SUFFICES ASSUME NEW k \in 1..n PROVE SlotOf(m, k) \in HalfPair
    OBVIOUS
  <2>1. First(k) \in Cells /\ Second(k) \in Cells
    BY <1>1, TableCells
  <2> QED
    BY <2>1 DEF SlotOf, HalfPair
<1>7. Entries(m) \in [1..n -> HalfPair]
  BY <1>5, <1>6
<1> QED
  BY <1>1, <1>5, <1>7

\* The write of card c over a table of n entries.
Shifted(m) == [i \in 1..(2 * (Slots - 1)) |-> m[TableCell + 2 + i - 1]]

Enrols(c, n) ==
  /\ Used(call.before, n)
  /\ n < Slots => call.cell = First(n + 1) /\ call.buf = c
  /\ n = Slots => call.cell = TableCell /\ call.buf = Shifted(call.before) \o c

EnrolInv ==
  phase # "idle" => /\ WriteFlag = FALSE
                    /\ \E c \in Card, n \in 0..Slots : Enrols(c, n)

\* The entries of the new table: one more, or as many as before.
NewLength(n) == IF n < Slots THEN n + 1 ELSE Slots

LEMMA ShiftedCells ==
  ASSUME NEW m \in [Cells -> Half], NEW c \in Card, NEW k \in 1..Slots
  PROVE  /\ Len(Shifted(m) \o c) = 2 * Slots
         /\ k < Slots => /\ (Shifted(m) \o c)[2 * k - 1] = m[First(k + 1)]
                         /\ (Shifted(m) \o c)[2 * k] = m[Second(k + 1)]
         /\ k = Slots => /\ (Shifted(m) \o c)[2 * k - 1] = c[1]
                         /\ (Shifted(m) \o c)[2 * k] = c[2]
<1> DEFINE n == 2 * (Slots - 1)
           kept == Shifted(m)
<1>1. /\ TableCell \in Nat /\ Slots \in Nat /\ Slots > 0 /\ n \in Nat
      /\ n + 2 = 2 * Slots /\ k \in Nat
  BY TableCells
<1>2. \A j \in 1..Slots : /\ First(j) = TableCell + 2 * (j - 1)
                          /\ Second(j) = First(j) + 1
                          /\ First(j) \in Cells /\ Second(j) \in Cells
  BY TableCells DEF First
<1>3. \A i \in 1..n : TableCell + 2 + i - 1 \in Cells
  <2>1. 1 \in 1..Slots /\ Slots \in 1..Slots
    BY <1>1
  <2>2. \A i \in 1..n : TableCell + 2 + i - 1 \in First(1)..Second(Slots)
    BY <1>1, <1>2, <2>1
  <2>3. First(1)..Second(Slots) \subseteq Cells
    <3>1. PICK size \in Int : size = Pages * PageSize
      BY DEF FlashAssumption
    <3>2. Cells = 0..(size - 1)
      BY <3>1 DEF Cells
    <3>3. PICK a \in Int, b \in Int : a = First(1) /\ b = Second(Slots)
      BY <1>2, <2>1, <3>1, <3>2
    <3>4. a >= 0 /\ b <= size - 1
      BY <1>2, <2>1, <3>1, <3>2, <3>3
    <3>5. a..b \subseteq 0..(size - 1)
      BY <3>1, <3>4
    <3> QED
      BY <3>2, <3>3, <3>5
  <2> QED
    BY <2>2, <2>3
<1>4. kept = [i \in 1..n |-> m[TableCell + 2 + i - 1]]
  BY DEF Shifted
<1> HIDE DEF n, kept
<1>5. kept \in [1..n -> Half]
  BY <1>3, <1>4
<1>6. kept \in Seq(Half) /\ Len(kept) = n
  BY <1>1, <1>5
<1>7. c \in Seq(Half) /\ Len(c) = 2
  BY CardBuffer
<1>8. /\ Len(kept \o c) = n + 2
      /\ \A i \in 1..(n + 2) : (kept \o c)[i] = IF i <= n THEN kept[i]
                                                ELSE c[i - n]
  <2>1. /\ Len(kept \o c) = Len(kept) + Len(c)
        /\ \A i \in 1..(Len(kept) + Len(c)) :
             (kept \o c)[i] = IF i <= Len(kept) THEN kept[i]
                             ELSE c[i - Len(kept)]
    BY <1>6, <1>7, ConcatProperties
  <2> QED
    BY <1>6, <1>7, <2>1
<1>9. ASSUME k < Slots
      PROVE  /\ (kept \o c)[2 * k - 1] = m[First(k + 1)]
             /\ (kept \o c)[2 * k] = m[Second(k + 1)]
  <2>1. /\ 2 * k - 1 \in 1..n /\ 2 * k \in 1..n /\ k + 1 \in 1..Slots
        /\ 2 * k - 1 \in 1..(n + 2) /\ 2 * k \in 1..(n + 2)
    BY <1>1, <1>9
  <2>2. /\ TableCell + 2 + (2 * k - 1) - 1 = First(k + 1)
        /\ TableCell + 2 + (2 * k) - 1 = Second(k + 1)
    BY <1>1, <1>2, <2>1
  <2>3. /\ (kept \o c)[2 * k - 1] = m[TableCell + 2 + (2 * k - 1) - 1]
        /\ (kept \o c)[2 * k] = m[TableCell + 2 + (2 * k) - 1]
    BY <1>1, <1>4, <1>8, <2>1
  <2> QED
    BY <2>2, <2>3
<1>10. ASSUME k = Slots
       PROVE  (kept \o c)[2 * k - 1] = c[1] /\ (kept \o c)[2 * k] = c[2]
  <2>1. /\ 2 * k - 1 \in 1..(n + 2) /\ ~(2 * k - 1 <= n) /\ 2 * k - 1 - n = 1
        /\ 2 * k \in 1..(n + 2) /\ ~(2 * k <= n) /\ 2 * k - n = 2
    BY <1>1, <1>10
  <2>2. /\ (kept \o c)[2 * k - 1] = c[2 * k - 1 - n]
        /\ (kept \o c)[2 * k] = c[2 * k - n]
    BY <1>8, <2>1
  <2> QED
    BY <2>1, <2>2
<1>11. Len(kept \o c) = 2 * Slots
  BY <1>1, <1>8
<1> QED
  BY <1>9, <1>10, <1>11, Zenon DEF kept

\* What the memory holds when the write is over: the new table.
LEMMA TargetSlots ==
  ASSUME FlashInv, NEW c \in Card, NEW n \in 0..Slots, Enrols(c, n)
  PROVE  /\ \A k \in 1..Slots :
              SlotOf(Target, k) =
                IF n < Slots
                THEN IF k = n + 1 THEN c ELSE SlotOf(call.before, k)
                ELSE IF k < Slots THEN SlotOf(call.before, k + 1) ELSE c
         /\ Used(Target, NewLength(n))
         /\ n < Slots => Covered = {First(n + 1), Second(n + 1)}
         /\ n = Slots => Covered = TableCell..(TableCell + 2 * Slots - 1)
<1>1. /\ TableCell \in Nat /\ Slots \in Nat /\ Slots > 0 /\ n \in Nat
      /\ \A k \in 1..Slots : /\ First(k) = TableCell + 2 * (k - 1)
                             /\ Second(k) = First(k) + 1
                             /\ First(k) \in Cells /\ Second(k) \in Cells
                             /\ First(k) \in Nat
  BY TableCells DEF First
<1>2. /\ call.before \in [Cells -> Half]
      /\ c \in Seq(Half) /\ Len(c) = 2 /\ c[1] # Blank
  BY CardBuffer DEF FlashInv, CallInv
<1>c. c = <<c[1], c[2]>>
  BY DEF CardAssumption
<1>3. /\ \A d \in Cells : d \in Covered
              => Target[d] = call.buf[d - call.cell + 1]
      /\ \A d \in Cells : d \notin Covered => Target[d] = call.before[d]
  BY TargetCells
<1>4. ASSUME n < Slots
      PROVE  /\ \A k \in 1..Slots :
                  SlotOf(Target, k) = IF k = n + 1 THEN c
                                      ELSE SlotOf(call.before, k)
             /\ Covered = {First(n + 1), Second(n + 1)}
  <2>1. n + 1 \in 1..Slots
    BY <1>1, <1>4
  <2>2. call.cell = First(n + 1) /\ call.buf = c
    BY <1>4 DEF Enrols
  <2>3. Covered = {First(n + 1), Second(n + 1)}
    <3>1. PICK new \in Nat : new = First(n + 1)
      BY <1>1, <2>1
    <3>2. Len(call.buf) = 2 /\ call.cell = new
      BY <1>2, <2>2, <3>1
    <3>3. Covered = new..(new + 1)
      BY <3>1, <3>2 DEF Covered
    <3>4. Covered = {new, new + 1}
      BY <3>1, <3>3
    <3>5. Second(n + 1) = new + 1
      BY <1>1, <2>1, <3>1
    <3> QED
      BY <3>1, <3>4, <3>5
  <2>4. ASSUME NEW k \in 1..Slots, k # n + 1
        PROVE  SlotOf(Target, k) = SlotOf(call.before, k)
    <3>1. First(k) \notin Covered /\ Second(k) \notin Covered
      BY <1>1, <2>1, <2>3, <2>4
    <3> QED
      BY <1>1, <1>3, <3>1 DEF SlotOf
  <2>5. SlotOf(Target, n + 1) = c
    <3>1. /\ Target[First(n + 1)] = call.buf[First(n + 1) - call.cell + 1]
          /\ Target[Second(n + 1)] = call.buf[Second(n + 1) - call.cell + 1]
      BY <1>1, <1>3, <2>1, <2>3
    <3>2. /\ First(n + 1) - call.cell + 1 = 1
          /\ Second(n + 1) - call.cell + 1 = 2
      BY <1>1, <2>1, <2>2
    <3>3. Target[First(n + 1)] = c[1] /\ Target[Second(n + 1)] = c[2]
      BY <2>2, <3>1, <3>2
    <3> QED
      BY <1>c, <3>3 DEF SlotOf
  <2> QED
    BY <2>3, <2>4, <2>5
<1>5. ASSUME n = Slots
      PROVE  /\ \A k \in 1..Slots :
                  SlotOf(Target, k) = IF k < Slots
                                      THEN SlotOf(call.before, k + 1) ELSE c
             /\ Covered = TableCell..(TableCell + 2 * Slots - 1)
  <2>1. call.cell = TableCell /\ call.buf = Shifted(call.before) \o c
    BY <1>5 DEF Enrols
  <2>2. Len(call.buf) = 2 * Slots
    <3>1. 1 \in 1..Slots
      BY <1>1
    <3> QED
      BY <1>2, <2>1, <3>1, ShiftedCells
  <2>3. Covered = TableCell..(TableCell + 2 * Slots - 1)
    BY <1>1, <2>1, <2>2 DEF Covered
  <2>4. ASSUME NEW k \in 1..Slots
        PROVE  /\ Target[First(k)] = call.buf[2 * k - 1]
               /\ Target[Second(k)] = call.buf[2 * k]
    <3>1. First(k) \in Covered /\ Second(k) \in Covered
      BY <1>1, <2>3
    <3>2. /\ First(k) - call.cell + 1 = 2 * k - 1
          /\ Second(k) - call.cell + 1 = 2 * k
      <4>1. /\ First(k) = TableCell + 2 * (k - 1) /\ Second(k) = First(k) + 1
            /\ call.cell = TableCell /\ TableCell \in Nat /\ k \in Nat
        BY <1>1, <2>1
      <4> QED
        BY <4>1
    <3>3. /\ Target[First(k)] = call.buf[First(k) - call.cell + 1]
          /\ Target[Second(k)] = call.buf[Second(k) - call.cell + 1]
      BY <1>1, <1>3, <3>1
    <3> QED
      BY <3>2, <3>3
  <2>5. ASSUME NEW k \in 1..Slots
        PROVE  SlotOf(Target, k) = IF k < Slots
                                   THEN SlotOf(call.before, k + 1) ELSE c
    <3>1. PICK m \in [Cells -> Half] : m = call.before
      BY <1>2
    <3>2. /\ k < Slots => /\ (Shifted(m) \o c)[2 * k - 1] = m[First(k + 1)]
                          /\ (Shifted(m) \o c)[2 * k] = m[Second(k + 1)]
          /\ k = Slots => /\ (Shifted(m) \o c)[2 * k - 1] = c[1]
                          /\ (Shifted(m) \o c)[2 * k] = c[2]
      BY ShiftedCells
    <3>3. /\ Target[First(k)] = (Shifted(m) \o c)[2 * k - 1]
          /\ Target[Second(k)] = (Shifted(m) \o c)[2 * k]
      BY <2>1, <2>4, <3>1
    <3>4. k < Slots \/ k = Slots
      BY <1>1
    <3>5. CASE k < Slots
      BY <3>1, <3>2, <3>3, <3>5 DEF SlotOf
    <3>6. CASE k = Slots
      <4>1. Target[First(k)] = c[1] /\ Target[Second(k)] = c[2]
        BY <3>2, <3>3, <3>6, Zenon
      <4>2. ~(k < Slots)
        BY <1>1, <3>6
      <4> QED
        BY <1>c, <4>1, <4>2 DEF SlotOf
    <3> QED
      BY <3>4, <3>5, <3>6
  <2> QED
    BY <2>3, <2>5
<1>6. Used(Target, NewLength(n))
  <2> SUFFICES ASSUME NEW k \in 1..Slots
               PROVE  /\ k <= NewLength(n) => Target[First(k)] # Blank
                      /\ k > NewLength(n) => /\ Target[First(k)] = Blank
                                             /\ Target[Second(k)] = Blank
    BY DEF Used
  <2>1. \A j \in 1..Slots :
          /\ j <= n => call.before[First(j)] # Blank
          /\ j > n => /\ call.before[First(j)] = Blank
                      /\ call.before[Second(j)] = Blank
    BY DEF Enrols, Used
  <2>2. \A j \in 1..Slots : /\ SlotOf(call.before, j)[1] = call.before[First(j)]
                            /\ SlotOf(call.before, j)[2] = call.before[Second(j)]
                            /\ SlotOf(Target, j)[1] = Target[First(j)]
                            /\ SlotOf(Target, j)[2] = Target[Second(j)]
    BY DEF SlotOf
  <2>3. CASE n < Slots
    <3>1. NewLength(n) = n + 1
      BY <2>3 DEF NewLength
    <3>2. CASE k = n + 1
      <4>1. SlotOf(Target, k) = c
        BY <1>4, <2>3, <3>2
      <4>2. Target[First(k)] # Blank
        BY <1>2, <2>2, <4>1
      <4> QED
        BY <1>1, <3>1, <3>2, <4>2
    <3>3. CASE k # n + 1
      <4>1. SlotOf(Target, k) = SlotOf(call.before, k)
        BY <1>4, <2>3, <3>3
      <4>2. /\ Target[First(k)] = call.before[First(k)]
            /\ Target[Second(k)] = call.before[Second(k)]
        BY <2>2, <4>1
      <4>3. (k <= n + 1 => k <= n) /\ (k > n + 1 => k > n)
        BY <1>1, <3>3
      <4> QED
        BY <2>1, <3>1, <4>2, <4>3
    <3> QED
      BY <3>2, <3>3
  <2>4. CASE n = Slots
    <3>1. k < Slots => k + 1 \in 1..Slots /\ k + 1 <= n
      BY <1>1, <2>4
    <3>2. Target[First(k)] # Blank
      <4>1. CASE k < Slots
        <5>1. SlotOf(Target, k) = SlotOf(call.before, k + 1)
          BY <1>5, <2>4, <4>1
        <5>2. Target[First(k)] = call.before[First(k + 1)]
          BY <2>2, <3>1, <4>1, <5>1
        <5> QED
          BY <2>1, <3>1, <4>1, <5>2
      <4>2. CASE ~(k < Slots)
        <5>1. SlotOf(Target, k) = c
          BY <1>5, <2>4, <4>2
        <5> QED
          BY <1>2, <2>2, <5>1
      <4> QED
        BY <4>1, <4>2
    <3> QED
      BY <1>1, <2>4, <3>2 DEF NewLength
  <2> QED
    BY <1>1, <2>3, <2>4
<1> QED
  BY <1>1, <1>4, <1>5, <1>6
LEMMA TargetTypes ==
  ASSUME FlashInv
  PROVE  Target \in [Cells -> Half] /\ call.before \in [Cells -> Half]
<1>1. /\ call.before \in [Cells -> Half] /\ call.buf \in Seq(Half)
      /\ call.cell \in Nat
  BY DEF FlashInv, CallInv, Cells
<1> QED
  BY <1>1, StoredCells DEF Target

\* The new table is the one CardLock speaks of.
LEMMA NewTable ==
  ASSUME FlashInv, NEW c \in Card, NEW n \in 0..Slots, Enrols(c, n)
  PROVE  LET old == Entries(call.before)
         IN /\ Len(old) = n
            /\ Entries(Target) = Append(IF Len(old) < Slots THEN old
                                        ELSE Tail(old), c)
<1> DEFINE old == Entries(call.before)
           kept == IF Len(old) < Slots THEN old ELSE Tail(old)
           new == Entries(Target)
<1>1. n \in Nat /\ Slots \in Nat /\ Slots > 0
  BY TableCells
<1>2. Target \in [Cells -> Half] /\ call.before \in [Cells -> Half]
  BY TargetTypes
<1>3. Used(call.before, n)
  BY DEF Enrols
<1>4. /\ old \in Seq(HalfPair) /\ Len(old) = n
      /\ old = [k \in 1..n |-> SlotOf(call.before, k)]
  BY <1>2, <1>3, EntriesOf
<1>5. NewLength(n) \in 0..Slots
  BY <1>1 DEF NewLength
<1>6. /\ new \in Seq(HalfPair) /\ Len(new) = NewLength(n)
      /\ new = [k \in 1..NewLength(n) |-> SlotOf(Target, k)]
  BY <1>2, <1>5, TargetSlots, EntriesOf
<1>7. \A k \in 1..Slots :
        SlotOf(Target, k) =
          IF n < Slots THEN IF k = n + 1 THEN c ELSE SlotOf(call.before, k)
          ELSE IF k < Slots THEN SlotOf(call.before, k + 1) ELSE c
  BY TargetSlots
<1>8. c \in HalfPair
  BY CardAssumption DEF HalfPair
<1> HIDE DEF old, new
<1>9. /\ kept \in Seq(HalfPair) /\ Len(kept) = NewLength(n) - 1
      /\ \A k \in 1..(NewLength(n) - 1) : kept[k] = SlotOf(Target, k)
  <2>1. CASE n < Slots
    <3>1. kept = old /\ NewLength(n) - 1 = n
      BY <1>1, <1>4, <2>1 DEF NewLength
    <3>2. \A k \in 1..n : k \in 1..Slots /\ k # n + 1
      BY <1>1
    <3> QED
      BY <1>4, <1>7, <2>1, <3>1, <3>2
  <2>2. CASE n = Slots
    <3>1. kept = Tail(old) /\ NewLength(n) - 1 = n - 1 /\ ~(n < Slots)
      BY <1>1, <1>4, <2>2 DEF NewLength
    <3>2. /\ Tail(old) \in Seq(HalfPair) /\ Len(Tail(old)) = n - 1
          /\ \A k \in 1..(n - 1) : Tail(old)[k] = old[k + 1]
      <4>1. old # <<>>
        BY <1>1, <1>4, <2>2, EmptySeq
      <4> QED
        BY <1>4, <4>1, HeadTailProperties
    <3>3. \A k \in 1..(n - 1) : k \in 1..Slots /\ k < Slots /\ k + 1 \in 1..n
      BY <1>1, <2>2
    <3> QED
      BY <1>4, <1>7, <3>1, <3>2, <3>3
  <2> QED
    BY <1>1, <2>1, <2>2
<1> HIDE DEF kept
<1>10. /\ Append(kept, c) \in Seq(HalfPair)
       /\ Len(Append(kept, c)) = NewLength(n)
       /\ \A k \in 1..(NewLength(n) - 1) : Append(kept, c)[k] = kept[k]
       /\ Append(kept, c)[NewLength(n)] = c
  <2>1. /\ Append(kept, c) \in Seq(HalfPair)
        /\ Len(Append(kept, c)) = Len(kept) + 1
        /\ \A k \in 1..Len(kept) : Append(kept, c)[k] = kept[k]
        /\ Append(kept, c)[Len(kept) + 1] = c
    BY <1>8, <1>9, AppendProperties
  <2>2. Len(kept) + 1 = NewLength(n)
    BY <1>1, <1>5, <1>9
  <2> QED
    BY <1>9, <2>1, <2>2
<1>11. \A k \in 1..NewLength(n) : new[k] = Append(kept, c)[k]
  <2> SUFFICES ASSUME NEW k \in 1..NewLength(n)
               PROVE  new[k] = Append(kept, c)[k]
    OBVIOUS
  <2>1. new[k] = SlotOf(Target, k)
    BY <1>6
  <2>2. CASE k = NewLength(n)
    <3>1. SlotOf(Target, k) = c
      BY <1>1, <1>7, <2>2 DEF NewLength
    <3> QED
      BY <1>10, <2>1, <2>2, <3>1
  <2>3. CASE k # NewLength(n)
    <3>1. k \in 1..(NewLength(n) - 1)
      BY <1>5, <2>3
    <3> QED
      BY <1>9, <1>10, <2>1, <3>1
  <2> QED
    BY <2>2, <2>3
<1>12. new = Append(kept, c)
  BY <1>6, <1>10, <1>11, SeqEqual
<1> QED
  BY <1>4, <1>12 DEF old, new, kept

\* A write that is cut off at cell first has written the slots low to m.
LEMMA CutSlots ==
  ASSUME NEW first \in Nat, NEW low \in 0..Slots, NEW high \in 0..Slots,
         low <= high
  PROVE  \E m \in low..high :
           \A k \in (low + 1)..high : /\ k <= m => First(k) < first
                                      /\ k > m => first <= First(k)
<1>1. TableCell \in Nat /\ Slots \in Nat
  BY TableCells
<1>2. PICK q : q = (first - TableCell + 1) \div 2
  OBVIOUS
<1>3. q \in Int /\ 2 * q <= first - TableCell + 1
      /\ first - TableCell + 1 <= 2 * q + 1
  BY <1>1, <1>2
<1>4. \A k \in (low + 1)..high : /\ k <= q => First(k) < first
                                 /\ k > q => first <= First(k)
  BY <1>1, <1>3 DEF First
<1>5. PICK m \in low..high : \/ m = q
                             \/ m = low /\ q < low
                             \/ m = high /\ q > high
  BY <1>3
<1>6. \A k \in (low + 1)..high : (k <= m => k <= q) /\ (k > m => k > q)
  BY <1>3, <1>5
<1> QED
  BY <1>4, <1>6

\* Where a write was cut off, the table is the new one up to some entry, whole
\* or torn; an enrolment into a free slot leaves all the entries before it.
LEMMA CutTable ==
  ASSUME FlashInv, phase = "program",
         NEW c \in Card, NEW n \in 0..Slots, Enrols(c, n)
  PROVE  LET new == Entries(Target)
             low == IF n < Slots THEN n ELSE 0
         IN \/ \E m \in low..Len(new) : Entries(mem) = SubSeq(new, 1, m)
            \/ \E m \in low..(Len(new) - 1) :
                 Entries(mem) = Append(SubSeq(new, 1, m),
                                       <<new[m + 1][1], Blank>>)
<1> DEFINE new == Entries(Target)
           low == IF n < Slots THEN n ELSE 0
           high == NewLength(n)
<1>1. PICK first \in Nat, last \in Nat : Remaining(first, last)
  BY DEF FlashInv, ProgressInv
<1>2. /\ TableCell \in Nat /\ Slots \in Nat /\ Slots > 0 /\ n \in Nat
      /\ low \in 0..Slots /\ high \in 0..Slots /\ low < high
  BY TableCells DEF NewLength
<1>3. \A k \in 1..Slots : /\ First(k) \in Cells /\ Second(k) \in Cells
                          /\ First(k) = TableCell + 2 * (k - 1)
                          /\ Second(k) = First(k) + 1 /\ First(k) \in Nat
  BY TableCells DEF First
<1>4. /\ mem \in [Cells -> Half] /\ Target \in [Cells -> Half]
      /\ mem = [d \in Cells |-> IF d \in first..last THEN Blank ELSE Target[d]]
  BY <1>1, TargetTypes DEF Remaining, FlashInv, CallInv
<1>5. Used(Target, high)
  BY TargetSlots
<1>6. /\ new \in Seq(HalfPair) /\ Len(new) = high
      /\ new = [k \in 1..high |-> SlotOf(Target, k)]
  BY <1>2, <1>4, <1>5, EntriesOf
\* Which cells of the table are still erased.
<1>7. \A k \in 1..Slots :
        IF k \in (low + 1)..high
        THEN /\ First(k) \in first..last <=> first <= First(k)
             /\ Second(k) \in first..last <=> first <= Second(k)
        ELSE First(k) \notin first..last /\ Second(k) \notin first..last
  <2>1. CASE n < Slots
    <3>1. n + 1 \in 1..Slots /\ low = n /\ high = n + 1
      BY <1>2, <2>1 DEF NewLength
    <3>2. Covered = {First(n + 1), Second(n + 1)}
      BY <2>1, TargetSlots
    <3>3. first..last \subseteq Covered
      <4>1. \A d \in Covered : call.before[d] = Blank
        BY <1>2, <3>1, <3>2 DEF Enrols, Used
      <4> QED
        BY <1>1, <4>1 DEF Remaining
    <3>4. Second(n + 1) <= last
      <4>1. call.cell = First(n + 1) /\ Len(call.buf) = 2
        BY <2>1, CardBuffer DEF Enrols
      <4>2. last >= First(n + 1) + 2 - 1
        BY <1>1, <4>1 DEF Remaining
      <4> QED
        BY <1>3, <3>1, <4>2
    <3>5. \A k \in 1..Slots : k # n + 1 =>
            First(k) \notin Covered /\ Second(k) \notin Covered
      BY <1>2, <1>3, <3>1, <3>2
    <3>6. \A k \in 1..Slots : k \in (low + 1)..high <=> k = n + 1
      BY <1>2, <3>1
    <3>7. /\ First(n + 1) \in first..last <=> first <= First(n + 1)
          /\ Second(n + 1) \in first..last <=> first <= Second(n + 1)
      BY <1>3, <3>1, <3>4
    <3> QED
      BY <3>3, <3>5, <3>6, <3>7
  <2>2. CASE n = Slots
    <3>1. low = 0 /\ high = Slots
      BY <1>2, <2>2 DEF NewLength
    <3>2. TableCell + 2 * Slots - 1 <= last
      <4>1. call.cell = TableCell /\ Len(call.buf) = 2 * Slots
        <5>1. 1 \in 1..Slots
          BY <1>2
        <5>2. Len(Shifted(call.before) \o c) = 2 * Slots
          BY <5>1, TargetTypes, ShiftedCells
        <5> QED
          BY <2>2, <5>2 DEF Enrols
      <4> QED
        BY <1>1, <4>1 DEF Remaining
    <3>3. \A k \in 1..Slots : First(k) <= last /\ Second(k) <= last
      BY <1>2, <1>3, <3>2
    <3> QED
      BY <1>2, <1>3, <3>1, <3>3
  <2> QED
    BY <1>2, <2>1, <2>2
<1> HIDE DEF new, low, high
<1>8. PICK m \in low..high :
        \A k \in (low + 1)..high : /\ k <= m => First(k) < first
                                   /\ k > m => first <= First(k)
  <2>1. low <= high
    BY <1>2
  <2>2. \E m \in low..high :
          \A k \in (low + 1)..high : /\ k <= m => First(k) < first
                                     /\ k > m => first <= First(k)
    BY <1>2, <2>1, CutSlots
  <2> QED
    BY <2>2
<1>9. m \in 0..Slots /\ m \in Nat /\ low \in Nat /\ high \in Nat
  BY <1>2
<1>10. \A k \in 1..Slots :
         /\ k <= m => mem[First(k)] = Target[First(k)]
         /\ k < m => mem[Second(k)] = Target[Second(k)]
         /\ k > m => mem[First(k)] = Blank /\ mem[Second(k)] = Blank
  <2> SUFFICES ASSUME NEW k \in 1..Slots
               PROVE  /\ k <= m => mem[First(k)] = Target[First(k)]
                      /\ k < m => mem[Second(k)] = Target[Second(k)]
                      /\ k > m => mem[First(k)] = Blank /\ mem[Second(k)] = Blank
    OBVIOUS
  <2>1. ASSUME k <= m PROVE First(k) \notin first..last
    BY <1>2, <1>3, <1>7, <1>8, <1>9, <2>1
  <2>2. ASSUME k < m PROVE Second(k) \notin first..last
    <3>1. CASE k \in (low + 1)..high
      <4>1. k + 1 \in (low + 1)..high /\ k + 1 <= m /\ k + 1 \in 1..Slots
        BY <1>2, <1>9, <2>2, <3>1
      <4>2. First(k + 1) < first
        BY <1>8, <4>1
      <4>3. Second(k) < First(k + 1)
        BY <1>2, <1>3, <4>1
      <4> QED
        BY <1>2, <1>3, <1>7, <3>1, <4>1, <4>2, <4>3
    <3>2. CASE k \notin (low + 1)..high
      BY <1>7, <3>2
    <3> QED
      BY <3>1, <3>2
  <2>3. ASSUME k > m PROVE mem[First(k)] = Blank /\ mem[Second(k)] = Blank
    <3>1. CASE k \in (low + 1)..high
      <4>1. first <= First(k) /\ first <= Second(k)
        BY <1>3, <1>8, <2>3, <3>1
      <4>2. First(k) \in first..last /\ Second(k) \in first..last
        BY <1>7, <3>1, <4>1
      <4> QED
        BY <1>3, <1>4, <4>2
    <3>2. CASE k \notin (low + 1)..high
      <4>1. k > high
        BY <1>2, <1>9, <2>3, <3>2
      <4>2. Target[First(k)] = Blank /\ Target[Second(k)] = Blank
        BY <1>5, <4>1 DEF Used
      <4> QED
        BY <1>3, <1>4, <1>7, <3>2, <4>2
    <3> QED
      BY <3>1, <3>2
  <2> QED
    BY <1>3, <1>4, <2>1, <2>2, <2>3
<1>11. Used(mem, m)
  <2>1. \A k \in 1..Slots : k <= m => Target[First(k)] # Blank
    BY <1>5, <1>9 DEF Used
  <2> QED
    BY <1>10, <2>1 DEF Used
<1>12. /\ Entries(mem) = [k \in 1..m |-> SlotOf(mem, k)]
       /\ Entries(mem) \in Seq(HalfPair) /\ Len(Entries(mem)) = m
  BY <1>4, <1>9, <1>11, EntriesOf
<1>13. \A k \in 1..m : k < m => Entries(mem)[k] = new[k]
  BY <1>6, <1>9, <1>10, <1>12 DEF SlotOf
<1>14. \A i \in 1..high : new[i] \in HalfPair
  BY <1>6, ElementOfSeq
\* The last slot that is used is whole ...
<1>15. CASE m = low \/ mem[Second(m)] = Target[Second(m)]
  <2>1. \A k \in 1..m : Entries(mem)[k] = new[k]
    <3> SUFFICES ASSUME NEW k \in 1..m PROVE Entries(mem)[k] = new[k]
      OBVIOUS
    <3>1. k \in 1..Slots /\ k \in 1..high
      BY <1>2, <1>9
    <3>2. mem[First(k)] = Target[First(k)]
      BY <1>9, <1>10, <3>1
    <3>3. mem[Second(k)] = Target[Second(k)]
      <4>1. CASE k < m
        BY <1>10, <3>1, <4>1
      <4>2. CASE k = m /\ m = low
        <5>1. k \notin (low + 1)..high
          BY <1>9, <4>2
        <5> QED
          BY <1>3, <1>4, <1>7, <3>1, <5>1
      <4> QED
        BY <1>9, <1>15, <4>1, <4>2
    <3> QED
      BY <1>6, <1>12, <3>1, <3>2, <3>3 DEF SlotOf
  <2>2. /\ SubSeq(new, 1, m) \in Seq(HalfPair) /\ Len(SubSeq(new, 1, m)) = m
        /\ \A k \in 1..m : SubSeq(new, 1, m)[k] = new[k]
    <3>1. \A i \in 1..m : new[i] \in HalfPair
      BY <1>9, <1>14
    <3>2. /\ SubSeq(new, 1, m) \in Seq(HalfPair)
          /\ Len(SubSeq(new, 1, m)) = IF 1 <= m THEN m - 1 + 1 ELSE 0
          /\ \A k \in 1..(m - 1 + 1) : SubSeq(new, 1, m)[k] = new[1 + k - 1]
      BY <1>9, <3>1, SubSeqProperties
    <3> QED
      BY <1>9, <3>2
  <2>3. Entries(mem) = SubSeq(new, 1, m)
    BY <1>12, <2>1, <2>2, SeqEqual
  <2> QED
    BY <1>6, <2>3 DEF new, low
\* ... or torn.
<1>16. CASE m # low /\ mem[Second(m)] # Target[Second(m)]
  <2>1. /\ m \in 1..Slots /\ m \in 1..high /\ m - 1 \in low..(high - 1)
        /\ m - 1 \in Nat
    BY <1>2, <1>9, <1>16
  <2>2. mem[Second(m)] = Blank
    BY <1>3, <1>4, <1>16, <2>1
  <2>3. SlotOf(mem, m) = <<new[m][1], Blank>>
    <3>1. new[m][1] = Target[First(m)]
      BY <1>6, <2>1 DEF SlotOf
    <3>2. mem[First(m)] = Target[First(m)]
      BY <1>9, <1>10, <2>1
    <3> QED
      BY <2>2, <3>1, <3>2 DEF SlotOf
  <2> DEFINE cut == SubSeq(new, 1, m - 1)
             torn == <<new[m][1], Blank>>
  <2>4. /\ cut \in Seq(HalfPair) /\ Len(cut) = m - 1
        /\ \A k \in 1..(m - 1) : cut[k] = new[k]
    <3>1. \A i \in 1..(m - 1) : new[i] \in HalfPair
      BY <1>9, <1>14
    <3>2. /\ SubSeq(new, 1, m - 1) \in Seq(HalfPair)
          /\ Len(SubSeq(new, 1, m - 1)) =
               IF 1 <= m - 1 THEN m - 1 - 1 + 1 ELSE 0
          /\ \A k \in 1..(m - 1 - 1 + 1) :
               SubSeq(new, 1, m - 1)[k] = new[1 + k - 1]
      BY <2>1, <3>1, SubSeqProperties
    <3> QED
      BY <2>1, <3>2
  <2>5. torn \in HalfPair
    <3>1. new[m] \in HalfPair
      BY <1>14, <2>1
    <3> QED
      BY <3>1, FlashAssumption DEF HalfPair
  <2> HIDE DEF cut, torn
  <2>6. /\ Append(cut, torn) \in Seq(HalfPair)
        /\ Len(Append(cut, torn)) = m
        /\ \A k \in 1..(m - 1) : Append(cut, torn)[k] = cut[k]
        /\ Append(cut, torn)[m] = torn
    <3>1. /\ Append(cut, torn) \in Seq(HalfPair)
          /\ Len(Append(cut, torn)) = Len(cut) + 1
          /\ \A k \in 1..Len(cut) : Append(cut, torn)[k] = cut[k]
          /\ Append(cut, torn)[Len(cut) + 1] = torn
      BY <2>4, <2>5, AppendProperties
    <3>2. Len(cut) + 1 = m
      BY <2>1, <2>4
    <3> QED
      BY <2>4, <3>1, <3>2
  <2>7. \A k \in 1..m : Entries(mem)[k] = Append(cut, torn)[k]
    <3> SUFFICES ASSUME NEW k \in 1..m
                 PROVE  Entries(mem)[k] = Append(cut, torn)[k]
      OBVIOUS
    <3>1. CASE k = m
      BY <1>12, <2>3, <2>6, <3>1 DEF torn
    <3>2. CASE k # m
      <4>1. k < m /\ k \in 1..(m - 1)
        BY <1>9, <3>2
      <4> QED
        BY <1>13, <2>4, <2>6, <4>1
    <3> QED
      BY <3>1, <3>2
  <2>8. Entries(mem) = Append(cut, torn)
    BY <1>12, <2>6, <2>7, SeqEqual
  <2>9. PICK j \in low..(high - 1) : j = m - 1 /\ j + 1 = m
    BY <1>9, <2>1
  <2>10. Entries(mem) = Append(SubSeq(new, 1, j), <<new[j + 1][1], Blank>>)
    BY <2>8, <2>9 DEF cut, torn
  <2> QED
    BY <1>6, <2>10 DEF new, low
<1> QED
  BY <1>15, <1>16
-----------------------------------------------------------------------------
(* The lock task implements CardLock.                                      *)

\* The write an enrolment starts is of a card that is read.
LEMMA EnrolmentEnrols ==
  ASSUME LockInv, phase = "idle", NEW c \in Card, Enrolment(c)
  PROVE  \E n \in 0..Slots : Enrols(c, n)'
<1>1. PICK n \in 0..Slots : Used(mem, n)
  BY AlwaysOrdered DEF LockInv, Ordered
<1>2. \A k \in 1..Slots : Free(k) <=> k > n
  BY <1>1, FreeSlot
<1>3. n \in Nat /\ Slots \in Nat
  BY TableCells
<1>4. ASSUME n < Slots
      PROVE  call'.cell = First(n + 1) /\ call'.buf = c /\ call'.before = mem
  <2>1. n + 1 \in 1..Slots /\ n + 1 > n
    BY <1>3, <1>4
  <2>2. Min({k \in 1..Slots : Free(k)}) = n + 1
    <3> DEFINE S == {k \in 1..Slots : Free(k)}
    <3>1. n + 1 \in S /\ \A y \in S : y \in Int /\ n + 1 <= y
      BY <1>2, <1>3, <2>1
    <3>2. \A x \in S : (\A y \in S : x <= y) => x = n + 1
      BY <3>1
    <3> HIDE DEF S
    <3>3. Min(S) = n + 1
      BY <3>1, <3>2 DEF Min
    <3> QED
      BY <3>3 DEF S
  <2>3. BeginWrite(First(n + 1), c)
    BY <1>2, <2>1, <2>2 DEF Enrolment, First
  <2> QED
    BY <2>3 DEF BeginWrite
<1>5. ASSUME n = Slots
      PROVE  /\ call'.cell = TableCell /\ call'.before = mem
             /\ call'.buf = Shifted(mem) \o c
  <2>1. ~\E k \in 1..Slots : Free(k)
    BY <1>2, <1>3, <1>5
  <2>2. BeginWrite(TableCell, ReadFrom(TableCell + 2, 2 * (Slots - 1)) \o c)
    BY <2>1 DEF Enrolment
  <2> QED
    BY <2>2 DEF BeginWrite, ReadFrom, Shifted
<1>6. Used(mem, n) /\ call'.before = mem
  BY <1>1, <1>3, <1>4, <1>5
<1> QED
  BY <1>3, <1>4, <1>5, <1>6 DEF Enrols, Used, First, Second, Shifted

LEMMA EnrolStep ==
  ASSUME LockInv, EnrolInv, [Next]_vars
  PROVE  EnrolInv'
<1> USE DEF servoVars, flashVars, taskVars
<1>1. LockTypeOK
  BY DEF LockInv
<1>2. ASSUME UNCHANGED flashVars, phase # "idle" => UNCHANGED WriteFlag
      PROVE  EnrolInv'
  BY <1>2 DEF EnrolInv, Enrols, Used, First, Second, Shifted
<1>3. CASE ScanKey
  <2>1. UNCHANGED flashVars /\ pc = "scan"
    BY <1>3 DEF ScanKey, ScanKey1, ScanRemote, ScanDisable, ScanNothing,
                ScanEnrol, Select, Scanned
  <2>2. phase = "idle"
    BY <1>1, <2>1 DEF LockTypeOK
  <2> QED
    BY <1>2, <2>1, <2>2
<1>4. CASE OpenOnRequest \/ DoNothing \/ NoCardRead \/ Written
  <2>1. UNCHANGED flashVars /\ UNCHANGED WriteFlag
    BY <1>4 DEF OpenOnRequest, DoNothing, NoCardRead, Written, EndPoll
  <2> QED
    BY <1>2, <2>1
<1>5. ASSUME NEW c \in Card, CheckCard(c)
      PROVE  EnrolInv'
  <2>1. UNCHANGED flashVars /\ UNCHANGED WriteFlag
    BY <1>5 DEF CheckCard, EndPoll
  <2> QED
    BY <1>2, <2>1
<1>6. ASSUME NEW c \in Card, EnrolCard(c)
      PROVE  EnrolInv'
  <2>1. phase = "idle"
    BY <1>1, <1>6 DEF EnrolCard, LockTypeOK
  <2>2. \E n \in 0..Slots : Enrols(c, n)'
    BY <1>6, <2>1, EnrolmentEnrols DEF EnrolCard
  <2> QED
    BY <1>6, <2>2 DEF EnrolCard, EnrolInv
<1>7. CASE Writing
  <2>1. UNCHANGED <<call, WriteFlag>> /\ phase # "idle"
    BY <1>7 DEF Writing, FlashStep, PageStep, Program, EndPage
  <2> QED
    BY <2>1 DEF EnrolInv, Enrols, Used, First, Second, Shifted
<1>8. CASE Reset
  BY <1>8 DEF Reset, FlashReset, EnrolInv
<1>9. CASE UNCHANGED vars
  BY <1>2, <1>9 DEF vars
<1> QED
  BY <1>3, <1>4, <1>5, <1>6, <1>7, <1>8, <1>9 DEF Next, Act

LEMMA EnrolInvariant == Spec => []EnrolInv
<1>1. Init => EnrolInv
  BY DEF Init, FlashInit, EnrolInv
<1> QED
  BY <1>1, EnrolStep, LockInvariant, PTL DEF Spec

LEMMA AbstractInit ==
  ASSUME Init
  PROVE  Abstract!Init
<1>1. phase = "idle" /\ ~WriteFlag /\ servo = "closed" /\ opener = <<>>
  BY DEF Init, FlashInit
<1>2. mem \in [Cells -> Half] /\ Used(mem, 0)
  <2>1. mem = [a \in Cells |-> Blank]
    BY DEF Init, FlashInit
  <2> QED
    BY <2>1, TableCells DEF Used, FlashAssumption
<1>3. Entries(mem) \in Seq(HalfPair) /\ Len(Entries(mem)) = 0
  BY <1>2, TableCells, EntriesOf
<1>4. Entries(mem) = <<>>
  BY <1>3, EmptySeq
<1> QED
  BY <1>1, <1>4 DEF Abstract!Init

\* Without a write under way the table is that of the memory.
LEMMA TableKept ==
  ASSUME phase = "idle", phase' = "idle", mem' = mem
  PROVE  Table' = Table
BY DEF Table, Entries

LEMMA AbstractStep ==
  ASSUME LockInv, EnrolInv, LockInv', [Next]_vars
  PROVE  [Abstract!Next]_(Abstract!lockVars)
<1> USE DEF servoVars, flashVars, taskVars
<1> DEFINE armed == WriteFlag \/ phase # "idle"
           doorVars == <<servo, opener>>
           Stutters == /\ Table' = Table /\ (armed' <=> armed)
                       /\ UNCHANGED doorVars
<1>1. /\ LockTypeOK /\ FlashInv /\ LockTypeOK' /\ FlashInv'
      /\ WriteFlag \in BOOLEAN /\ WriteFlag' \in BOOLEAN
  BY DEF LockInv, LockTypeOK
<1>2. Stutters => UNCHANGED Abstract!lockVars
  BY DEF Abstract!lockVars, Abstract!doorVars, Table
<1>3. phase # "idle" <=> pc = "write" /\ phase # "idle"
  BY <1>1 DEF LockTypeOK
<1>4. CASE ScanKey
  <2>1. /\ phase = "idle" /\ phase' = "idle" /\ mem' = mem
        /\ UNCHANGED doorVars
    BY <1>3, <1>4 DEF ScanKey, ScanKey1, ScanRemote, ScanDisable, ScanNothing,
                      ScanEnrol, Select, Scanned
  <2>2. Table' = Table
    BY <2>1, TableKept
  <2>3. WriteFlag' = WriteFlag \/ WriteFlag' = TRUE
    BY <1>4 DEF ScanKey, ScanKey1, ScanRemote, ScanDisable, ScanNothing,
                ScanEnrol, Select, Scanned
  <2>4. CASE WriteFlag' = WriteFlag
    BY <1>2, <2>1, <2>2, <2>4
  <2>5. CASE WriteFlag' = TRUE
    <3>1. Abstract!Arm
      BY <2>1, <2>2, <2>5 DEF Abstract!Arm, Abstract!doorVars, Table
    <3> QED
      BY <3>1 DEF Abstract!Next
  <2> QED
    BY <2>3, <2>4, <2>5
<1>5. CASE OpenOnRequest
  <2>1. /\ phase = "idle" /\ phase' = "idle" /\ mem' = mem
        /\ WriteFlag' = WriteFlag /\ servo' = "open" /\ opener' = <<>>
    BY <1>3, <1>5 DEF OpenOnRequest, OpenTo, EndPoll
  <2>2. Abstract!OpenByHand
    BY <2>1, TableKept DEF Abstract!OpenByHand, Table
  <2> QED
    BY <2>2 DEF Abstract!Next
<1>6. CASE NoCardRead
  <2>1. /\ phase = "idle" /\ phase' = "idle" /\ mem' = mem
        /\ WriteFlag' = WriteFlag /\ servo' = "closed" /\ opener' = <<>>
    BY <1>3, <1>6 DEF NoCardRead, CloseDoor, EndPoll
  <2>2. Abstract!Close
    BY <2>1, TableKept DEF Abstract!Close, Table
  <2> QED
    BY <2>2 DEF Abstract!Next
<1>7. CASE DoNothing \/ Written
  <2>1. /\ phase = "idle" /\ phase' = "idle" /\ mem' = mem
        /\ WriteFlag' = WriteFlag /\ UNCHANGED doorVars
    BY <1>3, <1>7 DEF DoNothing, Written, EndPoll
  <2> QED
    BY <1>2, <2>1, TableKept
<1>8. ASSUME NEW c \in Card, CheckCard(c)
      PROVE  [Abstract!Next]_(Abstract!lockVars)
  <2>1. /\ phase = "idle" /\ phase' = "idle" /\ mem' = mem
        /\ WriteFlag' = WriteFlag /\ WriteFlag = FALSE
    BY <1>3, <1>8 DEF CheckCard, EndPoll
  <2>2. Table' = Table
    BY <2>1, TableKept
  <2>3. CASE UNCHANGED doorVars
    BY <1>2, <2>1, <2>2, <2>3
  <2>4. CASE /\ \E k \in 1..Slots : Slot(k) = c
             /\ servo' = "open" /\ opener' = c
    <3>1. PICK k \in 1..Slots : Slot(k) = c
      BY <2>4
    <3>2. PICK n \in 0..Slots : Used(mem, n)
      BY AlwaysOrdered DEF LockInv, Ordered
    <3>3. Slot(k) = SlotOf(mem, k)
      <4>1. TableCell \in Nat /\ Slots \in Nat
        BY TableCells
      <4>2. Slot(k) = [i \in 1..2 |-> mem[First(k) + i - 1]]
        BY DEF Slot, ReadFrom, First
      <4>3. First(k) + 1 - 1 = First(k) /\ First(k) + 2 - 1 = Second(k)
        BY <4>1 DEF First, Second
      <4> QED
        BY <4>2, <4>3 DEF SlotOf
    <3>4. k <= n
      <4>1. mem[First(k)] = c[1] /\ c[1] # Blank
        BY <3>1, <3>3, CardBuffer DEF SlotOf
      <4> QED
        BY <3>2, <4>1, TableCells DEF Used
    <3>5. /\ Entries(mem) = [j \in 1..n |-> SlotOf(mem, j)]
          /\ k \in 1..n
      <4>1. mem \in [Cells -> Half]
        BY <1>1 DEF LockTypeOK
      <4>2. Entries(mem) = [j \in 1..n |-> SlotOf(mem, j)]
        BY <3>2, <4>1, EntriesOf
      <4>3. k \in 1..n
        BY <3>4, TableCells
      <4> QED
        BY <4>2, <4>3
    <3>6. \E j \in DOMAIN Entries(mem) : Entries(mem)[j] = c
      BY <3>1, <3>3, <3>5
    <3>7. Abstract!Accept(c)
      BY <2>1, <2>2, <2>4, <3>6 DEF Abstract!Accept, Table
    <3> QED
      BY <3>7 DEF Abstract!Next
  <2> QED
    BY <1>8, <2>3, <2>4 DEF CheckCard, OpenTo
<1>9. ASSUME NEW c \in Card, EnrolCard(c)
      PROVE  [Abstract!Next]_(Abstract!lockVars)
  <2>1. phase = "idle" /\ WriteFlag = TRUE /\ UNCHANGED doorVars
    BY <1>3, <1>9 DEF EnrolCard
  <2>2. phase' = "page" /\ call'.before = mem
    BY <1>9 DEF EnrolCard, Enrolment, BeginWrite
  <2>3. Table' = Table
    BY <2>1, <2>2 DEF Table, Entries
  <2> QED
    BY <1>2, <2>1, <2>2, <2>3
<1>10. CASE Writing
  <2>1. /\ phase # "idle" /\ call' = call /\ WriteFlag' = WriteFlag
        /\ UNCHANGED doorVars /\ pc = "write"
    BY <1>10 DEF Writing, FlashStep, PageStep, Program, EndPage
  <2>2. CASE phase' # "idle"
    BY <1>2, <2>1, <2>2 DEF Table, Entries
  <2>3. CASE phase' = "idle"
    <3>1. PICK c \in Card, n \in 0..Slots : Enrols(c, n)
      BY <2>1 DEF EnrolInv
    <3>2. WriteFlag = FALSE
      BY <2>1 DEF EnrolInv
    <3>3. Table = Entries(call.before)
      BY <2>1 DEF Table
    <3>4. Table' = Entries(Target)
      <4>1. mem' = Target'
        BY <1>1, <2>3 DEF FlashInv, ProgressInv
      <4>2. Target' = Target
        BY <2>1 DEF Target, Stored, Cells
      <4> QED
        BY <2>3, <4>1, <4>2 DEF Table, Entries
    <3>5. Table' = Append(IF Len(Table) < Slots THEN Table ELSE Tail(Table), c)
      BY <1>1, <3>1, <3>3, <3>4, NewTable
    <3>6. Table' = Abstract!Enrolled(c)
      BY <3>5 DEF Abstract!Enrolled, Table
    <3>7. Abstract!Enrol(c)
      BY <2>1, <2>3, <3>2, <3>6 DEF Abstract!Enrol, Abstract!doorVars, Table
    <3> QED
      BY <3>7 DEF Abstract!Next
  <2> QED
    BY <2>2, <2>3
<1>11. CASE Reset
  <2>1. /\ phase' = "idle" /\ mem' = mem /\ WriteFlag' = FALSE
        /\ UNCHANGED doorVars
    BY <1>11 DEF Reset, FlashReset
  <2>2. CASE phase # "program"
    <3>1. Table' = Table
      <4>1. CASE phase = "idle"
        BY <2>1, <4>1, TableKept
      <4>2. CASE phase = "page"
        <5>1. mem = call.before
          BY <1>1, <4>2 DEF FlashInv, ProgressInv
        <5> QED
          BY <2>1, <4>2, <5>1 DEF Table, Entries
      <4> QED
        BY <1>1, <2>2, <4>1, <4>2 DEF FlashInv, CallInv
    <3>2. Abstract!Restart
      BY <2>1, <3>1 DEF Abstract!Restart, Abstract!doorVars, Table
    <3> QED
      BY <3>2 DEF Abstract!Next
  <2>3. CASE phase = "program"
    <3>1. PICK c \in Card, n \in 0..Slots : Enrols(c, n)
      BY <2>3 DEF EnrolInv
    <3> DEFINE new == Append(IF Len(Table) < Slots THEN Table ELSE Tail(Table),
                             c)
               low == IF Len(Table) < Slots THEN Len(Table) ELSE 0
    <3>2. Table = Entries(call.before) /\ Table' = Entries(mem)
      BY <2>1, <2>3 DEF Table, Entries
    <3>3. /\ Len(Table) = n /\ Entries(Target) = new
      BY <1>1, <3>1, <3>2, NewTable
    <3>4. \/ \E m \in low..Len(new) : Table' = SubSeq(new, 1, m)
          \/ \E m \in low..(Len(new) - 1) :
               Table' = Append(SubSeq(new, 1, m), <<new[m + 1][1], Blank>>)
      BY <1>1, <2>3, <3>1, <3>2, <3>3, CutTable
    <3>5. Table' \in Abstract!CutOff(c)
      BY <3>4 DEF Abstract!CutOff, Abstract!Enrolled, Table
    <3>6. Abstract!InterruptedEnrol(c)
      BY <2>1, <2>3, <3>5
      DEF Abstract!InterruptedEnrol, Abstract!doorVars, Table
    <3> QED
      BY <3>6 DEF Abstract!Next
  <2> QED
    BY <2>2, <2>3
<1>12. CASE UNCHANGED vars
  <2>1. UNCHANGED <<mem, phase, call, WriteFlag>> /\ UNCHANGED doorVars
    BY <1>12 DEF vars
  <2> QED
    BY <1>2, <2>1 DEF Table, Entries
<1> QED
  BY <1>4, <1>5, <1>6, <1>7, <1>8, <1>9, <1>10, <1>11, <1>12 DEF Next, Act

\* handle_task (systask.c) over STMFLASH_Write is an abstract lock with a table
\* of the last cards enrolled: for any flash geometry, cards and size of the
\* table, and resets between any two programmed half-words.
THEOREM Refinement == Spec => ImplementsCardLock
<1>1. Init => Abstract!Init
  BY AbstractInit
<1>2. LockInv /\ EnrolInv /\ LockInv' /\ [Next]_vars
        => [Abstract!Next]_(Abstract!lockVars)
  BY AbstractStep
<1> QED
  BY <1>1, <1>2, LockInvariant, EnrolInvariant, PTL
  DEF Spec, ImplementsCardLock, Abstract!Spec
=============================================================================
