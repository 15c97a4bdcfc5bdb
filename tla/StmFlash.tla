------------------------------- MODULE StmFlash -------------------------------
(***************************************************************************)
(* STMFLASH_Write and STMFLASH_Read of the STM32 application and of its    *)
(* bootloader (MODULE/stmflash.c, the same code in both): the flash memory *)
(* of the chip, written a half-word at a time, erased a page at a time,    *)
(* and losing power or being reset between any two of these steps.         *)
(*                                                                         *)
(* Addresses are byte offsets from STM32_FLASH_BASE; cell a is the         *)
(* half-word at byte 2a.  A page erase and the programming of one          *)
(* half-word are atomic.                                                   *)
(***************************************************************************)
EXTENDS Integers, Sequences

CONSTANTS PageSize,   \* half-words in a page (512: STM_SECTOR_SIZE / 2)
          Pages,      \* pages in the flash
          Half,       \* the values a half-word takes
          Blank       \* 0xffff, the erased half-word

ASSUME FlashAssumption ==
  /\ PageSize \in Nat \ {0}
  /\ Pages \in Nat \ {0}
  /\ Blank \in Half

VARIABLES
  mem,     \* the flash cells
  phase,   \* where STMFLASH_Write is
  job,     \* its arguments and locals
  program, \* <<cell, value>> pairs STMFLASH_Write_NoCheck has yet to program
  call     \* history: the arguments of the latest write and the memory before

flashVars == <<mem, phase, job, program, call>>

Cells == 0..(Pages * PageSize - 1)
Phase == {"idle", "page", "program", "fault"}

\* Locals of a write: WriteAddr in bytes, the rest of pBuffer, the page, the
\* offset in it and the number of half-words that go into it.
Job == [addr : Nat, buf : Seq(Half), page : Nat, off : Nat, remain : Nat]
NoJob == [addr |-> 0, buf |-> <<>>, page |-> 0, off |-> 0, remain |-> 0]
NoCall(m) == [cell |-> 0, buf |-> <<>>, before |-> m]

FlashInit ==
  /\ mem = [a \in Cells |-> Blank]
  /\ phase = "idle"
  /\ job = NoJob
  /\ program = <<>>
  /\ call = NoCall(mem)

\* STMFLASH_Read of n half-words from a cell on.
ReadFrom(a, n) == [i \in 1..n |-> mem[a + i - 1]]

\* Memory m with a buffer stored from cell a on.
Stored(m, a, buf) ==
  [c \in Cells |-> IF c - a \in 0..(Len(buf) - 1) THEN buf[c - a + 1] ELSE m[c]]

AtMost(m, n) == IF m <= n THEN m ELSE n

\* Mutant of BeginWrite: the offset of the write in its page is forgotten, so
\* that the first page is taken to have room for all of it.
BeginAtPageStart(a, buf) ==
  /\ phase = "idle"
  /\ job' = [addr |-> 2 * a, buf |-> buf, page |-> a \div PageSize, off |-> 0,
             remain |-> AtMost(Len(buf), PageSize)]
  /\ phase' = "page"
  /\ call' = [cell |-> a, buf |-> buf, before |-> mem]
  /\ UNCHANGED <<mem, program>>

\* Mutant of BeginWrite: the page number is one too high.
BeginNextPage(a, buf) ==
  /\ phase = "idle"
  /\ job' = [addr |-> 2 * a, buf |-> buf,
             page |-> a \div PageSize + 1, off |-> a % PageSize,
             remain |-> AtMost(Len(buf), PageSize - (a % PageSize))]
  /\ phase' = "page"
  /\ call' = [cell |-> a, buf |-> buf, before |-> mem]
  /\ UNCHANGED <<mem, program>>

\* STMFLASH_Write is called for a non-empty buffer at a legal address.
BeginWrite(a, buf) ==
  /\ phase = "idle"
  /\ job' = [addr |-> 2 * a, buf |-> buf,
             page |-> a \div PageSize, off |-> a % PageSize,
             remain |-> AtMost(Len(buf), PageSize - (a % PageSize))]
  /\ phase' = "page"
  /\ call' = [cell |-> a, buf |-> buf, before |-> mem]
  /\ UNCHANGED <<mem, program>>

\* Mutant of NeedsErase: every write erases the page first.
AlwaysErase == TRUE

\* Does the part of the page this write covers hold anything?
NeedsErase ==
  \E i \in 0..(job.remain - 1) : mem[job.page * PageSize + job.off + i] # Blank

\* One round of the loop reads the page.  If a covered cell is in use it erases
\* the page and programs all of it, merged with the buffer; otherwise it
\* programs the covered cells at WriteAddr.
PageStep ==
  /\ phase = "page"
  /\ LET start == job.page * PageSize
         covered(i) == i - job.off \in 1..job.remain
         merged == [i \in 1..PageSize |->
                      <<start + i - 1, IF covered(i) THEN job.buf[i - job.off]
                                       ELSE mem[start + i - 1]>>]
     IN \/ /\ NeedsErase
           /\ mem' = [c \in Cells |-> IF c \div PageSize = job.page
                                      THEN Blank ELSE mem[c]]
           /\ program' = merged
           /\ phase' = "program"
        \/ /\ ~NeedsErase
           /\ IF job.addr % 2 = 0
              THEN /\ program' = [i \in 1..job.remain |->
                                    <<job.addr \div 2 + i - 1, job.buf[i]>>]
                   /\ phase' = "program"
              ELSE phase' = "fault" /\ program' = <<>>  \* unaligned half-word
           /\ UNCHANGED mem
  /\ UNCHANGED <<job, call>>

\* FLASH_ProgramHalfWord: a cell that is not erased keeps its value, and
\* STMFLASH_Write_NoCheck ignores the error.
Program ==
  /\ phase = "program"
  /\ program # <<>>
  /\ LET cell == Head(program)[1]
     IN mem' = IF mem[cell] = Blank
               THEN [mem EXCEPT ![cell] = Head(program)[2]] ELSE mem
  /\ program' = Tail(program)
  /\ UNCHANGED <<phase, job, call>>

\* The page is done: the write is over, or goes on with the next page.
\* WriteAddr, a byte address, advances by a number of half-words.
EndPage ==
  /\ phase = "program"
  /\ program = <<>>
  /\ LET rest == SubSeq(job.buf, job.remain + 1, Len(job.buf))
     IN IF rest = <<>>
        THEN phase' = "idle" /\ job' = NoJob
        ELSE /\ phase' = "page"
             /\ job' = [addr |-> job.addr + job.remain, buf |-> rest,
                        page |-> job.page + 1, off |-> 0,
                        remain |-> AtMost(Len(rest), PageSize)]
  /\ UNCHANGED <<mem, program, call>>

\* Power loss, watchdog or software reset: the memory is all that remains.
FlashReset ==
  /\ phase' = "idle"
  /\ job' = NoJob
  /\ program' = <<>>
  /\ call' = NoCall(mem)
  /\ UNCHANGED mem

FlashStep == PageStep \/ Program \/ EndPage

-----------------------------------------------------------------------------
FlashTypeOK ==
  /\ mem \in [Cells -> Half]
  /\ phase \in Phase
  /\ job \in [addr : Nat, buf : Seq(Half), page : 0..(Pages - 1),
              off : 0..(PageSize - 1), remain : 0..PageSize]
  /\ \A i \in DOMAIN program : program[i] \in Cells \X Half
  /\ call.before \in [Cells -> Half]

\* STMFLASH_Write "writes data of the given length from the given address on"
\* (stmflash.c:27), whatever the cells held: once it returns, the buffer is
\* stored and every other cell has its old value.
WriteStoresData ==
  phase = "idle" => mem = Stored(call.before, call.cell, call.buf)

\* Wherever a write is interrupted, the pages it does not reach hold what they
\* held before it, and if the cells it covers were erased, so does every cell
\* it does not cover.
Covered == call.cell..(call.cell + Len(call.buf) - 1)
OtherCellsKept ==
  \A c \in Cells \ Covered :
    \/ mem[c] = call.before[c]
    \/ /\ \E d \in Covered : d \div PageSize = c \div PageSize
       /\ \E d \in Covered : call.before[d] # Blank
=============================================================================
