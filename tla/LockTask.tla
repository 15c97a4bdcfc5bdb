------------------------------ MODULE LockTask ------------------------------
(***************************************************************************)
(* handle_task of the STM32 application (MODULE/systask.c) with ScanKey    *)
(* (key.c): it polls the keys, the radio lines A1..A4 and the card reader, *)
(* drives the servo, and keeps the enrolled cards in the flash memory that *)
(* StmFlash models.  The board may lose power, be reset by the watchdog or *)
(* reset itself for a mode change (uart.c) between any two steps.          *)
(*                                                                         *)
(* A poll has two steps, ScanKey and the branch on CurrentState.  OpenDoor *)
(* is one step (the task sleeps 3 s in it), the LED, the display and the   *)
(* acknowledgement pulses on K1..K4 are left out.                          *)
(***************************************************************************)
EXTENDS StmFlash, FiniteSetsExt

CONSTANTS Card,        \* the card identifiers: pairs of half-words
          Slots,       \* cards the table holds (STORED_NUMBER / 2 = 3)
          TableCell    \* first cell of the table (DATA_START_ADDR)

\* The identifier of a card does not start with 0xffff, which would read as a
\* free slot; the table lies in one page of the flash.
ASSUME CardAssumption == Card \subseteq (Half \ {Blank}) \X Half
ASSUME TableAssumption ==
  /\ Slots \in Nat \ {0}
  /\ TableCell \in Cells
  /\ (TableCell % PageSize) + 2 * Slots <= PageSize

VARIABLES
  pc,            \* where handle_task is in its loop
  CurrentState,
  WriteFlag,     \* the next card is to be enrolled
  servo,         \* the position last commanded
  opener         \* history: the card it was opened to, <<>> for none

servoVars == <<servo, opener>>
taskVars == <<pc, CurrentState, WriteFlag, servoVars>>
vars == <<taskVars, flashVars>>

State == {"NORMAL", "VALIDATION_LOCAL", "VALIDATION_REMOTE", "CARD_DISABLE",
          "VALIDATION_FAIL", "WRITE_SUCCESS"}

Init ==
  /\ FlashInit
  /\ pc = "scan"
  /\ CurrentState = "NORMAL"
  /\ WriteFlag = FALSE
  /\ servo = "closed"
  /\ opener = <<>>

-----------------------------------------------------------------------------
(* ScanKey, by the key that is down or the radio code that is received.    *)

Scanned == pc = "scan" /\ pc' = "act" /\ UNCHANGED <<servoVars, flashVars>>

Select(state) ==
  Scanned /\ CurrentState' = state /\ UNCHANGED WriteFlag

\* Mutant of ScanNothing: a poll that sees nothing keeps the state.
ScanKeepsState == Scanned /\ UNCHANGED <<CurrentState, WriteFlag>>

\* KEY1; the code 0110; the code 1111; no key and any other code.
ScanKey1 == Select("VALIDATION_LOCAL")
ScanRemote == Select("VALIDATION_REMOTE")
ScanDisable == Select("CARD_DISABLE")
ScanNothing == Select("NORMAL")

\* KEY2 or the code 1001: CurrentState stays as the last poll left it.
ScanEnrol == Scanned /\ WriteFlag' = TRUE /\ UNCHANGED CurrentState

ScanKey == ScanKey1 \/ ScanRemote \/ ScanDisable \/ ScanNothing \/ ScanEnrol

-----------------------------------------------------------------------------
(* The branches of handle_task.                                            *)

EndPoll(state) ==
  /\ pc' = "scan"
  /\ CurrentState' = state
  /\ UNCHANGED <<WriteFlag, flashVars>>

OpenTo(card) == servo' = "open" /\ opener' = card
CloseDoor == servo' = "closed" /\ opener' = <<>>

OpenOnRequest ==
  /\ pc = "act"
  /\ CurrentState \in {"VALIDATION_LOCAL", "VALIDATION_REMOTE"}
  /\ OpenTo(<<>>)
  /\ EndPoll("NORMAL")

\* CARD_DISABLE and the states that have no branch: the servo keeps its position.
DoNothing ==
  /\ pc = "act"
  /\ CurrentState \in {"CARD_DISABLE", "VALIDATION_FAIL", "WRITE_SUCCESS"}
  /\ EndPoll(CurrentState)
  /\ UNCHANGED servoVars

NoCardRead ==
  /\ pc = "act"
  /\ CurrentState = "NORMAL"
  /\ CloseDoor
  /\ EndPoll("NORMAL")

\* StoredUser, as entries of two half-words.
Slot(k) == ReadFrom(TableCell + 2 * (k - 1), 2)
Free(k) == Slot(k) = <<Blank, Blank>>

\* Mutant of CheckCard: the table is searched by the first half only.
CheckFirstHalf(c) ==
  /\ pc = "act"
  /\ CurrentState = "NORMAL"
  /\ ~WriteFlag
  /\ IF \E k \in 1..Slots : Slot(k)[1] = c[1]
     THEN OpenTo(c) /\ EndPoll("NORMAL")
     ELSE UNCHANGED servoVars /\ EndPoll("VALIDATION_FAIL")

\* A card is read and validated.
CheckCard(c) ==
  /\ pc = "act"
  /\ CurrentState = "NORMAL"
  /\ ~WriteFlag
  /\ IF \E k \in 1..Slots : Slot(k) = c
     THEN OpenTo(c) /\ EndPoll("NORMAL")
     ELSE UNCHANGED servoVars /\ EndPoll("VALIDATION_FAIL")

\* Mutant of Enrolment: the search does not stop at the first free slot.
EnrolmentInLast(c) ==
  IF \E k \in 1..Slots : Free(k)
  THEN BeginWrite(TableCell + 2 * (Max({k \in 1..Slots : Free(k)}) - 1), c)
  ELSE BeginWrite(TableCell, ReadFrom(TableCell + 2, 2 * (Slots - 1)) \o c)

\* Where an enrolment is written: into the first free slot, or over the whole
\* table, shifted by one card, if there is none.
Enrolment(c) ==
  IF \E k \in 1..Slots : Free(k)
  THEN BeginWrite(TableCell + 2 * (Min({k \in 1..Slots : Free(k)}) - 1), c)
  ELSE BeginWrite(TableCell, ReadFrom(TableCell + 2, 2 * (Slots - 1)) \o c)

\* A card is read and enrolled: WriteFlag is cleared first, then the flash is
\* written.
EnrolCard(c) ==
  /\ pc = "act"
  /\ CurrentState = "NORMAL"
  /\ WriteFlag
  /\ Enrolment(c)
  /\ WriteFlag' = FALSE
  /\ CurrentState' = "VALIDATION_FAIL"
  /\ pc' = "write"
  /\ UNCHANGED servoVars

Writing == pc = "write" /\ FlashStep /\ UNCHANGED taskVars

\* Mutant of Written: the poll goes on before the write is over.
WrittenTooSoon ==
  /\ pc = "write"
  /\ EndPoll("WRITE_SUCCESS")
  /\ UNCHANGED servoVars

Written ==
  /\ pc = "write"
  /\ phase = "idle"
  /\ EndPoll("WRITE_SUCCESS")
  /\ UNCHANGED servoVars

Act ==
  \/ OpenOnRequest \/ DoNothing \/ NoCardRead \/ Writing \/ Written
  \/ \E c \in Card : CheckCard(c) \/ EnrolCard(c)

\* The RAM is initialised anew, the servo gets no pulses and stays.
Reset ==
  /\ FlashReset
  /\ pc' = "scan"
  /\ CurrentState' = "NORMAL"
  /\ WriteFlag' = FALSE
  /\ UNCHANGED servoVars

Next == ScanKey \/ Act \/ Reset

Spec == Init /\ [][Next]_vars

\* handle_task never blocks for good (a key is released in the end).
FairSpec == Spec /\ WF_vars(ScanKey) /\ WF_vars(Act)

-----------------------------------------------------------------------------
LockTypeOK ==
  /\ mem \in [Cells -> Half]
  /\ phase \in Phase \ {"fault"}
  /\ pc \in {"scan", "act", "write"}
  /\ CurrentState \in State
  /\ WriteFlag \in BOOLEAN
  /\ servo \in {"open", "closed"}
  /\ opener \in Card \cup {<<>>}
  /\ phase # "idle" => pc = "write"

\* Wherever the enrolments were interrupted, no used slot follows a free one:
\* the search for the first free slot never reorders or overwrites an entry.
FreeSlotsLast == \A k \in 1..(Slots - 1) : Free(k) => Free(k + 1)

\* The table of the abstract lock: the slots up to the last that is used; while
\* an enrolment is being written, those from before it.
Entries(m) ==
  LET slot(k) == <<m[TableCell + 2 * (k - 1)], m[TableCell + 2 * k - 1]>>
      used == {k \in 1..Slots : slot(k) # <<Blank, Blank>>}
  IN [k \in 1..Max({0} \cup used) |-> slot(k)]

Abstract == INSTANCE CardLock WITH
  Capacity <- Slots,
  table <- Entries(IF phase = "idle" THEN mem ELSE call.before),
  armed <- WriteFlag \/ phase # "idle",
  door <- servo,
  opener <- opener

\* handle_task over the flash driver keeps the promises of CardLock, resets at
\* any point included.
ImplementsCardLock == Abstract!Spec

\* If the board stays up, no key or code is seen any more and no card is held
\* to the reader, the door closes.
Quiet == [][ScanNothing \/ OpenOnRequest \/ DoNothing \/ NoCardRead \/ Writing
            \/ Written]_vars
DoorCloses == <>Quiet => <>[](servo = "closed")
=============================================================================
