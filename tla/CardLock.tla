------------------------------ MODULE CardLock ------------------------------
(***************************************************************************)
(* What the card lock of the STM32 application promises: a table of the    *)
(* cards enrolled most recently, in order of enrolment, that opens the     *)
(* door to the cards in it and survives power loss.                        *)
(*                                                                         *)
(* An entry is a pair of half-words.  A card is an entry; a torn entry,    *)
(* left by a power loss between the two halves of a card, has the erased   *)
(* value as its second half.                                               *)
(***************************************************************************)
EXTENDS Naturals, Sequences

CONSTANTS Card, Capacity, Blank

VARIABLES table,   \* the entries, oldest first
          armed,   \* the next card shown is enrolled
          door,    \* "open" or "closed"
          opener   \* the card the door was opened to, <<>> for none

doorVars == <<door, opener>>
lockVars == <<table, armed, doorVars>>

Entry == Card \cup {<<c[1], Blank>> : c \in Card}

Init == table = <<>> /\ ~armed /\ door = "closed" /\ opener = <<>>

\* The table with one more card: a full one forgets the oldest.
Enrolled(c) ==
  Append(IF Len(table) < Capacity THEN table ELSE Tail(table), c)

\* A power loss during the enrolment of c: nothing happened, or the new table
\* is cut off somewhere, between two entries or in the middle of one.  With a
\* free slot only the new entry is at stake.
CutOff(c) ==
  LET new == Enrolled(c)
      first == IF Len(table) < Capacity THEN Len(table) ELSE 0
  IN {table} \cup {SubSeq(new, 1, n) : n \in first..Len(new)} \cup
     {Append(SubSeq(new, 1, n), <<new[n + 1][1], Blank>>) :
        n \in first..(Len(new) - 1)}

Arm == armed' = TRUE /\ UNCHANGED <<table, doorVars>>

Enrol(c) ==
  /\ armed
  /\ table' = Enrolled(c)
  /\ armed' = FALSE
  /\ UNCHANGED doorVars

Restart ==
  /\ armed' = FALSE
  /\ UNCHANGED <<table, doorVars>>

InterruptedEnrol(c) ==
  /\ armed
  /\ table' \in CutOff(c)
  /\ armed' = FALSE
  /\ UNCHANGED doorVars

\* A card opens the door only when it is in the table and is not to be enrolled.
Accept(c) ==
  /\ ~armed
  /\ \E i \in DOMAIN table : table[i] = c
  /\ door' = "open" /\ opener' = c
  /\ UNCHANGED <<table, armed>>

\* The local key and the radio remote control.
OpenByHand ==
  /\ door' = "open" /\ opener' = <<>>
  /\ UNCHANGED <<table, armed>>

Close ==
  /\ door' = "closed" /\ opener' = <<>>
  /\ UNCHANGED <<table, armed>>

Next ==
  \/ Arm \/ Restart \/ OpenByHand \/ Close
  \/ \E c \in Card : Enrol(c) \/ InterruptedEnrol(c) \/ Accept(c)

Spec == Init /\ [][Next]_lockVars
=============================================================================
