------------------------------- MODULE OtaSlots -------------------------------
(***************************************************************************)
(* The flash of the ESP8266 as an update uses it, esp_ota_ops.c of the     *)
(* SDK: two slots for the firmware, ota_0 and ota_1                        *)
(* (partitions_two_ota.csv), and the partition otadata, two sectors each   *)
(* with a sequence number, which tell the slot to start from.  Power may   *)
(* be lost between any two steps.                                          *)
(*                                                                         *)
(* A chunk is what one esp_ota_write stores; a chunk of a slot is          *)
(* known by the download it comes from.  Abstracted: the list of handles,  *)
(* whose entry is the number of chunks written (wrote_size); the check of  *)
(* the link address, which is a failure of esp_ota_end.                    *)
(***************************************************************************)
EXTENDS Integers

CONSTANTS Source,    \* where firmware can be downloaded from
          ImageLen,  \* chunks of a firmware image
          SlotLen    \* chunks that a slot has room for

Slot == 0..1
Chunk == 1..SlotLen

\* An erased chunk, one that was written twice, and an erased sector.
Erased == [erased |-> TRUE]
Garbled == [erased |-> FALSE]
NoSeq == 0

ASSUME ImageAssumption ==
  /\ SlotLen \in Nat /\ ImageLen \in 1..SlotLen
  /\ Source # {} /\ Erased \notin Source /\ Garbled \notin Source

VARIABLES
  slots,    \* what is in the chunks of each slot
  otadata,  \* the sequence numbers of the two sectors, or NoSeq
  running   \* the slot the firmware runs from

slotVars == <<slots, otadata, running>>

\* An image from one source fills the beginning of a slot.
Whole(s) == \E d \in Source : \A k \in 1..ImageLen : slots[s][k] = d

\* esp_ota_get_boot_partition: the slot of the higher number, ota_0 if there is
\* no number.
BootSlot ==
  LET seq == IF otadata[0] >= otadata[1] THEN otadata[0] ELSE otadata[1]
  IN IF seq = NoSeq THEN 0 ELSE (seq - 1) % 2

\* What otadata holds in a device as it leaves the factory, after one update
\* and after two, and the slot that then runs.
History == {<<NoSeq, NoSeq, 0>>, <<2, NoSeq, 1>>, <<2, 3, 0>>}

\* The running slot has an image, the other one too if there was an update.
SlotsInit(d) ==
  \E h \in History :
    /\ otadata = [i \in Slot |-> h[i + 1]]
    /\ running = h[3]
    /\ slots = [s \in Slot |-> [k \in Chunk |->
                 IF k <= ImageLen /\ (s = running \/ h[1] # NoSeq) THEN d
                 ELSE Erased]]

-----------------------------------------------------------------------------
\* esp_ota_get_next_update_partition
NextUpdateSlot == 1 - running

\* Mutant of EraseSlot: the running slot is not spared.
EraseRunning(s) ==
  /\ slots' = [slots EXCEPT ![running] = [k \in Chunk |-> Erased]]
  /\ UNCHANGED <<otadata, running>>

\* esp_ota_begin erases all of the slot, as the size is not known.
EraseSlot(s) ==
  /\ s # running
  /\ slots' = [slots EXCEPT ![s] = [k \in Chunk |-> Erased]]
  /\ UNCHANGED <<otadata, running>>

\* esp_ota_write of chunk k; flash that is not erased keeps a mixture.
WriteChunk(s, k, d) ==
  /\ k \in Chunk
  /\ slots' = [slots EXCEPT ![s][k] = IF @ \in {Erased, d} THEN d ELSE Garbled]
  /\ UNCHANGED <<otadata, running>>

\* esp_image_load(ESP_IMAGE_VERIFY), in esp_ota_end and again in
\* esp_ota_set_boot_partition: the checksum of the image is right.
ImageLoads(s) == Whole(s)

-----------------------------------------------------------------------------
(* esp_rewrite_ota_data: the sector with the older number gets the next     *)
(* number that stands for the slot.                                         *)

Newest == IF otadata[0] >= otadata[1] THEN otadata[0] ELSE otadata[1]

\* Mutant of OlderSector: the sector of the newer number.
NewerSector == IF otadata[0] >= otadata[1] THEN 0 ELSE 1

\* A sector without a number is the older one; of two such, the first.
OlderSector ==
  IF otadata[0] = NoSeq THEN 0 ELSE IF otadata[0] >= otadata[1] THEN 1 ELSE 0

\* Mutant of SeqFor: the next number, whatever slot it stands for.
SeqAfter(s) == Newest + 1

\* The least number from the newest one on whose slot is s.
SeqFor(s) ==
  IF Newest # NoSeq /\ (Newest - 1) % 2 = s THEN Newest
  ELSE IF Newest = NoSeq THEN s + 1 ELSE Newest + 1

EraseSector(i) ==
  /\ otadata' = [otadata EXCEPT ![i] = NoSeq]
  /\ UNCHANGED <<slots, running>>

WriteSector(i, seq) ==
  /\ otadata' = [otadata EXCEPT ![i] = seq]
  /\ UNCHANGED <<slots, running>>

\* The boot loader starts the slot of otadata, the other one if there is no
\* image in it.
Boot ==
  /\ running' = IF Whole(BootSlot) \/ ~Whole(1 - BootSlot) THEN BootSlot
                ELSE 1 - BootSlot
  /\ UNCHANGED <<slots, otadata>>
=============================================================================
