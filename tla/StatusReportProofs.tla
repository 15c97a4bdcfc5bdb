-------------------------- MODULE StatusReportProofs --------------------------
(***************************************************************************)
(* Proofs about StatusReport for any set of reporting tasks and any number *)
(* of reports, broken connections and messages sent again.                 *)
(***************************************************************************)
EXTENDS StatusReport, SequenceTheorems, TLAPS

USE ReportAssumption

Kept == [id : Nat, version : 0..lastDoorStatus, sent : BOOLEAN]
Sent == [id : Nat, version : 0..lastDoorStatus,
         kind : {"latest", "overtaken", "again"}]

\* Nothing is newer than the status that is remembered.
VersionsInv ==
  /\ lastDoorStatus \in 0..MaxReports
  /\ status \in [Reporter -> 0..lastDoorStatus]
  /\ taken \in 0..lastDoorStatus
  /\ cloud \in 0..lastDoorStatus
  /\ outbox \in Seq(Kept)
  /\ toBroker \in Seq(Sent)
  /\ toClient \in Seq(Nat)
  /\ nextId \in Nat

ConnectionInv ==
  /\ connected \in BOOLEAN
  /\ client \in {"down", "up", "connected", "asked", "publishing"}
  /\ connected <=> client # "down"
  /\ pc \in [Reporter -> {"idle", "check", "publish"}]
  /\ breaks \in Nat
  /\ resends \in Nat

\* The identifiers of the kept messages ascend and have been used.
OutboxInv ==
  /\ \A i \in 1..Len(outbox) : outbox[i].id < nextId
  /\ \A i, k \in 1..Len(outbox) : i < k => outbox[i].id < outbox[k].id

\* What was the latest status when it was published is not older than what is
\* ahead of it, nor than what the cloud shows.
OrderInv ==
  \A j \in 1..Len(toBroker) : toBroker[j].kind = "latest" =>
    /\ cloud <= toBroker[j].version
    /\ \A i \in 1..(j - 1) : toBroker[i].version <= toBroker[j].version

\* The cloud has the latest status, or it is in transit, or its reporter is
\* going to publish it.
Delivered ==
  \/ lastDoorStatus \in received
  \/ \E i \in 1..Len(toBroker) : toBroker[i].version = lastDoorStatus
  \/ \E r \in Reporter : pc[r] # "idle" /\ status[r] = lastDoorStatus

\* So it is on an established connection, or the handler is going to publish it.
DeliveryInv ==
  /\ client \in {"up", "asked"} => Delivered
  /\ client = "publishing" => taken = lastDoorStatus \/ Delivered

ReportInv ==
  VersionsInv /\ ConnectionInv /\ OutboxInv /\ OrderInv /\ DeliveryInv

-----------------------------------------------------------------------------
\* A message less is kept, the others in their order.
LEMMA Removal ==
  ASSUME NEW S, NEW s \in Seq(S), NEW i \in DOMAIN s
  PROVE  /\ RemoveAt(s, i) \in Seq(S)
         /\ Len(RemoveAt(s, i)) = Len(s) - 1
         /\ \A k \in 1..Len(RemoveAt(s, i)) :
              RemoveAt(s, i)[k] = IF k < i THEN s[k] ELSE s[k + 1]
<1> DEFINE a == SubSeq(s, 1, i - 1)
           b == SubSeq(s, i + 1, Len(s))
<1>1. Len(s) \in Nat /\ i \in 1..Len(s)
  BY LenProperties
<1>2. /\ a \in Seq(S) /\ Len(a) = i - 1
      /\ \A k \in 1..(i - 1) : a[k] = s[k]
  <2>1. \A k \in 1..(i - 1) : s[k] \in S
    BY <1>1, ElementOfSeq
  <2>2. 1 \in Int /\ i - 1 \in Int
    BY <1>1
  <2>3. /\ a \in Seq(S) /\ Len(a) = IF 1 <= i - 1 THEN i - 1 - 1 + 1 ELSE 0
        /\ \A k \in 1..(i - 1 - 1 + 1) : a[k] = s[1 + k - 1]
    BY <2>1, <2>2, SubSeqProperties
  <2> QED
    BY <1>1, <2>3
<1>3. /\ b \in Seq(S) /\ Len(b) = Len(s) - i
      /\ \A k \in 1..(Len(s) - i) : b[k] = s[i + k]
  <2>1. \A k \in (i + 1)..Len(s) : s[k] \in S
    BY <1>1, ElementOfSeq
  <2>2. Len(s) \in Int /\ i + 1 \in Int
    BY <1>1
  <2>3. /\ b \in Seq(S)
        /\ Len(b) = IF i + 1 <= Len(s) THEN Len(s) - (i + 1) + 1 ELSE 0
        /\ \A k \in 1..(Len(s) - (i + 1) + 1) : b[k] = s[i + 1 + k - 1]
    BY <2>1, <2>2, SubSeqProperties
  <2> QED
    BY <1>1, <2>3
<1> HIDE DEF a, b
<1>4. /\ a \o b \in Seq(S) /\ Len(a \o b) = Len(s) - 1
      /\ \A k \in 1..(Len(s) - 1) :
           (a \o b)[k] = IF k <= i - 1 THEN a[k] ELSE b[k - (i - 1)]
  <2>1. /\ a \o b \in Seq(S) /\ Len(a \o b) = Len(a) + Len(b)
        /\ \A k \in 1..(Len(a) + Len(b)) :
             (a \o b)[k] = IF k <= Len(a) THEN a[k] ELSE b[k - Len(a)]
    BY <1>2, <1>3, ConcatProperties
  <2>2. Len(a) + Len(b) = Len(s) - 1 /\ Len(a) = i - 1
    BY <1>1, <1>2, <1>3
  <2>3. \A k \in 1..(Len(s) - 1) : k <= Len(a) <=> k <= i - 1
    BY <2>2
  <2> QED
    BY <2>1, <2>2, <2>3
<1>5. RemoveAt(s, i) = a \o b
  BY DEF RemoveAt, a, b
<1>6. \A k \in 1..(Len(s) - 1) : (a \o b)[k] = IF k < i THEN s[k] ELSE s[k + 1]
  <2> TAKE k \in 1..(Len(s) - 1)
  <2>1. CASE k < i
    BY <1>1, <1>2, <1>4, <2>1
  <2>2. CASE ~(k < i)
    <3>1. k - (i - 1) \in 1..(Len(s) - i) /\ i + (k - (i - 1)) = k + 1
      BY <1>1, <2>2
    <3>2. ~(k <= i - 1)
      BY <1>1, <2>2
    <3>3. (a \o b)[k] = b[k - (i - 1)]
      BY <1>4, <3>2
    <3>4. b[k - (i - 1)] = s[i + (k - (i - 1))]
      BY <1>3, <3>1
    <3> QED
      BY <2>2, <3>1, <3>3, <3>4
  <2> QED
    BY <2>1, <2>2
<1> QED
  BY <1>4, <1>5, <1>6

-----------------------------------------------------------------------------
(* The outbox and the messages in transit under what the actions do to     *)
(* them.                                                                   *)

LEMMA KeptTyped ==
  ASSUME VersionsInv, NEW i \in 1..Len(outbox)
  PROVE  outbox[i] \in Kept /\ outbox[i].id \in Nat
<1>1. outbox[i] \in Kept
  BY ElementOfSeq DEF VersionsInv
<1> QED
  BY <1>1 DEF Kept

LEMMA SentTyped ==
  ASSUME VersionsInv, NEW i \in 1..Len(toBroker)
  PROVE  toBroker[i] \in Sent /\ toBroker[i].version \in 0..lastDoorStatus
<1>1. toBroker[i] \in Sent
  BY ElementOfSeq DEF VersionsInv
<1> QED
  BY <1>1 DEF Sent

LEMMA OutboxAppended ==
  ASSUME VersionsInv, OutboxInv, NEW m \in Kept, m.id = nextId,
         outbox' = Append(outbox, m), nextId' = nextId + 1,
         lastDoorStatus' = lastDoorStatus
  PROVE  outbox' \in Seq(Kept') /\ nextId' \in Nat /\ OutboxInv'
<1>1. /\ outbox' \in Seq(Kept) /\ Len(outbox') = Len(outbox) + 1
      /\ \A i \in 1..Len(outbox) : outbox'[i] = outbox[i]
      /\ outbox'[Len(outbox) + 1] = m
  BY AppendProperties DEF VersionsInv
<1>2. Len(outbox) \in Nat /\ nextId \in Nat
  BY LenProperties DEF VersionsInv
<1>3. \A i \in 1..Len(outbox) : outbox[i].id \in Nat
  BY KeptTyped
<1>4. \A i \in 1..Len(outbox') : outbox'[i].id < nextId'
  BY <1>1, <1>2, <1>3 DEF OutboxInv
<1>5. \A i, k \in 1..Len(outbox') : i < k => outbox'[i].id < outbox'[k].id
  <2> TAKE i, k \in 1..Len(outbox')
  <2>1. CASE k = Len(outbox) + 1
    BY <1>1, <1>2, <1>3, <2>1 DEF OutboxInv
  <2>2. ASSUME k # Len(outbox) + 1, i < k PROVE outbox'[i].id < outbox'[k].id
    <3>1. i \in 1..Len(outbox) /\ k \in 1..Len(outbox)
      BY <1>1, <1>2, <2>2
    <3> QED
      BY <1>1, <2>2, <3>1 DEF OutboxInv
  <2> QED
    BY <2>1, <2>2
<1>6. Kept' = Kept
  BY DEF Kept
<1> QED
  BY <1>1, <1>2, <1>4, <1>5, <1>6 DEF OutboxInv

LEMMA OutboxRemoved ==
  ASSUME VersionsInv, OutboxInv, NEW i \in DOMAIN outbox,
         outbox' = RemoveAt(outbox, i),
         UNCHANGED <<nextId, lastDoorStatus>>
  PROVE  outbox' \in Seq(Kept') /\ OutboxInv'
<1>1. /\ outbox' \in Seq(Kept) /\ Len(outbox') = Len(outbox) - 1
      /\ \A k \in 1..Len(outbox') :
           outbox'[k] = IF k < i THEN outbox[k] ELSE outbox[k + 1]
  BY Removal DEF VersionsInv
<1>2. Len(outbox) \in Nat /\ nextId \in Nat /\ i \in 1..Len(outbox)
  BY LenProperties DEF VersionsInv
<1>3. \A k \in 1..Len(outbox) : outbox[k].id \in Nat
  BY KeptTyped
<1>4. \A k \in 1..Len(outbox') : outbox'[k].id < nextId
  <2> TAKE k \in 1..Len(outbox')
  <2>1. k \in 1..Len(outbox) /\ k + 1 \in 1..Len(outbox)
    BY <1>1, <1>2
  <2> QED
    BY <1>1, <2>1 DEF OutboxInv
<1>5. \A h, k \in 1..Len(outbox') : h < k => outbox'[h].id < outbox'[k].id
  <2> SUFFICES ASSUME NEW h \in 1..Len(outbox'), NEW k \in 1..Len(outbox'),
                      h < k
               PROVE  outbox'[h].id < outbox'[k].id
    OBVIOUS
  <2> DEFINE before(x) == IF x < i THEN x ELSE x + 1
  <2>1. before(h) \in 1..Len(outbox) /\ before(k) \in 1..Len(outbox)
        /\ before(h) < before(k)
    BY <1>1, <1>2
  <2>2. outbox'[h] = outbox[before(h)] /\ outbox'[k] = outbox[before(k)]
    BY <1>1
  <2> QED
    BY <2>1, <2>2 DEF OutboxInv
<1>6. Kept' = Kept
  BY DEF Kept
<1> QED
  BY <1>1, <1>4, <1>5, <1>6 DEF OutboxInv

LEMMA OutboxMarked ==
  ASSUME VersionsInv, OutboxInv, NEW i \in DOMAIN outbox,
         outbox' = [outbox EXCEPT ![i].sent = TRUE],
         UNCHANGED <<nextId, lastDoorStatus>>
  PROVE  outbox' \in Seq(Kept') /\ OutboxInv'
<1> DEFINE m == [outbox[i] EXCEPT !.sent = TRUE]
<1>1. Len(outbox) \in Nat /\ i \in 1..Len(outbox)
  BY LenProperties DEF VersionsInv
<1>2. outbox[i] \in Kept
  BY <1>1, ElementOfSeq DEF VersionsInv
<1>3. m \in Kept /\ m.id = outbox[i].id
  BY <1>2 DEF Kept
<1>4. outbox' = [outbox EXCEPT ![i] = m]
  OBVIOUS
<1> HIDE DEF m
<1>5. /\ outbox' \in Seq(Kept) /\ Len(outbox') = Len(outbox)
      /\ \A k \in 1..Len(outbox) :
           outbox'[k] = IF k = i THEN m ELSE outbox[k]
  <2>1. outbox \in Seq(Kept) /\ m \in Kept
    BY <1>3 DEF VersionsInv
  <2>2. /\ [outbox EXCEPT ![i] = m] \in Seq(Kept)
        /\ Len([outbox EXCEPT ![i] = m]) = Len(outbox)
    BY <1>1, <2>1, ExceptSeq
  <2>3. \A k \in 1..Len(outbox) :
          [outbox EXCEPT ![i] = m][k] = IF k = i THEN m ELSE outbox[k]
    BY <1>1, <2>1, ExceptSeq
  <2> QED
    BY <1>4, <2>2, <2>3
<1>6. \A k \in 1..Len(outbox) : outbox'[k].id = outbox[k].id
  BY <1>3, <1>5
<1>7. Kept' = Kept
  BY DEF Kept
<1> QED
  BY <1>5, <1>6, <1>7 DEF OutboxInv

LEMMA SentAppended ==
  ASSUME VersionsInv, OrderInv, NEW m \in Sent,
         m.kind = "latest" => m.version = lastDoorStatus,
         toBroker' = Append(toBroker, m), UNCHANGED <<cloud, lastDoorStatus>>
  PROVE  /\ toBroker' \in Seq(Sent') /\ OrderInv'
         /\ \E i \in 1..Len(toBroker') : toBroker'[i].version = m.version
         /\ \A i \in 1..Len(toBroker) :
              i \in 1..Len(toBroker') /\ toBroker'[i] = toBroker[i]
<1>1. /\ toBroker' \in Seq(Sent) /\ Len(toBroker') = Len(toBroker) + 1
      /\ \A i \in 1..Len(toBroker) : toBroker'[i] = toBroker[i]
      /\ toBroker'[Len(toBroker) + 1] = m
  BY AppendProperties DEF VersionsInv
<1>2. Len(toBroker) \in Nat /\ lastDoorStatus \in Nat /\ cloud <= lastDoorStatus
  BY LenProperties DEF VersionsInv
<1>3. \A i \in 1..Len(toBroker) :
        toBroker[i].version \in Nat /\ toBroker[i].version <= lastDoorStatus
  BY <1>2, SentTyped
<1>4. OrderInv'
  <2> SUFFICES ASSUME NEW j \in 1..Len(toBroker'), toBroker'[j].kind = "latest"
               PROVE  /\ cloud <= toBroker'[j].version
                      /\ \A i \in 1..(j - 1) :
                           toBroker'[i].version <= toBroker'[j].version
    BY DEF OrderInv
  <2>1. CASE j = Len(toBroker) + 1
    BY <1>1, <1>2, <1>3, <2>1
  <2>2. CASE j # Len(toBroker) + 1
    <3>1. j \in 1..Len(toBroker) /\ \A i \in 1..(j - 1) : i \in 1..Len(toBroker)
      BY <1>1, <1>2, <2>2
    <3> QED
      BY <1>1, <3>1 DEF OrderInv
  <2> QED
    BY <2>1, <2>2
<1>5. Sent' = Sent
  BY DEF Sent
<1>6. Len(toBroker) + 1 \in 1..Len(toBroker')
  BY <1>1, <1>2
<1>7. \A i \in 1..Len(toBroker) : i \in 1..Len(toBroker')
  BY <1>1, <1>2
<1> QED
  BY <1>1, <1>4, <1>5, <1>6, <1>7

LEMMA Aborted ==
  ASSUME ConnectionInv, Abort
  PROVE  /\ toBroker' \in Seq(Sent') /\ toClient' \in Seq(Nat) /\ OrderInv'
         /\ client' = "down" /\ connected' = FALSE /\ breaks' \in Nat
<1>1. toBroker' \in Seq(Sent') /\ Len(toBroker') = 0 /\ toClient' \in Seq(Nat)
  BY EmptySeq DEF Abort
<1>2. 1..Len(toBroker') = {}
  BY <1>1
<1> QED
  BY <1>1, <1>2 DEF Abort, OrderInv, ConnectionInv

\* What a publication leaves, whoever publishes the version v: it is kept for
\* the outbox; it is not sent, or it is, or the connection breaks.
LEMMA Publishing ==
  ASSUME ReportInv, NEW v \in 0..lastDoorStatus, NEW state, Publish(v, state),
         UNCHANGED <<lastDoorStatus, cloud>>
  PROVE  /\ outbox' \in Seq(Kept') /\ nextId' \in Nat /\ OutboxInv'
         /\ toBroker' \in Seq(Sent') /\ toClient' \in Seq(Nat) /\ OrderInv'
         /\ breaks' \in Nat
         /\ \/ client = "down" /\ UNCHANGED <<client, connected>>
            \/ /\ client # "down" /\ client' = state /\ UNCHANGED connected
               /\ \E i \in 1..Len(toBroker') : toBroker'[i].version = v
               /\ \A i \in 1..Len(toBroker) :
                    i \in 1..Len(toBroker') /\ toBroker'[i] = toBroker[i]
            \/ client' = "down" /\ connected' = FALSE
<1> DEFINE kept(sent) == [id |-> nextId, version |-> v, sent |-> sent]
           m == [id |-> nextId, version |-> v,
                 kind |-> IF v = lastDoorStatus THEN "latest" ELSE "overtaken"]
<1> USE DEF ReportInv
<1>1. \A sent \in BOOLEAN : kept(sent) \in Kept /\ kept(sent).id = nextId
  BY DEF Kept, VersionsInv
<1>2. m \in Sent /\ (m.kind = "latest" => m.version = lastDoorStatus)
      /\ m.version = v
  BY DEF Sent, VersionsInv
<1>3. /\ nextId' = nextId + 1
      /\ \E sent \in BOOLEAN : outbox' = Append(outbox, kept(sent))
  BY DEF Publish
<1> HIDE DEF kept, m
<1>4. outbox' \in Seq(Kept') /\ nextId' \in Nat /\ OutboxInv'
  BY <1>1, <1>3, OutboxAppended
<1>5. CASE client = "down" /\ UNCHANGED <<connectionVars, toBroker>>
  <2>1. Sent' = Sent
    BY DEF Sent
  <2> QED
    BY <1>4, <1>5, <2>1
       DEF connectionVars, VersionsInv, ConnectionInv, OrderInv
<1>6. CASE /\ client # "down" /\ client' = state
           /\ toBroker' = Append(toBroker, m)
           /\ UNCHANGED <<connected, toClient, breaks>>
  <2>1. /\ toBroker' \in Seq(Sent') /\ OrderInv'
        /\ \E i \in 1..Len(toBroker') : toBroker'[i].version = v
        /\ \A i \in 1..Len(toBroker) :
             i \in 1..Len(toBroker') /\ toBroker'[i] = toBroker[i]
    BY <1>2, <1>6, SentAppended
  <2> QED
    BY <1>4, <1>6, <2>1 DEF VersionsInv, ConnectionInv
<1>7. CASE client # "down" /\ Abort
  BY <1>4, <1>7, Aborted
<1> QED
  BY <1>5, <1>6, <1>7 DEF Publish, m

-----------------------------------------------------------------------------
LEMMA InitReport == Init => ReportInv
<1> SUFFICES ASSUME Init PROVE ReportInv
  OBVIOUS
<1>1. /\ outbox \in Seq(Kept) /\ toBroker \in Seq(Sent) /\ toClient \in Seq(Nat)
      /\ Len(outbox) = 0 /\ Len(toBroker) = 0
  BY EmptySeq DEF Init
<1>2. 1..0 = {}
  OBVIOUS
<1>3. VersionsInv
  BY <1>1 DEF VersionsInv, Init
<1>4. ConnectionInv /\ DeliveryInv
  BY DEF ConnectionInv, DeliveryInv, Init
<1>5. OutboxInv /\ OrderInv
  BY <1>1, <1>2 DEF OutboxInv, OrderInv
<1> QED
  BY <1>3, <1>4, <1>5 DEF ReportInv

\* What is in transit stays so or arrives, and no reporter is done.
LEMMA DeliveredKept ==
  ASSUME Delivered, UNCHANGED <<lastDoorStatus, received, pc, status>>,
         \A i \in 1..Len(toBroker) :
           i \in 1..Len(toBroker') /\ toBroker'[i] = toBroker[i]
  PROVE  Delivered'
BY DEF Delivered

\* A step that changes neither the outbox nor what is in transit.
LEMMA Untouched ==
  ASSUME ReportInv,
         taken' \in 0..lastDoorStatus,
         UNCHANGED <<lastDoorStatus, status, outbox, nextId, toBroker, toClient,
                     cloud>>
  PROVE  VersionsInv' /\ OutboxInv' /\ OrderInv'
<1>1. Kept' = Kept /\ Sent' = Sent
  BY DEF Kept, Sent
<1> QED
  BY <1>1 DEF ReportInv, VersionsInv, OutboxInv, OrderInv

LEMMA ConnectKeeps == ReportInv /\ Connect => ReportInv'
<1> SUFFICES ASSUME ReportInv, Connect PROVE ReportInv'
  OBVIOUS
<1>1. VersionsInv' /\ OutboxInv' /\ OrderInv'
  BY Untouched DEF Connect, reportVars, handlerVars, cloudVars, ReportInv,
     VersionsInv
<1>2. ConnectionInv' /\ DeliveryInv'
  BY DEF Connect, reportVars, ReportInv, ConnectionInv, DeliveryInv
<1> QED
  BY <1>1, <1>2 DEF ReportInv

\* A new version: nothing that is kept or in transit is newer than it.
LEMMA NewVersion ==
  ASSUME ReportInv, lastDoorStatus < MaxReports,
         lastDoorStatus' = lastDoorStatus + 1,
         status' \in [Reporter -> 0..lastDoorStatus'] \/ UNCHANGED status,
         taken' \in {taken, lastDoorStatus'},
         UNCHANGED <<cloud, outbox, toBroker, toClient, nextId>>
  PROVE  VersionsInv'
<1>1. /\ lastDoorStatus \in 0..MaxReports /\ lastDoorStatus' \in 0..MaxReports
      /\ 0..lastDoorStatus \subseteq 0..lastDoorStatus'
      /\ lastDoorStatus' \in 0..lastDoorStatus'
  BY DEF ReportInv, VersionsInv
<1>2. Kept \subseteq Kept' /\ Sent \subseteq Sent'
  BY <1>1 DEF Kept, Sent
<1>3. outbox \in Seq(Kept') /\ toBroker \in Seq(Sent')
  BY <1>2, SeqMonotonic DEF ReportInv, VersionsInv
<1>4. status' \in [Reporter -> 0..lastDoorStatus']
  BY <1>1 DEF ReportInv, VersionsInv
<1> QED
  BY <1>1, <1>3, <1>4 DEF ReportInv, VersionsInv

LEMMA ReceiveGetKeeps == ReportInv /\ ReceiveGet => ReportInv'
<1> SUFFICES ASSUME ReportInv, ReceiveGet PROVE ReportInv'
  OBVIOUS
<1>1. VersionsInv' /\ OutboxInv' /\ OrderInv'
  BY Untouched DEF ReceiveGet, reportVars, cloudVars, ReportInv, VersionsInv
<1>2. ConnectionInv' /\ DeliveryInv'
  BY DEF ReceiveGet, reportVars, cloudVars, ReportInv, ConnectionInv,
     DeliveryInv, Delivered
<1> QED
  BY <1>1, <1>2 DEF ReportInv

LEMMA TakeLastKeeps == ReportInv /\ TakeLast => ReportInv'
<1> SUFFICES ASSUME ReportInv, TakeLast PROVE ReportInv'
  OBVIOUS
<1>1. VersionsInv' /\ OutboxInv' /\ OrderInv'
  BY Untouched DEF TakeLast, reportVars, cloudVars, ReportInv, VersionsInv
<1>2. ConnectionInv' /\ DeliveryInv'
  BY DEF TakeLast, reportVars, ReportInv, ConnectionInv, DeliveryInv
<1> QED
  BY <1>1, <1>2 DEF ReportInv

LEMMA ReceiveSetKeeps == ReportInv /\ ReceiveSet => ReportInv'
<1> SUFFICES ASSUME ReportInv, ReceiveSet PROVE ReportInv'
  OBVIOUS
<1>1. /\ client = "up" /\ client' = "publishing" /\ taken' = lastDoorStatus'
      /\ lastDoorStatus < MaxReports /\ lastDoorStatus' = lastDoorStatus + 1
      /\ UNCHANGED <<pc, status, connected, breaks, toBroker, toClient, cloud,
                     received, nextId, resends, outbox>>
  BY DEF ReceiveSet, cloudVars
<1>2. VersionsInv'
  BY <1>1, NewVersion
<1>3. ConnectionInv' /\ OutboxInv' /\ OrderInv'
  BY <1>1 DEF ReportInv, ConnectionInv, OutboxInv, OrderInv
<1>4. DeliveryInv'
  BY <1>1 DEF DeliveryInv
<1> QED
  BY <1>2, <1>3, <1>4 DEF ReportInv

LEMMA PublishLastKeeps == ReportInv /\ PublishLast => ReportInv'
<1> SUFFICES ASSUME ReportInv, PublishLast PROVE ReportInv'
  OBVIOUS
<1>1. /\ client = "publishing" /\ Publish(taken, "up")
      /\ UNCHANGED <<lastDoorStatus, pc, status, taken, cloud, received, resends>>
  BY DEF PublishLast, reportVars, handlerVars, cloudVars
<1>2. taken \in 0..lastDoorStatus
  BY DEF ReportInv, VersionsInv
<1>3. /\ outbox' \in Seq(Kept') /\ nextId' \in Nat /\ OutboxInv'
      /\ toBroker' \in Seq(Sent') /\ toClient' \in Seq(Nat) /\ OrderInv'
      /\ breaks' \in Nat
  BY <1>1, <1>2, Publishing
<1>4. \/ /\ client' = "up" /\ UNCHANGED connected
         /\ \E i \in 1..Len(toBroker') : toBroker'[i].version = taken
         /\ \A i \in 1..Len(toBroker) :
              i \in 1..Len(toBroker') /\ toBroker'[i] = toBroker[i]
      \/ client' = "down" /\ connected' = FALSE
  BY <1>1, <1>2, Publishing
<1>5. VersionsInv'
  BY <1>1, <1>3 DEF ReportInv, VersionsInv
<1>6. ConnectionInv'
  BY <1>1, <1>3, <1>4 DEF ReportInv, ConnectionInv
<1>7. DeliveryInv'
  <2> SUFFICES ASSUME client' = "up" PROVE Delivered'
    BY <1>4 DEF DeliveryInv
  <2>1. CASE taken = lastDoorStatus
    BY <1>1, <1>4, <2>1 DEF Delivered
  <2>2. CASE Delivered
    BY <1>1, <1>4, <2>2, DeliveredKept
  <2> QED
    BY <1>1, <2>1, <2>2 DEF ReportInv, DeliveryInv
<1> QED
  BY <1>3, <1>5, <1>6, <1>7 DEF ReportInv

LEMMA BreakKeeps == ReportInv /\ (Break \/ ReplyFails) => ReportInv'
<1> SUFFICES ASSUME ReportInv, Break \/ ReplyFails PROVE ReportInv'
  OBVIOUS
<1>1. Abort /\ UNCHANGED <<reportVars, taken, outbox, cloudVars, nextId, resends>>
  BY DEF Break, ReplyFails, handlerVars
<1>2. /\ toBroker' \in Seq(Sent') /\ toClient' \in Seq(Nat) /\ OrderInv'
      /\ client' = "down" /\ connected' = FALSE /\ breaks' \in Nat
  BY <1>1, Aborted DEF ReportInv
<1>3. Kept' = Kept
  BY <1>1 DEF Kept, reportVars
<1>4. VersionsInv' /\ OutboxInv'
  BY <1>1, <1>2, <1>3 DEF ReportInv, VersionsInv, OutboxInv, reportVars, cloudVars
<1>5. ConnectionInv' /\ DeliveryInv'
  BY <1>1, <1>2 DEF ReportInv, ConnectionInv, DeliveryInv, reportVars
<1> QED
  BY <1>2, <1>4, <1>5 DEF ReportInv

LEMMA ReceiveAckKeeps == ReportInv /\ ReceiveAck => ReportInv'
<1> SUFFICES ASSUME ReportInv, ReceiveAck PROVE ReportInv'
  OBVIOUS
<1>1. /\ client = "up" /\ toClient # <<>> /\ toClient' = Tail(toClient)
      /\ UNCHANGED <<lastDoorStatus, pc, status, taken, connected, client, breaks,
                     toBroker, cloud, received, nextId, resends>>
      /\ (\E i \in DOMAIN outbox : outbox' = RemoveAt(outbox, i))
           \/ UNCHANGED outbox
  BY DEF ReceiveAck, OutboxDelete, reportVars, handlerVars, cloudVars
<1>2. toClient' \in Seq(Nat)
  BY <1>1, HeadTailProperties DEF ReportInv, VersionsInv
<1>3. Kept' = Kept /\ Sent' = Sent
  BY <1>1 DEF Kept, Sent
<1>4. outbox' \in Seq(Kept') /\ OutboxInv'
  <2>1. CASE UNCHANGED outbox
    BY <1>1, <1>3, <2>1 DEF ReportInv, VersionsInv, OutboxInv
  <2>2. CASE \E i \in DOMAIN outbox : outbox' = RemoveAt(outbox, i)
    BY <1>1, <2>2, OutboxRemoved DEF ReportInv
  <2> QED
    BY <1>1, <2>1, <2>2
<1>5. VersionsInv' /\ OrderInv'
  BY <1>1, <1>2, <1>3, <1>4 DEF ReportInv, VersionsInv, OrderInv
<1>6. ConnectionInv' /\ DeliveryInv'
  BY <1>1 DEF ReportInv, ConnectionInv, DeliveryInv, Delivered
<1> QED
  BY <1>4, <1>5, <1>6 DEF ReportInv

LEMMA ExpireKeeps == ReportInv /\ Expire => ReportInv'
<1> SUFFICES ASSUME ReportInv, Expire PROVE ReportInv'
  OBVIOUS
<1>1. /\ UNCHANGED <<lastDoorStatus, pc, status, taken, connected, client, breaks,
                     toBroker, toClient, cloud, received, nextId, resends>>
      /\ \E i \in DOMAIN outbox : outbox' = RemoveAt(outbox, i)
  BY DEF Expire, reportVars, handlerVars, cloudVars, connectionVars
<1>2. Kept' = Kept /\ Sent' = Sent
  BY <1>1 DEF Kept, Sent
<1>3. outbox' \in Seq(Kept') /\ OutboxInv'
  BY <1>1, OutboxRemoved DEF ReportInv
<1>4. VersionsInv' /\ OrderInv'
  BY <1>1, <1>2, <1>3 DEF ReportInv, VersionsInv, OrderInv
<1>5. ConnectionInv' /\ DeliveryInv'
  BY <1>1 DEF ReportInv, ConnectionInv, DeliveryInv, Delivered
<1> QED
  BY <1>3, <1>4, <1>5 DEF ReportInv

LEMMA ResendKeeps == ReportInv /\ Resend => ReportInv'
<1> SUFFICES ASSUME ReportInv, Resend PROVE ReportInv'
  OBVIOUS
<1>1. /\ client = "up" /\ resends' = resends + 1
      /\ UNCHANGED <<lastDoorStatus, pc, status, taken, cloud, received, nextId>>
  BY DEF Resend, reportVars, handlerVars, cloudVars
<1>2. PICK i \in DOMAIN outbox :
        \/ /\ outbox' = [outbox EXCEPT ![i].sent = TRUE]
           /\ toBroker' = Append(toBroker,
                [id |-> outbox[i].id, version |-> outbox[i].version,
                 kind |-> "again"])
           /\ UNCHANGED connectionVars
        \/ Abort /\ UNCHANGED outbox
  BY DEF Resend
<1>3. resends' \in Nat
  BY <1>1 DEF ReportInv, ConnectionInv
<1>4. Kept' = Kept
  BY <1>1 DEF Kept
<1>5. CASE Abort /\ UNCHANGED outbox
  <2>1. /\ toBroker' \in Seq(Sent') /\ toClient' \in Seq(Nat) /\ OrderInv'
        /\ client' = "down" /\ connected' = FALSE /\ breaks' \in Nat
    BY <1>5, Aborted DEF ReportInv
  <2>2. VersionsInv' /\ OutboxInv'
    BY <1>1, <1>4, <1>5, <2>1 DEF ReportInv, VersionsInv, OutboxInv
  <2>3. ConnectionInv' /\ DeliveryInv'
    BY <1>1, <1>3, <2>1 DEF ReportInv, ConnectionInv, DeliveryInv
  <2> QED
    BY <2>1, <2>2, <2>3 DEF ReportInv
<1>6. CASE /\ outbox' = [outbox EXCEPT ![i].sent = TRUE]
           /\ toBroker' = Append(toBroker,
                [id |-> outbox[i].id, version |-> outbox[i].version,
                 kind |-> "again"])
           /\ UNCHANGED connectionVars
  <2> DEFINE m == [id |-> outbox[i].id, version |-> outbox[i].version,
                   kind |-> "again"]
  <2>1. outbox[i] \in Kept
    BY LenProperties, KeptTyped DEF ReportInv, VersionsInv
  <2>2. m \in Sent /\ m.kind # "latest"
    BY <2>1 DEF Kept, Sent
  <2>3. outbox' \in Seq(Kept') /\ OutboxInv'
    BY <1>1, <1>6, OutboxMarked DEF ReportInv
  <2>4. toBroker' = Append(toBroker, m)
    BY <1>6
  <2> HIDE DEF m
  <2>5. /\ toBroker' \in Seq(Sent') /\ OrderInv'
        /\ \A k \in 1..Len(toBroker) :
             k \in 1..Len(toBroker') /\ toBroker'[k] = toBroker[k]
    BY <1>1, <2>2, <2>4, SentAppended DEF ReportInv
  <2>6. VersionsInv'
    BY <1>1, <1>6, <2>3, <2>5 DEF ReportInv, VersionsInv, connectionVars
  <2>7. ConnectionInv'
    BY <1>1, <1>3, <1>6 DEF ReportInv, ConnectionInv, connectionVars
  <2>8. DeliveryInv'
    BY <1>1, <1>6, <2>5, DeliveredKept DEF ReportInv, DeliveryInv, connectionVars
  <2> QED
    BY <2>3, <2>5, <2>6, <2>7, <2>8 DEF ReportInv
<1> QED
  BY <1>2, <1>5, <1>6

LEMMA StoreStatusKeeps ==
  ASSUME ReportInv, NEW r \in Reporter, StoreStatus(r)
  PROVE  ReportInv'
<1>1. /\ lastDoorStatus < MaxReports /\ lastDoorStatus' = lastDoorStatus + 1
      /\ status' = [status EXCEPT ![r] = lastDoorStatus']
      /\ pc' = [pc EXCEPT ![r] = "check"]
      /\ UNCHANGED <<taken, connected, client, breaks, toBroker, toClient, cloud,
                     received, nextId, resends, outbox>>
  BY DEF StoreStatus, handlerVars, cloudVars, connectionVars
<1>2. status' \in [Reporter -> 0..lastDoorStatus']
  BY <1>1 DEF ReportInv, VersionsInv
<1>3. VersionsInv'
  BY <1>1, <1>2, NewVersion DEF ReportInv, VersionsInv
<1>4. ConnectionInv' /\ OutboxInv' /\ OrderInv'
  BY <1>1 DEF ReportInv, ConnectionInv, OutboxInv, OrderInv
<1>5. pc'[r] # "idle" /\ status'[r] = lastDoorStatus'
  BY <1>1 DEF ReportInv, VersionsInv, ConnectionInv
<1> QED
  BY <1>3, <1>4, <1>5 DEF ReportInv, DeliveryInv, Delivered

LEMMA CheckConnectedKeeps ==
  ASSUME ReportInv, NEW r \in Reporter, CheckConnected(r)
  PROVE  ReportInv'
<1>1. /\ pc[r] = "check"
      /\ pc' = [pc EXCEPT ![r] = IF connected THEN "publish" ELSE "idle"]
      /\ UNCHANGED <<lastDoorStatus, status, taken, connected, client, breaks,
                     toBroker, toClient, cloud, received, nextId, resends,
                     outbox>>
  BY DEF CheckConnected, handlerVars, cloudVars, connectionVars
<1>2. VersionsInv' /\ OutboxInv' /\ OrderInv'
  BY <1>1, Untouched DEF ReportInv, VersionsInv
<1>3. ConnectionInv'
  BY <1>1 DEF ReportInv, ConnectionInv
<1>4. DeliveryInv'
  <2>1. ASSUME client # "down", NEW q \in Reporter, pc[q] # "idle"
        PROVE  pc'[q] # "idle"
    BY <1>1, <2>1 DEF ReportInv, ConnectionInv
  <2> QED
    BY <1>1, <2>1 DEF ReportInv, DeliveryInv, Delivered
<1> QED
  BY <1>2, <1>3, <1>4 DEF ReportInv

LEMMA PublishStatusKeeps ==
  ASSUME ReportInv, NEW r \in Reporter, PublishStatus(r)
  PROVE  ReportInv'
<1>1. /\ Unlocked /\ Publish(status[r], client)
      /\ pc' = [pc EXCEPT ![r] = "idle"]
      /\ UNCHANGED <<lastDoorStatus, status, taken, cloud, received, resends>>
  BY DEF PublishStatus, handlerVars, cloudVars
<1>2. status[r] \in 0..lastDoorStatus
  BY DEF ReportInv, VersionsInv
<1>3. /\ outbox' \in Seq(Kept') /\ nextId' \in Nat /\ OutboxInv'
      /\ toBroker' \in Seq(Sent') /\ toClient' \in Seq(Nat) /\ OrderInv'
      /\ breaks' \in Nat
  BY <1>1, <1>2, Publishing
<1>4. \/ client = "down" /\ UNCHANGED <<client, connected>>
      \/ /\ client # "down" /\ client' = client /\ UNCHANGED connected
         /\ \E i \in 1..Len(toBroker') : toBroker'[i].version = status[r]
         /\ \A i \in 1..Len(toBroker) :
              i \in 1..Len(toBroker') /\ toBroker'[i] = toBroker[i]
      \/ client' = "down" /\ connected' = FALSE
  BY <1>1, <1>2, Publishing
<1>5. VersionsInv'
  BY <1>1, <1>3 DEF ReportInv, VersionsInv
<1>6. ConnectionInv'
  <2>1. pc' \in [Reporter -> {"idle", "check", "publish"}]
    BY <1>1 DEF ReportInv, ConnectionInv
  <2>2. /\ client' \in {"down", "up", "connected", "asked", "publishing"}
        /\ connected' \in BOOLEAN
        /\ connected' <=> client' # "down"
    <3>1. CASE UNCHANGED <<client, connected>>
      BY <3>1 DEF ReportInv, ConnectionInv
    <3>2. CASE client' = "down" /\ connected' = FALSE
      BY <3>2
    <3> QED
      BY <1>4, <3>1, <3>2
  <2> QED
    BY <1>1, <1>3, <2>1, <2>2 DEF ReportInv, ConnectionInv
<1>7. DeliveryInv'
  <2> SUFFICES ASSUME client' = "up" PROVE Delivered'
    BY <1>1, <1>4 DEF DeliveryInv, Unlocked
  <2>1. /\ client = "up"
        /\ \E i \in 1..Len(toBroker') : toBroker'[i].version = status[r]
        /\ \A i \in 1..Len(toBroker) :
             i \in 1..Len(toBroker') /\ toBroker'[i] = toBroker[i]
    BY <1>4
  <2>2. CASE status[r] = lastDoorStatus
    BY <1>1, <2>1, <2>2 DEF Delivered
  <2>3. CASE \E q \in Reporter :
               pc[q] # "idle" /\ status[q] = lastDoorStatus /\ q # r
    BY <1>1, <2>3 DEF Delivered, ReportInv, ConnectionInv
  <2>4. CASE \/ lastDoorStatus \in received
             \/ \E i \in 1..Len(toBroker) : toBroker[i].version = lastDoorStatus
    BY <1>1, <2>1, <2>4 DEF Delivered
  <2> QED
    BY <2>1, <2>2, <2>3, <2>4 DEF ReportInv, DeliveryInv, Delivered
<1> QED
  BY <1>3, <1>5, <1>6, <1>7 DEF ReportInv

LEMMA BrokerReceivesKeeps == ReportInv /\ BrokerReceives => ReportInv'
<1> SUFFICES ASSUME ReportInv, BrokerReceives PROVE ReportInv'
  OBVIOUS
<1>1. /\ toBroker # <<>> /\ cloud' = Head(toBroker).version
      /\ received' = received \cup {cloud'} /\ toBroker' = Tail(toBroker)
      /\ toClient' = Append(toClient, Head(toBroker).id)
      /\ UNCHANGED <<lastDoorStatus, pc, status, taken, connected, client, breaks,
                     outbox, nextId, resends>>
  BY DEF BrokerReceives, reportVars, handlerVars
<1>2. toBroker \in Seq(Sent) /\ toClient \in Seq(Nat)
  BY DEF ReportInv, VersionsInv
<1>3. /\ Head(toBroker) \in Sent /\ Tail(toBroker) \in Seq(Sent)
      /\ Len(Tail(toBroker)) = Len(toBroker) - 1
      /\ \A i \in 1..Len(Tail(toBroker)) : Tail(toBroker)[i] = toBroker[i + 1]
  BY <1>1, <1>2, HeadTailProperties
<1>4. /\ Len(toBroker) \in Nat \ {0} /\ Head(toBroker) = toBroker[1]
  BY <1>1, <1>2, EmptySeq, LenProperties
<1>5. Head(toBroker).id \in Nat /\ Head(toBroker).version \in 0..lastDoorStatus
  BY <1>3 DEF Sent
<1>6. toClient' \in Seq(Nat)
  BY <1>1, <1>2, <1>5, AppendProperties
<1>7. Kept' = Kept /\ Sent' = Sent
  BY <1>1 DEF Kept, Sent
<1>8. VersionsInv'
  BY <1>1, <1>3, <1>5, <1>6, <1>7 DEF ReportInv, VersionsInv
<1>9. ConnectionInv' /\ OutboxInv'
  BY <1>1 DEF ReportInv, ConnectionInv, OutboxInv
<1>10. OrderInv'
  <2> SUFFICES ASSUME NEW j \in 1..Len(toBroker'), toBroker'[j].kind = "latest"
               PROVE  /\ cloud' <= toBroker'[j].version
                      /\ \A i \in 1..(j - 1) :
                           toBroker'[i].version <= toBroker'[j].version
    BY DEF OrderInv
  <2>1. /\ j + 1 \in 1..Len(toBroker) /\ toBroker'[j] = toBroker[j + 1]
        /\ 1 \in 1..(j + 1 - 1)
        /\ \A i \in 1..(j - 1) :
             i + 1 \in 1..(j + 1 - 1) /\ toBroker'[i] = toBroker[i + 1]
    BY <1>1, <1>3, <1>4
  <2>2. \A i \in 1..(j + 1 - 1) : toBroker[i].version <= toBroker[j + 1].version
    BY <2>1 DEF ReportInv, OrderInv
  <2> QED
    BY <1>1, <1>4, <2>1, <2>2
<1>11. DeliveryInv'
  <2> SUFFICES ASSUME Delivered PROVE Delivered'
    BY <1>1 DEF ReportInv, DeliveryInv
  <2>1. CASE \E i \in 1..Len(toBroker) : toBroker[i].version = lastDoorStatus
    <3>1. PICK i \in 1..Len(toBroker) : toBroker[i].version = lastDoorStatus
      BY <2>1
    <3>2. CASE i = 1
      BY <1>1, <1>4, <3>1, <3>2 DEF Delivered
    <3>3. CASE i # 1
      <4>1. i - 1 \in 1..Len(toBroker') /\ toBroker'[i - 1] = toBroker[i]
        BY <1>1, <1>3, <1>4, <3>3
      <4> QED
        BY <1>1, <3>1, <4>1 DEF Delivered
    <3> QED
      BY <3>2, <3>3
  <2>2. CASE \/ lastDoorStatus \in received
             \/ \E r \in Reporter : pc[r] # "idle" /\ status[r] = lastDoorStatus
    BY <1>1, <2>2 DEF Delivered
  <2> QED
    BY <2>1, <2>2 DEF Delivered
<1> QED
  BY <1>8, <1>9, <1>10, <1>11 DEF ReportInv

LEMMA StutterKeeps == ReportInv /\ UNCHANGED vars => ReportInv'
<1> SUFFICES ASSUME ReportInv, UNCHANGED vars PROVE ReportInv'
  OBVIOUS
<1>1. UNCHANGED <<lastDoorStatus, pc, status, taken, connected, client, breaks,
                  toBroker, toClient, cloud, received, nextId, resends, outbox>>
  BY DEF vars, reportVars, handlerVars, connectionVars, cloudVars
<1>2. VersionsInv' /\ OutboxInv' /\ OrderInv'
  BY <1>1, Untouched DEF ReportInv, VersionsInv
<1> QED
  BY <1>1, <1>2 DEF ReportInv, ConnectionInv, DeliveryInv, Delivered

-----------------------------------------------------------------------------
\* The invariant of every step.
THEOREM ReportInvariant == Spec => []ReportInv
<1>1. ReportInv /\ [Next]_vars => ReportInv'
  <2> SUFFICES ASSUME ReportInv, [Next]_vars PROVE ReportInv'
    OBVIOUS
  <2>1. CASE ClientStep
    BY <2>1, ConnectKeeps, PublishLastKeeps, BreakKeeps, ReceiveAckKeeps,
       ExpireKeeps, ResendKeeps, ReceiveGetKeeps, TakeLastKeeps, ReceiveSetKeeps
       DEF ClientStep
  <2>2. ASSUME NEW r \in Reporter, ReporterStep(r) PROVE ReportInv'
    BY <2>2, StoreStatusKeeps, CheckConnectedKeeps, PublishStatusKeeps
       DEF ReporterStep
  <2>3. CASE BrokerReceives
    BY <2>3, BrokerReceivesKeeps
  <2>4. CASE UNCHANGED vars
    BY <2>4, StutterKeeps
  <2> QED
    BY <2>1, <2>2, <2>3, <2>4 DEF Next
<1> QED
  BY InitReport, <1>1, PTL DEF Spec

\* The types, and that s_connected is set exactly while there is a connection and
\* the outbox is ordered by identifier (the first of a message is the only one).
THEOREM TypeCorrect == Spec => []ReportTypeOK
<1>1. ReportInv => ReportTypeOK
  <2> SUFFICES ASSUME ReportInv PROVE ReportTypeOK
    OBVIOUS
  <2>1. DOMAIN outbox = 1..Len(outbox)
    BY LenProperties DEF ReportInv, VersionsInv
  <2>2. /\ lastDoorStatus \in 0..MaxReports
        /\ status \in [Reporter -> 0..MaxReports] /\ cloud \in 0..MaxReports
        /\ taken \in 0..MaxReports
    BY DEF ReportInv, VersionsInv
  <2> QED
    BY <2>1, <2>2 DEF ReportInv, ConnectionInv, OutboxInv, ReportTypeOK
<1> QED
  BY <1>1, ReportInvariant, PTL

\* No status is missed: with no report under way on an established connection
\* and nothing in transit, the cloud has received the latest one.
THEOREM NoStatusMissed == Spec => []LatestDelivered
<1>1. ReportInv => LatestDelivered
  <2> SUFFICES ASSUME ReportInv, \A r \in Reporter : pc[r] = "idle",
                      client = "up", toBroker = <<>>
               PROVE  lastDoorStatus \in received
    BY DEF LatestDelivered
  <2>1. 1..Len(toBroker) = {}
    BY EmptySeq
  <2> QED
    BY <2>1 DEF ReportInv, DeliveryInv, Delivered
<1> QED
  BY <1>1, ReportInvariant, PTL

\* The message with the status that is the latest when it is published, at a
\* reconnection too, never takes the cloud back.
THEOREM NeverBack == Spec => LatestNeverGoesBack
<1>1. ReportInv /\ [Next]_vars =>
        [cloud' < cloud => Head(toBroker).kind # "latest"]_vars
  <2> SUFFICES ASSUME ReportInv, [Next]_vars, cloud' < cloud,
                      Head(toBroker).kind = "latest"
               PROVE  FALSE
    OBVIOUS
  <2>1. cloud \in Nat
    BY DEF ReportInv, VersionsInv
  <2>2. cloud' # cloud
    BY <2>1
  <2>3. BrokerReceives
    BY <2>2 DEF Next, ClientStep, ReporterStep, vars, cloudVars, reportVars,
       Connect, PublishLast, Break, ReceiveAck, Expire, Resend, ReceiveGet,
       ReplyFails, TakeLast, ReceiveSet, StoreStatus, CheckConnected, PublishStatus
  <2>4. toBroker # <<>> /\ cloud' = Head(toBroker).version
    BY <2>3 DEF BrokerReceives
  <2>5. Len(toBroker) \in Nat \ {0} /\ Head(toBroker) = toBroker[1]
    BY <2>4, EmptySeq, LenProperties DEF ReportInv, VersionsInv
  <2>6. cloud <= toBroker[1].version
    BY <2>5 DEF ReportInv, OrderInv
  <2>7. toBroker[1].version \in Nat
    BY <2>5, SentTyped DEF ReportInv, VersionsInv
  <2> QED
    BY <2>1, <2>4, <2>5, <2>6, <2>7
<1> QED
  BY <1>1, ReportInvariant, PTL DEF Spec, LatestNeverGoesBack
=============================================================================
