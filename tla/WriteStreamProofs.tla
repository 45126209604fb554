------------------------- MODULE WriteStreamProofs -------------------------
(***************************************************************************)
(* Proofs about WriteStream for buffers of any size and commands of any    *)
(* length: the card's buffer is nobody else's while it programs, and the   *)
(* stream implements SectorSink.                                           *)
(*                                                                         *)
(* What makes it inductive is an account of every sector of the command:   *)
(* those on the medium, those the card still takes from its buffer, those  *)
(* of the chunk being received, in that order and without a gap.  The card *)
(* is never more than one chunk behind, and that chunk is in the other     *)
(* buffer.                                                                 *)
(***************************************************************************)
EXTENDS WriteStream, SequenceTheorems, TLAPS

Receiving == pc \in {"receive", "arm", "wait", "ready"}

\* Sectors of this chunk, by where the processor is.
Counts ==
  /\ pc \notin {"leave", "done"} => status = "writing" /\ lba + left = num
  /\ pc \in {"enter", "receive", "arm", "wait", "ready", "filter", "write", "card"}
       => chunk = ChunkOf(left)
  /\ Receiving \/ pc \in {"filter", "write", "card"} => left > 0
  /\ pc \in {"arm", "wait"} => received < chunk
  /\ pc = "enter" => lba = 0 /\ medium = <<>>
  /\ pc = "settle" => left = 0
  /\ pc = "leave" => status # "passed"
  /\ pc = "leave" /\ status = "writing" => Len(medium) = num
  /\ pc = "done" => status # "writing"

\* Packets, and where the endpoint puts the next.
Usb ==
  /\ rx = "ACK" => pc = "wait"
  /\ rxFlag => pc = "wait"
  /\ pc = "wait" => rx = "ACK" /\ rxBuf = buf /\ rxSlot = received
  /\ pc \in {"enter", "done"} => rxBuf = "endp1" /\ rxSlot = 0
  /\ pc = "enter" => first
  /\ pc \in {"arm", "wait", "ready", "filter", "write", "card"} => ~first
  /\ pc = "receive" => (first <=> lba = 0)
  /\ pc \in {"enter", "receive"} => sent = lba + (IF first THEN 1 ELSE 0)
  /\ pc = "arm" => sent = lba + received
  /\ pc = "wait" => sent = lba + received + (IF rxFlag THEN 1 ELSE 0)
  /\ pc \in {"ready", "filter", "write", "card"} => sent = lba + chunk
  /\ pc = "settle" => sent = num

\* The card and what it has still to program.
Card ==
  /\ next <= end
  /\ pc \in {"enter", "filter", "write", "leave", "done"} => next = end
  /\ Receiving \/ pc \in {"filter", "write", "settle"} => Len(medium) + (end - next) = lba
  /\ pc = "card" => prog = buf /\ Len(medium) + (end - next) = lba + chunk
  /\ Receiving /\ DatLow => prog # buf

Contents ==
  /\ pc \in {"enter", "receive"} /\ first => endp1 = Sector(0, "raw")
  /\ pc \in {"arm", "wait"} => \A k \in 0 .. received - 1 : mem[buf][k] = Sector(lba + k, "raw")
  /\ pc = "wait" /\ rxFlag => mem[buf][received] = Sector(lba + received, "raw")
  /\ pc \in {"ready", "filter"} => \A k \in 0 .. chunk - 1 : mem[buf][k] = Sector(lba + k, "raw")
  /\ pc = "write" => \A k \in 0 .. chunk - 1 : mem[buf][k] = Sector(lba + k, Form)

Stored ==
  /\ \A i \in 1 .. Len(medium) : medium[i] = Sector(i - 1, Form)
  /\ \A i \in next .. end - 1 : mem[prog][i] = Sector(Len(medium) + i - next, Form)

(* The inductive invariant.                                                *)
IInv == TypeOK /\ Counts /\ Usb /\ Card /\ Contents /\ Stored

----------------------------------------------------------------------------
USE BufAssumption, WriteNumAssumption DEF command

\* What a sector becomes on its way, and that it remains a sector.
LEMMA FilteredOnce ==
  ASSUME secret \in BOOLEAN, NEW k
  PROVE  Filtered(Sector(k, "raw"), k) = Sector(k, Form)
  BY DEF Filtered, Sector, Form

LEMMA FilteredSector ==
  ASSUME secret \in BOOLEAN, NEW s \in Sectors, NEW k
  PROVE  Filtered(s, k) \in Sectors
  BY DEF Filtered, Sectors, Form

LEMMA GarbageSector == Garbage \in Sectors
  BY DEF Garbage, Sector, Sectors

LEMMA RawSector == ASSUME NEW k \in 0 .. MAXNUM PROVE Sector(k, "raw") \in Sectors
  BY DEF Sector, Sectors

\* A chunk fits its buffer and is no longer than what is left.
LEMMA ChunkBounds ==
  ASSUME NEW n \in Nat
  PROVE  ChunkOf(n) \in 0 .. BUF /\ ChunkOf(n) <= n /\ (n > 0 => ChunkOf(n) > 0)
  BY DEF ChunkOf

\* The drive at rest.
LEMMA InitIInv == Init => IInv
<1> SUFFICES ASSUME Init PROVE IInv
  OBVIOUS
<1> USE DEF Init
<1>1. TypeOK
  <2>1. mem \in [Bufs -> [Slots -> Sectors]] /\ endp1 \in Sectors
    BY GarbageSector
  <2>2. 0 \in Slots /\ medium \in Seq(Sectors)
    BY DEF Slots
  <2>3. num \in 0 .. MAXNUM /\ room \in 0 .. MAXNUM /\ sent \in 0 .. MAXNUM + 1
    OBVIOUS
  <2>4. /\ lba \in 0 .. num /\ left \in 0 .. num /\ chunk \in 0 .. BUF /\ received \in 0 .. BUF
        /\ next \in 0 .. BUF /\ end \in 0 .. BUF /\ rxSlot \in Slots
    BY <2>2
  <2>5. /\ secret \in BOOLEAN /\ buf \in Bufs /\ prog \in Bufs
        /\ rxBuf \in Bufs \cup {"endp1"} /\ first \in BOOLEAN /\ rxFlag \in BOOLEAN
    BY DEF Bufs
  <2> QED
    BY <2>1, <2>2, <2>3, <2>4, <2>5 DEF TypeOK, Init
<1>2. Counts /\ Usb
  BY DEF Counts, Usb, Receiving
<1>3. Card /\ Contents
  BY DEF Card, Contents, Receiving, DatLow
<1>4. Stored
  BY DEF Stored
<1> QED
  BY <1>1, <1>2, <1>3, <1>4 DEF IInv

\* A command arrives: its first sector is in endp1Rbuff.
LEMMA CommandIInv == IInv /\ Command => IInv'
<1> SUFFICES ASSUME IInv, Command PROVE IInv'
  OBVIOUS
<1>1. /\ pc = "done" /\ pc' = "enter" /\ secret' \in BOOLEAN
      /\ num' \in 0 .. MAXNUM /\ room' \in 0 .. MAXNUM
      /\ lba' = 0 /\ left' = num' /\ chunk' = ChunkOf(num') /\ buf' = "Out"
      /\ received' = 0 /\ first' /\ status' = "writing"
      /\ rx' = "NAK" /\ ~rxFlag' /\ sent' = 1 /\ medium' = <<>>
      /\ UNCHANGED <<rxBuf, rxSlot, prog, next, end>>
  BY DEF Command
<1>2. rxBuf = "endp1" /\ rxSlot = 0 /\ next = end
  BY <1>1 DEF IInv, Usb, Card
<1>3. endp1' = Sector(0, "raw")
  BY <1>2 DEF Command
<1>4. TypeOK'
  <2>1. endp1' \in Sectors
    BY <1>3, RawSector
  <2>2. mem' \in [Bufs -> [Slots -> Sectors]]
    <3>1. mem' = [b \in Bufs |-> [i \in Slots |->
                   IF b = rxBuf /\ i = rxSlot THEN Sector(0, "raw") ELSE Garbage]]
      BY DEF Command
    <3> QED
      BY <3>1, GarbageSector, RawSector
  <2>3. chunk' \in 0 .. BUF
    BY <1>1, ChunkBounds
  <2>4. medium' \in Seq(Sectors)
    BY <1>1
  <2>5. /\ lba' \in 0 .. num' /\ left' \in 0 .. num' /\ received' \in 0 .. BUF
        /\ sent' \in 0 .. MAXNUM + 1
    BY <1>1
  <2>6. buf' \in Bufs /\ first' \in BOOLEAN /\ rxFlag' \in BOOLEAN
    BY <1>1 DEF Command, Bufs
  <2>7. /\ rxBuf' \in Bufs \cup {"endp1"} /\ rxSlot' \in Slots
        /\ prog' \in Bufs /\ next' \in 0 .. BUF /\ end' \in 0 .. BUF
    BY <1>1 DEF IInv, TypeOK
  <2> QED
    BY <1>1, <2>1, <2>2, <2>3, <2>4, <2>5, <2>6, <2>7 DEF TypeOK
<1>5. Counts'
  <2>1. lba' + left' = num'
    <3>1. PICK n \in 0 .. MAXNUM : num' = n
      BY <1>1
    <3>2. lba' = 0 /\ left' = n
      BY <1>1, <3>1
    <3> QED
      BY <3>1, <3>2
  <2>2. chunk' = ChunkOf(left')
    BY <1>1
  <2>3. ~Receiving'
    BY <1>1 DEF Receiving
  <2> QED
    BY <1>1, <2>1, <2>2, <2>3 DEF Counts
<1>6. Usb'
  BY <1>1, <1>2 DEF Usb
<1>7. Card'
  BY <1>1, <1>2 DEF IInv, TypeOK, Card, Receiving
<1>8. Contents'
  BY <1>1, <1>3 DEF Contents
<1>9. Stored'
  BY <1>1, <1>2 DEF Stored, IInv, TypeOK
<1> QED
  BY <1>4, <1>5, <1>6, <1>7, <1>8, <1>9 DEF IInv

\* The steps that move only the processor: nothing of the account changes.
LEMMA MovesIInv ==
  ASSUME IInv, Enter \/ CardReady \/ Settle
  PROVE  IInv'
<1>1. /\ UNCHANGED <<secret, num, room, lba, left, chunk, buf, received, first, status>>
      /\ UNCHANGED <<rx, rxFlag, rxBuf, rxSlot, sent, endp1, mem, prog, next, end, medium>>
  BY DEF Enter, CardReady, Settle, cpuVars, usbVars, cardVars
<1>2. \/ pc = "enter" /\ left > 0 /\ pc' = "receive"
      \/ pc = "enter" /\ left = 0 /\ pc' = "leave"
      \/ pc = "ready" /\ ~DatLow /\ pc' = "filter"
      \/ pc = "settle" /\ ~DatLow /\ pc' = "leave"
  BY DEF Enter, CardReady, Settle, IInv, TypeOK
<1>3. TypeOK'
  BY <1>1, <1>2 DEF IInv, TypeOK
<1>4. pc # "enter" => next = end
  BY <1>2 DEF IInv, TypeOK, Card, DatLow
<1>5. Counts'
  <2>1. pc' = "leave" => Len(medium) = num
    <3>1. CASE pc = "enter"
      BY <3>1, <1>2 DEF IInv, TypeOK, Counts
    <3>2. CASE pc = "settle"
      BY <3>2, <1>4 DEF IInv, TypeOK, Counts, Card
    <3> QED
      BY <1>2, <3>1, <3>2
  <2> QED
    BY <1>1, <1>2, <2>1 DEF IInv, Counts, Receiving
<1>6. Usb'
  <2>1. pc' = "receive" => (first <=> lba = 0) /\ sent = lba + (IF first THEN 1 ELSE 0)
    BY <1>2 DEF IInv, Counts, Usb
  <2> QED
    BY <1>1, <1>2, <2>1 DEF IInv, Usb
<1>7. Card'
  <2>1. pc = "enter" => next = end /\ Len(medium) = 0 /\ lba = 0
    BY DEF IInv, Counts, Card
  <2> QED
    BY <1>1, <1>2, <1>4, <2>1 DEF IInv, TypeOK, Card, Receiving, DatLow
<1>8. Contents'
  BY <1>1, <1>2 DEF IInv, Contents
<1>9. Stored'
  BY <1>1 DEF IInv, Stored, Form
<1> QED
  BY <1>3, <1>5, <1>6, <1>7, <1>8, <1>9 DEF IInv

\* Where receive_chunk_usb2 goes after r sectors.
LEMMA AfterFacts ==
  ASSUME IInv, NEW r \in Nat, r <= chunk
  PROVE  /\ After(r) = "arm" <=> r < chunk
         /\ After(r) = "filter" <=> r = chunk /\ lba = 0
         /\ After(r) = "ready" <=> r = chunk /\ lba # 0
         /\ After(r) \in {"arm", "filter", "ready"}
  BY DEF After, IInv, TypeOK

\* receive_chunk_usb2 begins, with the packet that came with the command.
LEMMA ReceiveIInv == IInv /\ Receive => IInv'
<1> SUFFICES ASSUME IInv, Receive PROVE IInv'
  OBVIOUS
<1>1. /\ pc = "receive" /\ ~rxFlag' /\ ~first' /\ received' = IF first THEN 1 ELSE 0
      /\ UNCHANGED <<secret, num, room, lba, left, chunk, buf, status>>
      /\ UNCHANGED <<rx, rxBuf, rxSlot, sent, endp1, prog, next, end, medium>>
  BY DEF Receive, cardVars
<1>2. /\ rx = "NAK" /\ (first <=> lba = 0) /\ sent = lba + received'
      /\ chunk > 0 /\ left > 0 /\ chunk = ChunkOf(left) /\ status = "writing" /\ lba + left = num
  BY <1>1, ChunkBounds DEF IInv, TypeOK, Counts, Usb, Receiving
<1>3. pc' = After(received') /\ received' \in Nat /\ received' <= chunk
  BY <1>1, <1>2 DEF Receive, IInv, TypeOK
<1>4. /\ pc' \in {"arm", "filter", "ready"}
      /\ pc' = "arm" => received' < chunk
      /\ pc' = "filter" => received' = chunk /\ lba = 0
      /\ pc' = "ready" => received' = chunk
  BY <1>3, AfterFacts
<1>5. /\ mem' \in [Bufs -> [Slots -> Sectors]]
      /\ \A b \in Bufs, i \in Slots :
           mem'[b][i] = IF first /\ b = buf /\ i = 0 THEN endp1 ELSE mem[b][i]
  <2>1. mem \in [Bufs -> [Slots -> Sectors]] /\ buf \in Bufs /\ 0 \in Slots /\ endp1 \in Sectors
    BY DEF IInv, TypeOK, Slots
  <2>2. mem' = IF first THEN [mem EXCEPT ![buf] = [mem[buf] EXCEPT ![0] = endp1]] ELSE mem
    BY DEF Receive
  <2>3. [mem[buf] EXCEPT ![0] = endp1] \in [Slots -> Sectors]
    BY <2>1
  <2> QED
    BY <2>1, <2>2, <2>3
<1>6. TypeOK'
  <2>1. received' \in 0 .. BUF
    BY <1>3 DEF IInv, TypeOK
  <2>2. pc' \in {"enter", "receive", "arm", "wait", "ready", "filter", "write", "card",
                 "settle", "leave", "done"}
    BY <1>4
  <2>3. first' \in BOOLEAN /\ rxFlag' \in BOOLEAN
    BY DEF Receive
  <2> QED
    BY <1>1, <1>5, <2>1, <2>2, <2>3 DEF IInv, TypeOK
<1>7. Counts'
  BY <1>1, <1>2, <1>4 DEF Counts
<1>8. Usb'
  <2>1. pc' \in {"filter", "ready"} => sent' = lba' + chunk'
    BY <1>1, <1>2, <1>4
  <2>2. pc' = "arm" => sent' = lba' + received'
    BY <1>1, <1>2
  <2> QED
    BY <1>1, <1>2, <1>4, <2>1, <2>2 DEF Usb
<1>9. Card'
  <2>1. Receiving /\ Len(medium) + (end - next) = lba /\ (DatLow => prog # buf) /\ next <= end
    BY <1>1 DEF IInv, Card, Receiving
  <2>2. lba = 0 => next = end
    BY <2>1 DEF IInv, TypeOK
  <2> QED
    BY <1>1, <1>4, <2>1, <2>2 DEF Card, DatLow, Receiving
<1>10. Contents'
  <2>1. first => endp1 = Sector(0, "raw") /\ lba = 0
    BY <1>1, <1>2 DEF IInv, Contents
  <2>2. ASSUME NEW k \in 0 .. received' - 1
        PROVE  mem'[buf][k] = Sector(lba + k, "raw")
    BY <1>1, <1>5, <2>1 DEF IInv, TypeOK, Slots
  <2>3. pc' \in {"filter", "ready"} => chunk' = received'
    BY <1>1, <1>4
  <2> QED
    BY <1>1, <1>4, <2>2, <2>3 DEF Contents
<1>11. Stored'
  <2>1. ASSUME NEW i \in next .. end - 1
        PROVE  mem'[prog][i] = Sector(Len(medium) + i - next, Form)
    <3>1. DatLow /\ prog # buf /\ i \in Slots /\ prog \in Bufs
      BY <1>1 DEF IInv, TypeOK, Card, Receiving, DatLow, Slots
    <3> QED
      BY <1>5, <3>1 DEF IInv, Stored
  <2> QED
    BY <1>1, <2>1 DEF IInv, Stored, Form
<1> QED
  BY <1>6, <1>7, <1>8, <1>9, <1>10, <1>11 DEF IInv

\* The endpoint is told where the next packet goes, and let go.
LEMMA ArmIInv == IInv /\ Arm => IInv'
<1> SUFFICES ASSUME IInv, Arm PROVE IInv'
  OBVIOUS
<1>1. /\ pc = "arm" /\ pc' = "wait" /\ rx' = "ACK" /\ rxBuf' = buf /\ rxSlot' = received
      /\ UNCHANGED <<secret, num, room, lba, left, chunk, buf, received, first, status>>
      /\ UNCHANGED <<rxFlag, sent, endp1, mem, prog, next, end, medium>>
  BY DEF Arm, cpuVars, cardVars
<1>2. received < chunk /\ sent = lba + received /\ rxFlag = FALSE
  BY <1>1 DEF IInv, TypeOK, Counts, Usb
<1>3. TypeOK'
  <2>1. rxSlot' \in Slots /\ rxBuf' \in Bufs \cup {"endp1"}
    BY <1>1, <1>2 DEF IInv, TypeOK, Slots
  <2> QED
    BY <1>1, <2>1 DEF IInv, TypeOK
<1>4. Counts'
  BY <1>1 DEF IInv, Counts, Receiving
<1>5. Usb'
  BY <1>1, <1>2 DEF Usb, IInv, TypeOK
<1>6. Card'
  BY <1>1 DEF IInv, Card, Receiving, DatLow
<1>7. Contents' /\ Stored'
  BY <1>1, <1>2 DEF IInv, Contents, Stored, Form
<1> QED
  BY <1>3, <1>4, <1>5, <1>6, <1>7 DEF IInv

\* A packet has come.
LEMMA PacketReceivedIInv == IInv /\ PacketReceived => IInv'
<1> SUFFICES ASSUME IInv, PacketReceived PROVE IInv'
  OBVIOUS
<1>1. /\ pc = "wait" /\ rxFlag /\ ~rxFlag' /\ rx' = "NAK" /\ received' = received + 1
      /\ UNCHANGED <<secret, num, room, lba, left, chunk, buf, first, status>>
      /\ UNCHANGED <<rxBuf, rxSlot, sent, endp1, mem, prog, next, end, medium>>
  BY DEF PacketReceived, cardVars
<1>2. /\ received < chunk /\ sent = lba + received' /\ ~first
      /\ left > 0 /\ chunk = ChunkOf(left) /\ status = "writing" /\ lba + left = num
  BY <1>1 DEF IInv, TypeOK, Counts, Usb, Receiving
<1>3. pc' = After(received') /\ received' \in Nat /\ received' <= chunk
  BY <1>1, <1>2 DEF PacketReceived, IInv, TypeOK
<1>4. /\ pc' \in {"arm", "filter", "ready"}
      /\ pc' = "arm" => received' < chunk
      /\ pc' = "filter" => received' = chunk /\ lba = 0
      /\ pc' = "ready" => received' = chunk
  BY <1>3, AfterFacts
<1>5. TypeOK'
  <2>1. received' \in 0 .. BUF
    BY <1>3 DEF IInv, TypeOK
  <2>2. pc' \in {"enter", "receive", "arm", "wait", "ready", "filter", "write", "card",
                 "settle", "leave", "done"}
    BY <1>4
  <2>3. rxFlag' \in BOOLEAN
    BY DEF PacketReceived
  <2> QED
    BY <1>1, <2>1, <2>2, <2>3 DEF IInv, TypeOK
<1>6. Counts'
  BY <1>1, <1>2, <1>4 DEF Counts
<1>7. Usb'
  <2>1. pc' \in {"filter", "ready"} => sent' = lba' + chunk'
    BY <1>1, <1>2, <1>4
  <2>2. pc' = "arm" => sent' = lba' + received'
    BY <1>1, <1>2
  <2> QED
    BY <1>1, <1>2, <1>4, <2>1, <2>2 DEF Usb
<1>8. Card'
  <2>1. Receiving /\ Len(medium) + (end - next) = lba /\ (DatLow => prog # buf) /\ next <= end
    BY <1>1 DEF IInv, Card, Receiving
  <2>2. lba = 0 => next = end
    BY <2>1 DEF IInv, TypeOK
  <2> QED
    BY <1>1, <1>4, <2>1, <2>2 DEF Card, DatLow, Receiving
<1>9. Contents'
  <2>1. ASSUME NEW k \in 0 .. received' - 1
        PROVE  mem[buf][k] = Sector(lba + k, "raw")
    <3>1. CASE k = received
      BY <1>1, <3>1 DEF IInv, Contents
    <3>2. CASE k # received
      <4>1. k \in 0 .. received - 1
        BY <1>1, <3>2 DEF IInv, TypeOK
      <4> QED
        BY <1>1, <4>1 DEF IInv, Contents
    <3> QED
      BY <3>1, <3>2
  <2>2. pc' \in {"filter", "ready"} => chunk' = received'
    BY <1>1, <1>4
  <2> QED
    BY <1>1, <1>4, <2>1, <2>2 DEF Contents
<1>10. Stored'
  BY <1>1 DEF IInv, Stored, Form
<1> QED
  BY <1>5, <1>6, <1>7, <1>8, <1>9, <1>10 DEF IInv

\* The chunk becomes what its volume stores.
LEMMA FilterIInv == IInv /\ Filter => IInv'
<1> SUFFICES ASSUME IInv, Filter PROVE IInv'
  OBVIOUS
<1>1. /\ pc = "filter" /\ pc' = "write"
      /\ UNCHANGED <<secret, num, room, lba, left, chunk, buf, received, first, status>>
      /\ UNCHANGED <<rx, rxFlag, rxBuf, rxSlot, sent, endp1, prog, next, end, medium>>
  BY DEF Filter, cpuVars, usbVars, cardVars
<1>2. next = end
  BY <1>1 DEF IInv, Card
<1>3. /\ mem' \in [Bufs -> [Slots -> Sectors]]
      /\ \A i \in Slots : i < chunk => mem'[buf][i] = Filtered(mem[buf][i], lba + i)
  <2>1. mem \in [Bufs -> [Slots -> Sectors]] /\ buf \in Bufs /\ secret \in BOOLEAN
    BY DEF IInv, TypeOK
  <2> DEFINE new == [i \in Slots |-> IF i < chunk THEN Filtered(mem[buf][i], lba + i)
                                                 ELSE mem[buf][i]]
  <2>2. mem' = [mem EXCEPT ![buf] = new]
    BY DEF Filter
  <2>3. new \in [Slots -> Sectors]
    BY <2>1, FilteredSector
  <2>4. \A i \in Slots : i < chunk => new[i] = Filtered(mem[buf][i], lba + i)
    OBVIOUS
  <2> HIDE DEF new
  <2> QED
    BY <2>1, <2>2, <2>3, <2>4
<1>4. TypeOK'
  BY <1>1, <1>3 DEF IInv, TypeOK
<1>5. Counts'
  BY <1>1 DEF IInv, Counts, Receiving
<1>6. Usb'
  BY <1>1 DEF IInv, Usb
<1>7. Card'
  BY <1>1 DEF IInv, Card, Receiving, DatLow
<1>8. Contents'
  <2>1. ASSUME NEW k \in 0 .. chunk - 1
        PROVE  mem'[buf][k] = Sector(lba + k, Form)
    <3>1. k \in Slots /\ k < chunk /\ mem[buf][k] = Sector(lba + k, "raw")
      BY <1>1 DEF IInv, TypeOK, Slots, Contents
    <3>2. mem'[buf][k] = Filtered(Sector(lba + k, "raw"), lba + k)
      BY <1>3, <3>1
    <3> QED
      BY <3>2, FilteredOnce DEF IInv, TypeOK
  <2>2. Form' = Form
    BY <1>1 DEF Form
  <2> QED
    BY <1>1, <2>1, <2>2 DEF Contents
<1>9. Stored'
  <2>1. \A i : ~(i \in next .. end - 1)
    BY <1>2 DEF IInv, TypeOK
  <2> QED
    BY <1>1, <2>1 DEF IInv, Stored, Form
<1> QED
  BY <1>4, <1>5, <1>6, <1>7, <1>8, <1>9 DEF IInv

\* The card takes over the chunk: it had nothing left of the one before.
LEMMA WriteChunkIInv == IInv /\ WriteChunk => IInv'
<1> SUFFICES ASSUME IInv, WriteChunk PROVE IInv'
  OBVIOUS
<1>1. /\ pc = "write" /\ pc' = "card" /\ prog' = buf /\ next' = 0 /\ end' = chunk
      /\ UNCHANGED <<secret, num, room, lba, left, chunk, buf, received, first, status>>
      /\ UNCHANGED <<rx, rxFlag, rxBuf, rxSlot, sent, endp1, mem, medium>>
  BY DEF WriteChunk, cpuVars, usbVars
<1>2. next = end /\ Len(medium) = lba
  BY <1>1 DEF IInv, TypeOK, Card
<1>3. TypeOK'
  BY <1>1 DEF IInv, TypeOK
<1>4. Counts'
  BY <1>1 DEF IInv, Counts, Receiving
<1>5. Usb'
  BY <1>1 DEF IInv, Usb
<1>6. Card'
  <2>1. Len(medium') + (end' - next') = lba' + chunk' /\ next' <= end'
    BY <1>1, <1>2 DEF IInv, TypeOK
  <2> QED
    BY <1>1, <2>1 DEF Card, Receiving
<1>7. Contents'
  BY <1>1 DEF Contents
<1>8. Stored'
  BY <1>1, <1>2 DEF IInv, TypeOK, Contents, Stored, Form
<1> QED
  BY <1>3, <1>4, <1>5, <1>6, <1>7, <1>8 DEF IInv

\* The command fails, of its address or by the card, and takes nothing back.
LEMMA FailIInv ==
  ASSUME IInv, OutOfRange \/ WriteFails
  PROVE  IInv'
<1>1. /\ pc \in {"write", "card"} /\ pc' = "leave" /\ status' = "failed" /\ end' = next
      /\ UNCHANGED <<secret, num, room, lba, left, chunk, buf, received, first>>
      /\ UNCHANGED <<rx, rxFlag, rxBuf, rxSlot, sent, endp1, mem, prog, next, medium>>
  BY DEF OutOfRange, WriteFails, cpuVars, usbVars, cardVars, IInv, Card
<1>2. TypeOK'
  BY <1>1 DEF IInv, TypeOK
<1>3. Counts'
  BY <1>1 DEF Counts, Receiving
<1>4. Usb'
  BY <1>1 DEF IInv, Usb
<1>5. Card'
  BY <1>1 DEF IInv, TypeOK, Card, Receiving
<1>6. Contents'
  BY <1>1 DEF Contents
<1>7. Stored'
  BY <1>1 DEF IInv, TypeOK, Stored, Form
<1> QED
  BY <1>2, <1>3, <1>4, <1>5, <1>6, <1>7 DEF IInv

\* On to the next chunk, in the buffer the card does not program from.
LEMMA ChunkWrittenIInv == IInv /\ ChunkWritten => IInv'
<1> SUFFICES ASSUME IInv, ChunkWritten PROVE IInv'
  OBVIOUS
<1>1. /\ pc = "card" /\ lba' = lba + chunk /\ left' = left - chunk
      /\ UNCHANGED <<secret, num, room, received, first, status>>
      /\ UNCHANGED <<rx, rxFlag, rxBuf, rxSlot, sent, endp1, mem, prog, next, end, medium>>
  BY DEF ChunkWritten, usbVars, cardVars
<1>2. \/ left' = 0 /\ pc' = "settle" /\ UNCHANGED <<buf, chunk>>
      \/ left' # 0 /\ pc' = "receive" /\ buf' = alternate_write_buf(buf) /\ chunk' = ChunkOf(left')
  BY DEF ChunkWritten
<1>3. /\ chunk = ChunkOf(left) /\ left > 0 /\ status = "writing" /\ lba + left = num
      /\ sent = lba + chunk /\ rx # "ACK" /\ ~rxFlag /\ ~first /\ prog = buf
      /\ Len(medium) + (end - next) = lba + chunk
  BY <1>1 DEF IInv, Counts, Usb, Card, TypeOK
<1>4. /\ left' \in Nat /\ lba' \in 0 .. num' /\ left' \in 0 .. num'
      /\ lba' + left' = num' /\ lba' > 0
  <2>1. chunk > 0 /\ chunk <= left
    BY <1>3, ChunkBounds DEF IInv, TypeOK
  <2>2. num \in Nat /\ lba \in Nat /\ left \in Nat /\ chunk \in Nat /\ lba + left = num
    BY <1>3 DEF IInv, TypeOK
  <2>3. /\ left - chunk \in 0 .. num /\ lba + chunk \in 1 .. num
        /\ (lba + chunk) + (left - chunk) = num
    BY <2>1, <2>2
  <2> QED
    BY <1>1, <2>3
<1>5. chunk' \in 0 .. BUF
  BY <1>2, <1>4, ChunkBounds DEF IInv, TypeOK
<1>6. buf' \in Bufs
  BY <1>2 DEF IInv, TypeOK, Bufs, alternate_write_buf
<1>7. TypeOK'
  BY <1>1, <1>2, <1>4, <1>5, <1>6 DEF IInv, TypeOK
<1>8. Counts'
  <2>1. status' = "writing" /\ lba' + left' = num'
    BY <1>1, <1>3, <1>4
  <2>2. pc' = "receive" => chunk' = ChunkOf(left') /\ left' > 0
    BY <1>2, <1>4
  <2> QED
    BY <1>2, <2>1, <2>2 DEF Counts, Receiving
<1>9. Usb'
  <2>1. ~first' /\ ~rxFlag' /\ rx' # "ACK" /\ sent' = lba' /\ lba' > 0
    BY <1>1, <1>3, <1>4
  <2>2. pc' = "settle" => sent' = num'
    BY <1>2, <1>4, <2>1
  <2>3. /\ first' <=> lba' = 0
        /\ sent' = lba' + (IF first' THEN 1 ELSE 0)
    <3>1. first' = FALSE /\ lba' = lba + chunk /\ sent' = lba + chunk
      BY <1>1, <1>3 DEF IInv, TypeOK
    <3>2. lba + chunk \in Nat /\ lba + chunk > 0
      BY <3>1, <1>4 DEF IInv, TypeOK
    <3> QED
      BY <3>1, <3>2
  <2> QED
    BY <1>2, <2>1, <2>2, <2>3 DEF Usb
<1>10. Card'
  <2>1. next <= end /\ buf \in Bufs
    BY DEF IInv, TypeOK, Card
  <2>2. pc' = "receive" => prog' # buf'
    BY <1>1, <1>2, <1>3, <2>1 DEF alternate_write_buf, Bufs
  <2>3. Len(medium') + (end' - next') = lba'
    BY <1>1, <1>3
  <2> QED
    BY <1>1, <1>2, <2>1, <2>2, <2>3 DEF Card, Receiving
<1>11. Contents'
  BY <1>1, <1>2, <1>3 DEF Contents
<1>12. Stored'
  BY <1>1 DEF IInv, Stored, Form
<1> QED
  BY <1>7, <1>8, <1>9, <1>10, <1>11, <1>12 DEF IInv

\* The endpoint is given back to the commands, and the status sent.
LEMMA LeaveIInv == IInv /\ Leave => IInv'
<1> SUFFICES ASSUME IInv, Leave PROVE IInv'
  OBVIOUS
<1>1. /\ pc = "leave" /\ pc' = "done" /\ rxBuf' = "endp1" /\ rxSlot' = 0
      /\ status' = IF status = "failed" THEN "failed" ELSE "passed"
      /\ UNCHANGED <<secret, num, room, lba, left, chunk, buf, received, first>>
      /\ UNCHANGED <<rx, rxFlag, sent, endp1, mem, prog, next, end, medium>>
  BY DEF Leave, cardVars
<1>2. TypeOK'
  <2>1. rxSlot' \in Slots
    BY <1>1 DEF Slots
  <2> QED
    BY <1>1, <2>1 DEF IInv, TypeOK
<1>3. Counts'
  BY <1>1 DEF Counts, Receiving
<1>4. Usb'
  BY <1>1 DEF IInv, Usb
<1>5. Card'
  BY <1>1 DEF IInv, Card, Receiving
<1>6. Contents'
  BY <1>1 DEF Contents
<1>7. Stored'
  BY <1>1 DEF IInv, Stored, Form
<1> QED
  BY <1>2, <1>3, <1>4, <1>5, <1>6, <1>7 DEF IInv

\* The host's next packet goes where the processor waits for it, and so not
\* to the buffer the card programs from.
LEMMA HostOutIInv == IInv /\ HostOut => IInv'
<1> SUFFICES ASSUME IInv, HostOut PROVE IInv'
  OBVIOUS
<1>1. /\ rx = "ACK" /\ ~rxFlag /\ rxFlag' /\ sent < num /\ sent' = sent + 1
      /\ UNCHANGED <<secret, num, room, lba, left, chunk, buf, received, first, status>>
      /\ UNCHANGED <<pc, rx, rxBuf, rxSlot, prog, next, end, medium>>
  BY DEF HostOut, Armed, cpuVars, cardVars
<1>2. pc = "wait" /\ rxBuf = buf /\ rxSlot = received /\ sent = lba + received /\ received < chunk
  BY <1>1 DEF IInv, TypeOK, Usb, Counts
<1>3. /\ mem' \in [Bufs -> [Slots -> Sectors]] /\ endp1' = endp1
      /\ \A b \in Bufs, i \in Slots :
           mem'[b][i] = IF b = buf /\ i = received THEN Sector(sent, "raw") ELSE mem[b][i]
  <2>1. mem \in [Bufs -> [Slots -> Sectors]] /\ buf \in Bufs /\ received \in Slots
    BY <1>2 DEF IInv, TypeOK, Slots
  <2>2. mem' = [mem EXCEPT ![buf] = [mem[buf] EXCEPT ![received] = Sector(sent, "raw")]]
    BY <1>2, <2>1 DEF HostOut
  <2>3. Sector(sent, "raw") \in Sectors
    BY <1>1, RawSector DEF IInv, TypeOK
  <2>4. [mem[buf] EXCEPT ![received] = Sector(sent, "raw")] \in [Slots -> Sectors]
    BY <2>1, <2>3
  <2>5. endp1' = endp1
    BY <1>2, <2>1 DEF HostOut, Bufs
  <2> QED
    BY <2>1, <2>2, <2>4, <2>5
<1>4. TypeOK'
  <2>1. sent' \in 0 .. MAXNUM + 1
    BY <1>1 DEF IInv, TypeOK
  <2>2. rxFlag' \in BOOLEAN
    BY DEF HostOut
  <2> QED
    BY <1>1, <1>3, <2>1, <2>2 DEF IInv, TypeOK
<1>5. Counts'
  BY <1>1 DEF IInv, Counts, Receiving
<1>6. Usb'
  <2>1. sent' = lba' + received' + 1
    BY <1>1, <1>2 DEF IInv, TypeOK
  <2> QED
    BY <1>1, <1>2, <2>1 DEF IInv, Usb
<1>7. Card'
  BY <1>1 DEF IInv, Card, Receiving, DatLow
<1>8. Contents'
  <2>1. ASSUME NEW k \in 0 .. received - 1
        PROVE  mem'[buf][k] = Sector(lba + k, "raw")
    <3>1. k \in Slots /\ buf \in Bufs /\ k # received
      BY <1>2 DEF IInv, TypeOK, Slots
    <3> QED
      BY <1>2, <1>3, <3>1 DEF IInv, Contents
  <2>2. mem'[buf][received] = Sector(lba + received, "raw")
    <3>1. received \in Slots /\ buf \in Bufs
      BY <1>2 DEF IInv, TypeOK, Slots
    <3> QED
      BY <1>2, <1>3, <3>1
  <2> QED
    BY <1>1, <1>2, <2>1, <2>2 DEF Contents
<1>9. Stored'
  <2>1. ASSUME NEW i \in next .. end - 1
        PROVE  mem'[prog][i] = Sector(Len(medium) + i - next, Form)
    <3>1. DatLow /\ prog # buf /\ i \in Slots /\ prog \in Bufs
      BY <1>2 DEF IInv, TypeOK, Card, Receiving, DatLow, Slots
    <3> QED
      BY <1>3, <3>1 DEF IInv, Stored
  <2> QED
    BY <1>1, <2>1 DEF IInv, Stored, Form
<1> QED
  BY <1>4, <1>5, <1>6, <1>7, <1>8, <1>9 DEF IInv

\* The card programs the sector that is due.
LEMMA CardStoresIInv == IInv /\ CardStores => IInv'
<1> SUFFICES ASSUME IInv, CardStores PROVE IInv'
  OBVIOUS
<1>1. /\ next < end /\ next' = next + 1 /\ medium' = Append(medium, mem[prog][next])
      /\ UNCHANGED <<secret, num, room, lba, left, chunk, buf, received, first, status>>
      /\ UNCHANGED <<pc, rx, rxFlag, rxBuf, rxSlot, sent, endp1, mem, prog, end>>
  BY DEF CardStores, DatLow, cpuVars, usbVars
<1>2. pc \in {"receive", "arm", "wait", "ready", "card", "settle"}
  BY <1>1 DEF IInv, TypeOK, Card
<1>3. mem[prog][next] = Sector(Len(medium), Form) /\ mem[prog][next] \in Sectors
  <2>1. Len(medium) \in Nat /\ next \in next .. end - 1 /\ next \in Slots
    BY <1>1 DEF IInv, TypeOK, Slots
  <2>2. Len(medium) + next - next = Len(medium)
    BY <2>1 DEF IInv, TypeOK, Slots
  <2> QED
    BY <2>1, <2>2 DEF IInv, TypeOK, Stored
<1>4. /\ medium' \in Seq(Sectors) /\ Len(medium') = Len(medium) + 1
      /\ \A i \in 1 .. Len(medium) : medium'[i] = medium[i]
      /\ medium'[Len(medium) + 1] = Sector(Len(medium), Form)
  BY <1>1, <1>3 DEF IInv, TypeOK
<1>5. TypeOK'
  BY <1>1, <1>4 DEF IInv, TypeOK
<1>6. Counts'
  BY <1>1, <1>2 DEF IInv, Counts, Receiving
<1>7. Usb'
  BY <1>1 DEF IInv, Usb
<1>8. Card'
  <2>1. Len(medium') + (end' - next') = Len(medium) + (end - next) /\ next' <= end'
    BY <1>1, <1>4 DEF IInv, TypeOK
  <2>2. DatLow
    BY <1>1 DEF DatLow
  <2> QED
    BY <1>1, <1>2, <2>1, <2>2 DEF IInv, Card, Receiving
<1>9. Contents'
  BY <1>1, <1>2 DEF IInv, Contents
<1>10. Stored'
  <2>1. Form' = Form /\ Len(medium) \in Nat
    BY <1>1 DEF Form, IInv, TypeOK
  <2>2. ASSUME NEW i \in 1 .. Len(medium')
        PROVE  medium'[i] = Sector(i - 1, Form)
    <3>1. CASE i \in 1 .. Len(medium)
      BY <1>4, <3>1 DEF IInv, Stored
    <3>2. CASE i = Len(medium) + 1
      BY <1>4, <2>1, <3>2
    <3> QED
      BY <1>4, <2>1, <3>1, <3>2
  <2>3. ASSUME NEW i \in next' .. end' - 1
        PROVE  mem[prog][i] = Sector(Len(medium') + i - next', Form)
    <3>1. i \in next .. end - 1 /\ Len(medium') + i - next' = Len(medium) + i - next
      BY <1>1, <1>4, <2>1 DEF IInv, TypeOK
    <3> QED
      BY <3>1 DEF IInv, Stored
  <2> QED
    BY <1>1, <2>1, <2>2, <2>3 DEF Stored
<1> QED
  BY <1>5, <1>6, <1>7, <1>8, <1>9, <1>10 DEF IInv

----------------------------------------------------------------------------
LEMMA StutterIInv == IInv /\ UNCHANGED vars => IInv'
<1> SUFFICES ASSUME IInv, UNCHANGED vars PROVE IInv'
  OBVIOUS
<1>1. /\ UNCHANGED <<pc, secret, num, room, lba, left, chunk, buf, received, first, status>>
      /\ UNCHANGED <<rx, rxFlag, rxBuf, rxSlot, sent, endp1, mem, prog, next, end, medium>>
  BY DEF vars, cpuVars, usbVars, cardVars
<1>2. TypeOK' /\ Counts' /\ Usb'
  BY <1>1 DEF IInv, TypeOK, Counts, Usb, Receiving
<1>3. Card' /\ Contents' /\ Stored'
  BY <1>1 DEF IInv, Card, Contents, Stored, Receiving, DatLow, Form
<1> QED
  BY <1>2, <1>3 DEF IInv

LEMMA StepIInv == IInv /\ [Next]_vars => IInv'
<1> SUFFICES ASSUME IInv, [Next]_vars PROVE IInv'
  OBVIOUS
<1>1. CASE Enter \/ CardReady \/ Settle
  BY <1>1, MovesIInv
<1>2. CASE OutOfRange \/ WriteFails
  BY <1>2, FailIInv
<1> QED
  BY <1>1, <1>2, CommandIInv, ReceiveIInv, ArmIInv, PacketReceivedIInv, FilterIInv,
     WriteChunkIInv, ChunkWrittenIInv, LeaveIInv, HostOutIInv, CardStoresIInv, StutterIInv
  DEF Next, Cpu

(* What every state of the stream satisfies: the sectors of the command    *)
(* are all accounted for, on the card, in one buffer or in the other.      *)
THEOREM WriteInvariant == Spec => []IInv
<1>1. Init => IInv
  BY InitIInv
<1>2. IInv /\ [Next]_vars => IInv'
  BY StepIInv
<1> QED
  BY <1>1, <1>2, PTL DEF Spec

(* Every variable of write_stream_usb2 keeps its range: no chunk is longer *)
(* than its buffer and no packet lands beyond it.                          *)
THEOREM WriteTypeCorrect == Spec => []TypeOK
<1>1. IInv => TypeOK
  BY DEF IInv
<1> QED
  BY <1>1, WriteInvariant, PTL

(* alternate_write_buf and wait_dat0_ready keep the host and the filters   *)
(* out of the buffer the card programs from (msc_write.c:144-147).         *)
THEOREM WriteBufferNotShared == Spec => []BufferNotShared
<1>1. IInv => BufferNotShared
  <2> SUFFICES ASSUME IInv, DatLow PROVE BufferNotShared
    BY DEF BufferNotShared
  <2>1. ~(Armed /\ rxBuf = prog)
    BY DEF IInv, TypeOK, Usb, Card, Armed, Receiving
  <2> QED
    BY <2>1 DEF IInv, Stored, BufferNotShared
<1> QED
  BY <1>1, WriteInvariant, PTL

----------------------------------------------------------------------------
\* The card programs no sector the host has not sent.
LEMMA StoresInTurn == IInv /\ CardStores => Len(medium) < sent /\ Len(medium) < num
<1> SUFFICES ASSUME IInv, CardStores PROVE Len(medium) < sent /\ Len(medium) < num
  OBVIOUS
<1>1. /\ next < end /\ Len(medium) \in Nat
      /\ pc \in {"receive", "arm", "wait", "ready", "card", "settle"}
  BY DEF CardStores, DatLow, IInv, TypeOK, Card
<1>2. next \in Nat /\ end \in Nat /\ lba \in Nat /\ left \in Nat /\ chunk \in Nat
      /\ received \in Nat /\ sent \in Nat /\ num \in Nat
  BY DEF IInv, TypeOK
<1>3. lba + left = num
  BY <1>1 DEF IInv, Counts
<1>4. CASE pc = "card"
  <2>1. Len(medium) + (end - next) = lba + chunk /\ sent = lba + chunk /\ chunk <= left
    BY <1>2, <1>4, ChunkBounds DEF IInv, Card, Usb, Counts
  <2> QED
    BY <1>1, <1>2, <1>3, <2>1
<1>5. CASE pc # "card"
  <2>1. Len(medium) + (end - next) = lba /\ lba <= num
    BY <1>1, <1>2, <1>3, <1>5 DEF IInv, Card, Receiving
  <2>2. lba <= sent
    BY <1>1, <1>2, <1>5 DEF IInv, Usb, Counts
  <2> QED
    BY <1>1, <1>2, <2>1, <2>2
<1> QED
  BY <1>4, <1>5

\* Every step of the stream is one of SectorSink, or hidden from it.
LEMMA SinkStep == IInv /\ [Next]_vars => [Sink!Next]_(Sink!vars)
<1> SUFFICES ASSUME IInv, [Next]_vars PROVE [Sink!Next]_(Sink!vars)
  OBVIOUS
<1>1. CASE Command
  <2>1. Sink!Begin
    BY <1>1 DEF Command, Sink!Begin, Form, IInv, Counts
  <2> QED
    BY <2>1 DEF Sink!Next
<1>2. CASE HostOut
  <2>1. status = "writing"
    BY <1>2 DEF HostOut, Armed, IInv, Counts, Usb
  <2>2. Sink!Take
    BY <1>2, <2>1 DEF HostOut, Sink!Take, Form, cpuVars, cardVars
  <2> QED
    BY <2>2 DEF Sink!Next
<1>3. CASE CardStores
  <2>1. /\ status = "writing" /\ next < end /\ Len(medium) \in Nat
        /\ pc \in {"receive", "arm", "wait", "ready", "card", "settle"}
    BY <1>3 DEF CardStores, DatLow, IInv, TypeOK, Counts, Card
  <2>2. Len(medium) < sent /\ Len(medium) < num
    BY <1>3, StoresInTurn
  <2>3. mem[prog][next] = Sector(Len(medium), Form)
    <3>1. next \in next .. end - 1 /\ Len(medium) + next - next = Len(medium)
      BY <2>1 DEF IInv, TypeOK
    <3> QED
      BY <3>1 DEF IInv, Stored
  <2>4. UNCHANGED <<num, Form, sent, status>>
    BY <1>3 DEF CardStores, cpuVars, usbVars, Form
  <2>5. Sink!Store
    BY <1>3, <2>1, <2>2, <2>3, <2>4 DEF CardStores, Sink!Store, Sector
  <2> QED
    BY <2>5 DEF Sink!Next
<1>4. CASE Leave
  <2>1. UNCHANGED <<num, Form, sent, medium>>
    BY <1>4 DEF Leave, cardVars, Form
  <2>2. CASE status = "failed"
    BY <1>4, <2>1, <2>2 DEF Leave, Sink!vars
  <2>3. CASE status # "failed"
    <3>1. status = "writing" /\ Len(medium) = num
      BY <1>4, <2>3 DEF Leave, IInv, TypeOK, Counts
    <3>2. Sink!Pass
      BY <1>4, <2>1, <2>3, <3>1 DEF Leave, Sink!Pass
    <3> QED
      BY <3>2 DEF Sink!Next
  <2> QED
    BY <2>2, <2>3
<1>5. CASE OutOfRange \/ WriteFails
  <2>1. status = "writing"
    BY <1>5 DEF OutOfRange, WriteFails, IInv, Counts
  <2>2. Sink!Fail
    BY <1>5, <2>1 DEF OutOfRange, WriteFails, Sink!Fail, usbVars, cardVars, Form
  <2> QED
    BY <2>2 DEF Sink!Next
<1>6. CASE Enter \/ CardReady \/ Settle \/ Filter \/ WriteChunk
  BY <1>6 DEF Enter, CardReady, Settle, Filter, WriteChunk, cpuVars, usbVars, cardVars,
              Sink!vars, Form
<1>7. CASE Receive \/ Arm \/ PacketReceived
  BY <1>7 DEF Receive, Arm, PacketReceived, cpuVars, cardVars, Sink!vars, Form
<1>8. CASE ChunkWritten
  BY <1>8 DEF ChunkWritten, usbVars, cardVars, Sink!vars, Form
<1>9. CASE UNCHANGED vars
  BY <1>9 DEF vars, cpuVars, usbVars, cardVars, Sink!vars, Form
<1> QED
  BY <1>1, <1>2, <1>3, <1>4, <1>5, <1>6, <1>7, <1>8, <1>9 DEF Next, Cpu

(* WRITE(10) puts on the medium what the host sent, in order, each sector  *)
(* once and in the form of its volume, and reports "passed" only when all  *)
(* of it is there.                                                         *)
THEOREM WriteImplementsSink == Spec => ImplementsSink
<1>1. Init => Sink!Init
  BY DEF Init, Sink!Init, Form
<1>2. IInv /\ [Next]_vars => [Sink!Next]_(Sink!vars)
  BY SinkStep
<1> QED
  BY <1>1, <1>2, WriteInvariant, PTL DEF Spec, ImplementsSink, Sink!Spec

----------------------------------------------------------------------------
(* Absence of deadlock, and the number of steps.                           *)
(* The account of the sectors settles both: a processor waiting for a      *)
(* packet has armed the endpoint for a sector the host has not sent.       *)
LEMMA SomebodyMoves == IInv => NobodyStuck
<1> SUFFICES ASSUME IInv, pc \notin {"done", "enter", "receive", "arm", "filter", "write",
                                     "card", "leave"},
                    ~(pc = "wait" /\ rxFlag), ~DatLow
             PROVE  NobodyStuck
  BY DEF NobodyStuck, CpuMoves
<1>1. CASE pc \in {"ready", "settle"}
  BY <1>1 DEF NobodyStuck, CpuMoves
<1>2. CASE pc = "wait"
  <2>0. ~rxFlag
    BY <1>2
  <2>1. /\ rx = "ACK" /\ received < chunk /\ chunk = ChunkOf(left) /\ lba + left = num
        /\ sent = lba + received + (IF rxFlag THEN 1 ELSE 0)
    BY <1>2 DEF IInv, Usb, Counts
  <2>2. lba \in Nat /\ left \in Nat /\ received \in Nat /\ num \in Nat /\ chunk \in Nat
        /\ chunk <= left
    BY <2>1, ChunkBounds DEF IInv, TypeOK
  <2>3. sent < num
    BY <2>0, <2>1, <2>2
  <2> QED
    BY <2>0, <2>1, <2>3 DEF NobodyStuck, Armed
<1> QED
  BY <1>1, <1>2 DEF IInv, TypeOK

(* Whatever the buffer size and the length, the waits of msc_write.c:69,   *)
(* 140 and 147 are for something that can still happen.                    *)
THEOREM WriteNeverStuck == Spec => []NobodyStuck
  BY SomebodyMoves, WriteInvariant, PTL

\* Neither the host nor the card is ahead of the command.
Ahead == sent <= num + 1 /\ Len(medium) <= num

LEMMA StepAhead == IInv /\ Ahead /\ [Next]_vars => Ahead'
<1> SUFFICES ASSUME IInv, Ahead, [Next]_vars PROVE Ahead'
  OBVIOUS
<1>0. sent \in Nat /\ num \in Nat /\ Len(medium) \in Nat
  BY DEF IInv, TypeOK
<1>1. CASE Command
  <2>1. PICK n \in 0 .. MAXNUM : num' = n
    BY <1>1 DEF Command
  <2>2. sent' = 1 /\ Len(medium') = 0
    BY <1>1 DEF Command
  <2>3. 1 <= n + 1 /\ 0 <= n
    BY <2>1
  <2> QED
    BY <2>1, <2>2, <2>3 DEF Ahead
<1>2. CASE HostOut
  BY <1>0, <1>2 DEF HostOut, cardVars, Ahead
<1>3. CASE CardStores
  <2>1. UNCHANGED <<num, sent>> /\ medium' = Append(medium, mem[prog][next])
    BY <1>3 DEF CardStores, usbVars
  <2>2. mem[prog][next] \in Sectors /\ medium \in Seq(Sectors)
    BY <1>3 DEF CardStores, DatLow, IInv, TypeOK, Slots
  <2>3. Len(medium') = Len(medium) + 1
    BY <2>1, <2>2
  <2>4. Len(medium) < num
    BY <1>3, StoresInTurn
  <2> QED
    BY <1>0, <2>1, <2>3, <2>4 DEF Ahead
<1>4. CASE Cpu \/ UNCHANGED vars
  <2>1. UNCHANGED <<num, sent, medium>>
    BY <1>4 DEF Cpu, Enter, Receive, Arm, PacketReceived, CardReady, Filter, WriteChunk,
                OutOfRange, WriteFails, ChunkWritten, Settle, Leave, vars, cpuVars,
                usbVars, cardVars
  <2> QED
    BY <2>1 DEF Ahead
<1> QED
  BY <1>1, <1>2, <1>3, <1>4 DEF Next

LEMMA SpecAhead == Spec => [](IInv /\ Ahead)
<1>1. Init => Ahead
  BY DEF Init, Ahead
<1> QED
  BY <1>1, StepAhead, WriteInvariant, PTL DEF Spec

\* Every stage of a chunk costs less than what the chunk takes off the rest.
LEMMA StageNat == IInv => Stage \in Nat
<1> SUFFICES ASSUME IInv PROVE Stage \in Nat
  OBVIOUS
<1>1. left \in Nat /\ received \in Nat /\ chunk \in Nat
  BY DEF IInv, TypeOK
<1>2. pc \in {"receive", "arm", "wait", "ready", "filter", "write", "card"}
        => chunk <= left /\ left > 0
  BY ChunkBounds DEF IInv, TypeOK, Counts, Receiving
<1>3. pc \in {"arm", "wait"} => received < chunk
  BY DEF IInv, Counts
<1>4. CASE pc \in {"enter", "receive", "settle", "leave", "done"}
  BY <1>1, <1>4 DEF Stage
<1>5. CASE pc \in {"arm", "wait"}
  <2>1. 8 * left + 1 - 2 * received \in Nat /\ 8 * left - 2 * received \in Nat
    BY <1>1, <1>2, <1>3, <1>5
  <2> QED
    BY <1>5, <2>1 DEF Stage
<1>6. CASE pc \in {"ready", "filter", "write", "card"}
  <2>1. /\ 8 * left - 2 * chunk \in Nat /\ 8 * left - 2 * chunk - 1 \in Nat
        /\ 8 * left - 2 * chunk - 2 \in Nat /\ 8 * left - 2 * chunk - 3 \in Nat
    BY <1>1, <1>2, <1>6
  <2> QED
    BY <1>6, <2>1 DEF Stage
<1> QED
  BY <1>4, <1>5, <1>6 DEF IInv, TypeOK

LEMMA EffortNat == IInv /\ Ahead => Effort \in Nat
<1> SUFFICES ASSUME IInv, Ahead PROVE Effort \in Nat
  OBVIOUS
<1>1. num - Len(medium) \in Nat /\ num + 1 - sent \in Nat
  BY DEF IInv, TypeOK, Ahead
<1> QED
  BY <1>1, StageNat DEF Effort

\* The processor's steps take it one stage on, and at the end of a chunk to
\* the next, which is the shorter by the chunk.
LEMMA CpuStage ==
  ASSUME IInv, Cpu
  PROVE  Stage' < Stage /\ UNCHANGED <<num, sent, medium>>
<1>1. UNCHANGED <<num, sent, medium>>
  BY DEF Cpu, Enter, Receive, Arm, PacketReceived, CardReady, Filter, WriteChunk,
         OutOfRange, WriteFails, ChunkWritten, Settle, Leave, cpuVars, usbVars, cardVars
<1>2. left \in Nat /\ received \in Nat /\ chunk \in Nat
  BY DEF IInv, TypeOK
<1>3. pc \in {"receive", "arm", "wait", "ready", "filter", "write", "card"}
        => chunk <= left /\ chunk > 0
  BY ChunkBounds DEF IInv, TypeOK, Counts, Receiving
<1>4. pc \in {"arm", "wait"} => received < chunk
  BY DEF IInv, Counts
<1>5. CASE Enter
  <2>1. pc = "enter" /\ pc' \in {"receive", "leave"} /\ left' = left
    BY <1>5 DEF Enter, cpuVars
  <2> QED
    BY <1>1, <1>2, <2>1 DEF Stage
<1>6. CASE Receive
  <2>1. /\ pc = "receive" /\ received' \in {0, 1} /\ left' = left /\ chunk' = chunk
        /\ pc' \in {"arm", "filter", "ready"}
    BY <1>6 DEF Receive, After
  <2> QED
    BY <1>1, <1>2, <1>3, <2>1 DEF Stage
<1>7. CASE Arm
  <2>1. pc = "arm" /\ pc' = "wait" /\ left' = left /\ received' = received
    BY <1>7 DEF Arm, cpuVars
  <2> QED
    BY <1>1, <1>2, <2>1 DEF Stage
<1>8. CASE PacketReceived
  <2>1. /\ pc = "wait" /\ received' = received + 1 /\ left' = left /\ chunk' = chunk
        /\ \/ pc' = "arm"
           \/ pc' \in {"filter", "ready"} /\ received + 1 = chunk
    BY <1>2, <1>4, <1>8 DEF PacketReceived, After
  <2> QED
    BY <1>1, <1>2, <1>3, <2>1 DEF Stage
<1>9. CASE CardReady \/ Filter \/ WriteChunk
  <2>1. /\ left' = left /\ chunk' = chunk
        /\ \/ pc = "ready" /\ pc' = "filter"
           \/ pc = "filter" /\ pc' = "write"
           \/ pc = "write" /\ pc' = "card"
    BY <1>9 DEF CardReady, Filter, WriteChunk, cpuVars
  <2> QED
    BY <1>1, <1>2, <2>1 DEF Stage
<1>10. CASE OutOfRange \/ WriteFails
  <2>1. pc \in {"write", "card"} /\ pc' = "leave"
    BY <1>10 DEF OutOfRange, WriteFails
  <2> QED
    BY <1>1, <1>2, <1>3, <2>1 DEF Stage
<1>11. CASE ChunkWritten
  <2>1. /\ pc = "card" /\ left' = left - chunk
        /\ pc' \in {"settle", "receive"}
    BY <1>11 DEF ChunkWritten
  <2> QED
    BY <1>1, <1>2, <1>3, <2>1 DEF Stage
<1>12. CASE Settle \/ Leave
  <2>1. \/ pc = "settle" /\ pc' = "leave"
        \/ pc = "leave" /\ pc' = "done"
    BY <1>12 DEF Settle, Leave
  <2> QED
    BY <1>1, <2>1 DEF Stage
<1> QED
  BY <1>5, <1>6, <1>7, <1>8, <1>9, <1>10, <1>11, <1>12 DEF Cpu

\* The host and the card take one sector off the list each time.
LEMMA OthersEffort ==
  ASSUME IInv, HostOut \/ CardStores
  PROVE  /\ Stage' = Stage /\ num' = num
         /\ \/ sent' = sent + 1 /\ Len(medium') = Len(medium)
            \/ sent' = sent /\ Len(medium') = Len(medium) + 1
<1>1. CASE HostOut
  BY <1>1 DEF HostOut, cpuVars, cardVars, Stage
<1>2. CASE CardStores
  <2>1. UNCHANGED <<pc, left, received, chunk, num, sent>>
    BY <1>2 DEF CardStores, cpuVars, usbVars
  <2>2. mem[prog][next] \in Sectors /\ medium \in Seq(Sectors)
    BY <1>2 DEF CardStores, DatLow, IInv, TypeOK, Slots
  <2>3. Len(medium') = Len(medium) + 1
    BY <1>2, <2>2 DEF CardStores
  <2> QED
    BY <2>1, <2>3 DEF Stage
<1> QED
  BY <1>1, <1>2

LEMMA EffortFalls ==
  ASSUME IInv, Stage' \in Nat, Cpu \/ HostOut \/ CardStores
  PROVE  Effort' < Effort
<1>1. num \in Nat /\ sent \in Nat /\ Len(medium) \in Nat /\ Stage \in Nat
  BY StageNat DEF IInv, TypeOK
<1>2. CASE Cpu
  <2>1. PICK later \in Nat : later = Stage'
    OBVIOUS
  <2>2. later < Stage /\ UNCHANGED <<num, sent, medium>>
    BY <1>2, <2>1, CpuStage
  <2>3. Effort' = (num - Len(medium)) + (num + 1 - sent) + later
    BY <2>1, <2>2 DEF Effort
  <2> QED
    BY <1>1, <2>2, <2>3 DEF Effort
<1>3. CASE HostOut \/ CardStores
  BY <1>1, <1>3, OthersEffort DEF Effort
<1> QED
  BY <1>2, <1>3

(* From the command to its status a write of n sectors takes at most       *)
(* 10n + 3 steps of the processor, the host and the card together,         *)
(* whatever the buffer size and wherever the card fails.  With             *)
(* WriteNeverStuck, termination wants no more than fairness.               *)
THEOREM WriteBounded == Spec => WriteIsBounded
<1>1. IInv /\ Effort \in Nat /\ (Effort \in Nat)' /\ (Stage \in Nat)' /\ [Next]_vars
        => [pc = "done" \/ Effort' \in 0 .. Effort - 1]_vars
  <2> SUFFICES ASSUME IInv, Effort \in Nat, Effort' \in Nat, Stage' \in Nat,
                      Cpu \/ HostOut \/ CardStores
               PROVE  Effort' \in 0 .. Effort - 1
    BY DEF Next, Command
  <2> QED
    BY EffortFalls
<1>2. Spec => [](Effort \in Nat) /\ [](Stage \in Nat)
  BY EffortNat, StageNat, SpecAhead, PTL
<1> QED
  BY <1>1, <1>2, WriteInvariant, PTL DEF Spec, WriteIsBounded
=============================================================================
