--------------------------- MODULE ReadRingProofs ---------------------------
(***************************************************************************)
(* Proofs about ReadRing for a ring of any size and a command of any       *)
(* length: the host never reads a slot the card may write, and no sector   *)
(* is overwritten before the host has taken it.                            *)
(*                                                                         *)
(* Neither is inductive.  What makes them so is where things are: the      *)
(* sectors usbDone .. emmcDone - 1 lie in the slots that follow usbSlot,   *)
(* the slot being sent comes just before it, and the slot being filled     *)
(* just after them; these are distinct because read_pipe_has_space_for_    *)
(* emmc keeps two slots free, one of which the host is reading.            *)
(***************************************************************************)
EXTENDS ReadRing, SequenceTheorems, TLAPS

\* The slot i places after usbSlot.
At(i) == IF usbSlot + i < RING THEN usbSlot + i ELSE usbSlot + i - RING

Waiting == emmcDone - usbDone      \* sectors ready and not handed to USB
Streaming == pc \in {"usb", "clear", "queue", "emmc"}

Counts ==
  /\ usbDone <= emmcDone
  /\ Waiting <= RING - 2
  /\ Streaming /\ ~paused => Waiting <= RING - 3
  /\ arrived = emmcDone + (IF emmcFlag = "none" THEN 0 ELSE 1)

Card ==
  /\ emmc \in {"fill", "fault"} => Streaming /\ emmcFlag = "none" /\ ~paused /\ arrived < num
  /\ emmcFlag = "BKGAP" => Streaming /\ emmc = "gap" /\ ~paused /\ arrived < num
  /\ emmcFlag = "TRANDONE" => Streaming /\ emmc = "end" /\ ~paused /\ arrived = num
  /\ paused => Streaming /\ emmc = "gap" /\ arrived < num
  /\ ~Streaming => emmcDone = num

Places ==
  /\ Streaming => emmcSlot = At(Waiting) /\ dma = emmcSlot
  /\ tx = "ACK" \/ txFlag => usbDone > 0 /\ usbSlot = NextSlot(txSlot)

Usb ==
  /\ Len(got) = IF Armed THEN usbDone - 1 ELSE usbDone
  /\ pc \in {"clear", "queue"} => usbDone + 1 < emmcDone
  /\ pc \in {"drainClear", "drainQueue"} => usbDone < emmcDone
  /\ pc \in {"clear", "drainClear", "queue", "drainQueue"} => tx = "NAK"
  /\ pc \in {"queue", "drainQueue"} => ~txFlag /\ ~first
  /\ first => tx = "NAK" /\ ~txFlag
  /\ pc \in {"stop", "done"} => tx = "NAK" /\ usbDone = emmcDone

Contents ==
  /\ \A i \in 0 .. Waiting - 1 : ring[At(i)] = Sector(usbDone + i, Form)
  /\ Armed => ring[txSlot] = Sector(usbDone - 1, Form)
  /\ emmcFlag # "none" => ring[emmcSlot] = Sector(emmcDone, "raw")
  /\ \A i \in 1 .. Len(got) : got[i] = Sector(i - 1, Form)

(* The inductive invariant.                                                *)
IInv == TypeOK /\ Counts /\ Card /\ Places /\ Usb /\ Contents

----------------------------------------------------------------------------
USE RingAssumption, MaxNumAssumption DEF command

\* An empty ring, a silent endpoint and a card about to fill slot 0.
LEMMA InitIInv == Init => IInv
<1> SUFFICES ASSUME Init PROVE IInv
  OBVIOUS
<1>1. TypeOK
  <2>1. Garbage \in Sectors
    BY DEF Garbage, Sector, Sectors
  <2>2. 0 \in Slots /\ ring \in [Slots -> Sectors]
    BY <2>1 DEF Init, Slots
  <2>3. got \in Seq(Sectors)
    BY DEF Init
  <2> QED
    BY <2>2, <2>3 DEF Init, TypeOK
<1>2. Counts /\ Card
  BY DEF Init, Counts, Card, Waiting, Streaming
<1>3. Places /\ Usb
  BY DEF Init, Places, Usb, At, Waiting, Streaming, Armed
<1>4. Contents
  BY DEF Init, Contents, Waiting, Armed
<1> QED
  BY <1>1, <1>2, <1>3, <1>4 DEF IInv

\* Decrypting a block as it came from the card yields what the host is owed.
LEMMA DecryptedOnce ==
  ASSUME decrypt \in BOOLEAN, NEW k
  PROVE  Decrypted(Sector(k, "raw"), k) = Sector(k, Form)
  BY DEF Decrypted, Sector, Form

\* The card fills the slot after the waiting ones and touches no other.
LEMMA CardBlockIInv == IInv /\ CardBlock => IInv'
<1> SUFFICES ASSUME IInv, CardBlock PROVE IInv'
  OBVIOUS
<1> USE DEF IInv, CardBlock, cpuVars, usbVars
<1>1. TypeOK'
  BY DEF TypeOK, Sectors, Sector, Counts, Card, Slots
<1>2. Counts' /\ Card'
  BY DEF TypeOK, Counts, Card, Waiting, Streaming
<1>3. Places' /\ Usb'
  BY DEF TypeOK, Places, Usb, Waiting, Streaming, Armed, At
<1>4. Contents'
  <2>1. \A i \in 0 .. Waiting - 1 : At(i) # dma
    BY DEF TypeOK, Counts, Card, Places, Waiting, At, Slots
  <2>2. Armed => txSlot # dma
    BY DEF TypeOK, Counts, Card, Places, Waiting, At, Slots, Armed, NextSlot
  <2>3. dma = emmcSlot /\ arrived = emmcDone
    BY DEF TypeOK, Counts, Card, Places
  <2>4. Waiting' = Waiting /\ (Armed' <=> Armed) /\ Form' = Form /\ usbSlot' = usbSlot
    BY DEF Waiting, Armed, Form
  <2>5. \A s \in Slots : ring'[s] = IF s = dma THEN Sector(arrived, "raw") ELSE ring[s]
    BY DEF TypeOK
  <2>6. \A i \in 0 .. Waiting - 1 : At(i) \in Slots /\ At(i)' = At(i)
    BY <2>4 DEF TypeOK, Counts, Waiting, At, Slots
  <2>7. ASSUME NEW i \in 0 .. Waiting' - 1
        PROVE  ring'[At(i)'] = Sector(usbDone' + i, Form')
    BY <2>1, <2>4, <2>5, <2>6 DEF Contents
  <2>8. Armed' => ring'[txSlot'] = Sector(usbDone' - 1, Form')
    BY <2>2, <2>4, <2>5 DEF Contents, TypeOK
  <2>9. emmcFlag' # "none" => ring'[emmcSlot'] = Sector(emmcDone', "raw")
    BY <2>3, <2>5 DEF TypeOK
  <2>10. \A i \in 1 .. Len(got') : got'[i] = Sector(i - 1, Form')
    BY <2>4 DEF Contents
  <2> QED
    BY <2>7, <2>8, <2>9, <2>10 DEF Contents
<1> QED
  BY <1>1, <1>2, <1>3, <1>4 DEF IInv

\* The steps that move no sector: only where the CPU is, and the endpoint.
LEMMA SampleIInv ==
  ASSUME IInv, PollUsb \/ Drain
  PROVE  IInv'
<1>1. /\ UNCHANGED <<command, cpuVars, emmcVars, txFlag, txSlot, ring, got>>
      /\ tx' = IF txFlag THEN "NAK" ELSE tx
      /\ \/ pc = "usb" /\ pc' \in {"clear", "emmc"}
         \/ pc = "drain" /\ pc' \in {"drain", "drainClear"}
  BY DEF PollUsb, Drain, SampleUsb
<1>2. /\ pc' = "clear" => usbDone + 1 < emmcDone /\ (txFlag \/ first)
      /\ pc' = "drainClear" => usbDone < emmcDone /\ (txFlag \/ first)
  BY DEF PollUsb, Drain, SampleUsb, HasSafeUsbSector, IInv, TypeOK
<1>3. /\ UNCHANGED <<decrypt, num, emmcDone, usbDone, emmcSlot, usbSlot, paused, first>>
      /\ UNCHANGED <<emmc, emmcFlag, dma, arrived, txFlag, txSlot, ring, got>>
  BY <1>1 DEF command, cpuVars, emmcVars
<1>4. /\ tx' = "ACK" => tx = "ACK" /\ ~txFlag
      /\ Streaming' <=> Streaming
      /\ Armed' <=> Armed
  BY <1>1, <1>3 DEF Streaming, Armed
<1>5. TypeOK'
  <2>1. tx' \in {"ACK", "NAK"} /\ pc' \in {"usb", "clear", "emmc", "drain", "drainClear"}
    BY <1>1 DEF IInv, TypeOK
  <2> QED
    BY <1>3, <2>1 DEF IInv, TypeOK
<1>6. Counts' /\ Card'
  BY <1>3, <1>4 DEF IInv, Counts, Card, Waiting
<1>7. Places'
  BY <1>3, <1>4 DEF IInv, Places, At, Waiting, NextSlot
<1>8. Usb'
  <2>1. pc' \in {"clear", "drainClear"} => tx' = "NAK"
    BY <1>1, <1>2 DEF IInv, Usb, TypeOK
  <2>2. first => tx' = "NAK" /\ ~txFlag'
    BY <1>1 DEF IInv, Usb, TypeOK
  <2> QED
    BY <1>1, <1>2, <1>3, <1>4, <2>1, <2>2 DEF IInv, Usb
<1>9. Contents'
  BY <1>3, <1>4 DEF IInv, Contents, Waiting, At, Form
<1> QED
  BY <1>5, <1>6, <1>7, <1>8, <1>9 DEF IInv

\* The endpoint is silent while its completion flag is cleared.
LEMMA ClearIInv ==
  ASSUME IInv, Clear \/ DrainClear
  PROVE  IInv'
<1> USE DEF IInv, Clear, DrainClear, ClearTxFlag, emmcVars
<1>1. TypeOK'
  BY DEF TypeOK
<1>2. Counts' /\ Card'
  BY DEF TypeOK, Counts, Card, Waiting, Streaming
<1>3. Places' /\ Usb'
  BY DEF TypeOK, Places, Usb, Waiting, Streaming, Armed, At
<1>4. Contents'
  <2>1. ~Armed' /\ Form' = Form /\ Waiting' = Waiting /\ \A i : At(i)' = At(i)
    BY DEF Usb, Armed, Form, Waiting, At
  <2> QED
    BY <2>1 DEF Contents
<1> QED
  BY <1>1, <1>2, <1>3, <1>4 DEF IInv

\* The slot handed to USB is the first of the waiting ones.
LEMMA QueueIInv ==
  ASSUME IInv, Queue \/ DrainQueue
  PROVE  IInv'
<1> USE DEF IInv, Queue, DrainQueue, QueueSector
<1>0. /\ usbDone' = usbDone + 1 /\ usbSlot' = NextSlot(usbSlot) /\ txSlot' = usbSlot
      /\ tx' = "ACK" /\ ~txFlag' /\ ~txFlag /\ ~first
      /\ UNCHANGED <<num, got, emmcDone, emmcSlot, dma, arrived, emmcFlag>>
  BY DEF Usb, emmcVars
<1>1. TypeOK'
  <2>1. usbSlot' \in Slots /\ txSlot' \in Slots
    BY DEF TypeOK, NextSlot, Slots
  <2>2. usbDone' \in 0 .. num
    BY DEF TypeOK, Usb
  <2> QED
    BY <2>1, <2>2 DEF TypeOK
<1>2. Counts' /\ Card'
  BY DEF TypeOK, Counts, Card, Usb, Waiting, Streaming
<1>3. Places'
  <2>1. Waiting \in 1 .. RING - 2 /\ Waiting' = Waiting - 1
    BY <1>0 DEF TypeOK, Counts, Usb, Waiting
  <2>2. At(Waiting)' = At(Waiting)
    <3>1. usbSlot \in 0 .. RING - 1 /\ RING \in Nat
      BY DEF TypeOK, Slots
    <3> HIDE DEF Queue, DrainQueue, QueueSector, IInv
    <3> QED
      BY <1>0, <2>1, <3>1 DEF At, NextSlot
  <2>3. Streaming' => emmcSlot' = At(Waiting)' /\ dma' = emmcSlot'
    <3>1. Streaming' => Streaming
      BY DEF Streaming
    <3> QED
      BY <1>0, <2>2, <3>1 DEF Places
  <2>4. usbDone' > 0 /\ usbSlot' = NextSlot(txSlot')
    BY <1>0 DEF TypeOK
  <2> QED
    BY <2>3, <2>4 DEF Places
<1>4. Usb'
  <2>1. ~Armed /\ Armed'
    BY <1>0 DEF Usb, Armed
  <2>2. Len(got') = usbDone' - 1
    BY <1>0, <2>1 DEF Usb, TypeOK
  <2>3. pc' \in {"emmc", "drain"} /\ ~first'
    BY <1>0
  <2> QED
    BY <1>0, <2>1, <2>2, <2>3 DEF Usb, Armed
<1>5. Contents'
  <2>1. Waiting' = Waiting - 1 /\ Waiting \in 1 .. RING - 2 /\ Form' = Form
    BY DEF TypeOK, Counts, Usb, Waiting, Form
  <2>2. ASSUME NEW i \in 0 .. Waiting - 2 PROVE At(i)' = At(i + 1)
    <3>1. /\ usbSlot' = IF usbSlot + 1 = RING THEN 0 ELSE usbSlot + 1
          /\ usbSlot \in 0 .. RING - 1 /\ i \in 0 .. RING - 4 /\ RING \in Nat
      BY <1>0, <2>1 DEF TypeOK, NextSlot, Slots
    <3> HIDE DEF Queue, DrainQueue, QueueSector, IInv
    <3> QED
      BY <3>1 DEF At
  <2>3. At(0) = usbSlot
    BY DEF TypeOK, At, Slots
  <2>4. ASSUME NEW i \in 0 .. Waiting' - 1
        PROVE  ring'[At(i)'] = Sector(usbDone' + i, Form')
    <3>1. i + 1 \in 0 .. Waiting - 1 /\ usbDone' + i = usbDone + (i + 1)
      BY <2>1 DEF TypeOK
    <3> QED
      BY <2>1, <2>2, <3>1 DEF Contents
  <2>5. ring'[txSlot'] = Sector(usbDone' - 1, Form')
    <3>1. 0 \in 0 .. Waiting - 1 /\ usbDone' - 1 = usbDone + 0
      BY <2>1 DEF TypeOK
    <3> QED
      BY <2>1, <2>3, <3>1 DEF Contents
  <2>6. \A i \in 1 .. Len(got') : got'[i] = Sector(i - 1, Form')
    BY <2>1 DEF Contents
  <2> QED
    BY <2>4, <2>5, <2>6 DEF Contents
<1> QED
  BY <1>1, <1>2, <1>3, <1>4, <1>5 DEF IInv

\* What both ends of a block do: the sector joins the waiting ones, in the
\* form the host is owed.
LEMMA BlockEffect ==
  ASSUME IInv, BlockGap \/ TransferDone
  PROVE  /\ Waiting \in 0 .. RING - 3
         /\ emmcSlot = At(Waiting)
         /\ usbDone + Waiting = emmcDone
         /\ emmcDone' = emmcDone + 1 /\ Waiting' = Waiting + 1
         /\ emmcFlag' = "none"
         /\ UNCHANGED <<command, usbDone, usbSlot, first, arrived, tx, txFlag, txSlot, got>>
         /\ ring' = [ring EXCEPT ![emmcSlot] = Sector(emmcDone, Form)]
<1> USE DEF IInv
<1>1. Streaming /\ ~paused /\ emmcFlag # "none"
  BY DEF BlockGap, TransferDone, Card
<1>2. Waiting \in 0 .. RING - 3 /\ usbDone + Waiting = emmcDone
  BY <1>1 DEF TypeOK, Counts, Waiting
<1>3. emmcSlot = At(Waiting)
  BY <1>1 DEF Places
<1>4. Decrypted(ring[emmcSlot], emmcDone) = Sector(emmcDone, Form)
  <2>1. ring[emmcSlot] = Sector(emmcDone, "raw")
    BY <1>1 DEF Contents
  <2> QED
    BY <2>1, DecryptedOnce DEF TypeOK
<1>5. CASE BlockGap
  BY <1>2, <1>3, <1>4, <1>5 DEF BlockGap, usbVars, Waiting, TypeOK
<1>6. CASE TransferDone
  BY <1>2, <1>3, <1>4, <1>6 DEF TransferDone, usbVars, Waiting, TypeOK
<1> QED
  BY <1>5, <1>6

\* The finished block joins the waiting ones and disturbs none of them.
LEMMA BlockContents ==
  ASSUME IInv, BlockGap \/ TransferDone
  PROVE  Contents' /\ ring' \in [Slots -> Sectors]
<1> USE DEF IInv
<1>1. /\ Waiting \in 0 .. RING - 3 /\ Waiting' = Waiting + 1
      /\ emmcSlot = At(Waiting)
      /\ usbDone + Waiting = emmcDone /\ usbDone' = usbDone
      /\ emmcFlag' = "none" /\ txSlot' = txSlot /\ got' = got
      /\ Form' = Form /\ usbSlot' = usbSlot /\ (Armed' <=> Armed)
  BY BlockEffect DEF Form, Armed
<1>2. Sector(emmcDone, Form) \in Sectors
  BY DEF TypeOK, Sector, Sectors, Form
<1>3. /\ ring' \in [Slots -> Sectors]
      /\ \A s \in Slots : ring'[s] = IF s = emmcSlot THEN Sector(emmcDone, Form) ELSE ring[s]
  BY <1>2, BlockEffect DEF TypeOK
<1>4. \A i \in 0 .. Waiting : At(i) \in Slots /\ At(i)' = At(i)
  BY <1>1 DEF TypeOK, At, Slots
<1>5. \A i \in 0 .. Waiting - 1 : At(i) # emmcSlot
  BY <1>1 DEF TypeOK, At, Slots
<1>6. ASSUME NEW i \in 0 .. Waiting' - 1
      PROVE  ring'[At(i)'] = Sector(usbDone' + i, Form')
  <2>1. i \in 0 .. Waiting
    BY <1>1
  <2>2. At(i) \in Slots /\ At(i)' = At(i)
    BY <2>1, <1>4
  <2>3. CASE i = Waiting
    BY <2>2, <2>3, <1>1, <1>3
  <2>4. CASE i # Waiting
    <3>1. i \in 0 .. Waiting - 1
      BY <2>1, <2>4, <1>1
    <3>2. At(i) # emmcSlot /\ ring[At(i)] = Sector(usbDone + i, Form)
      BY <3>1, <1>5 DEF Contents
    <3> QED
      BY <2>2, <3>2, <1>1, <1>3
  <2> QED
    BY <2>3, <2>4
<1>7. Armed' => ring'[txSlot'] = Sector(usbDone' - 1, Form')
  <2>1. Armed => txSlot # emmcSlot
    BY <1>1 DEF TypeOK, Places, Armed, At, NextSlot, Slots
  <2> QED
    BY <2>1, <1>1, <1>3 DEF Contents, TypeOK
<1>8. \A i \in 1 .. Len(got') : got'[i] = Sector(i - 1, Form')
  BY <1>1 DEF Contents
<1> QED
  BY <1>1, <1>3, <1>6, <1>7, <1>8 DEF Contents

\* The DMA moves on, and the card with it if two slots stay free.
LEMMA BlockGapIInv == IInv /\ BlockGap => IInv'
<1> SUFFICES ASSUME IInv, BlockGap PROVE IInv'
  OBVIOUS
<1> USE DEF IInv
<1>1. Contents' /\ ring' \in [Slots -> Sectors]
  BY BlockContents
<1>2. /\ Waiting \in 0 .. RING - 3 /\ Waiting' = Waiting + 1
      /\ emmcSlot = At(Waiting) /\ usbSlot' = usbSlot
      /\ emmcDone < num /\ arrived = emmcDone + 1 /\ arrived < num
      /\ pc = "emmc" /\ pc' = "usb" /\ emmc = "gap" /\ ~paused
  BY BlockEffect DEF BlockGap, TypeOK, Counts, Card
<1>3. HasSpace(emmcDone') <=> Waiting' <= RING - 3
  BY <1>2 DEF HasSpace, BlockGap, Waiting, TypeOK
<1>4. TypeOK'
  <2>1. emmcSlot' \in Slots /\ emmcDone' \in 0 .. num
    BY <1>2 DEF BlockGap, TypeOK, NextSlot, Slots
  <2> QED
    BY <1>1, <2>1 DEF BlockGap, TypeOK, usbVars
<1>5. Counts'
  BY <1>2, <1>3 DEF BlockGap, TypeOK, Counts, Streaming, Waiting
<1>6. Card'
  BY <1>2 DEF BlockGap, TypeOK, Card, Streaming
<1>7. Places'
  <2>1. emmcSlot' = At(Waiting)'
    BY <1>2 DEF BlockGap, TypeOK, At, NextSlot, Slots
  <2> QED
    BY <2>1 DEF BlockGap, Places, usbVars, NextSlot
<1>8. Usb'
  BY <1>2 DEF BlockGap, Usb, usbVars, Armed
<1> QED
  BY <1>1, <1>4, <1>5, <1>6, <1>7, <1>8

\* The last block ends the first loop with every sector accounted for.
LEMMA TransferDoneIInv == IInv /\ TransferDone => IInv'
<1> SUFFICES ASSUME IInv, TransferDone PROVE IInv'
  OBVIOUS
<1> USE DEF IInv
<1>1. Contents' /\ ring' \in [Slots -> Sectors]
  BY BlockContents
<1>2. /\ Waiting \in 0 .. RING - 3 /\ Waiting' = Waiting + 1
      /\ emmcDone' = num /\ arrived = num
      /\ pc' = "drain" /\ emmc = "end" /\ ~paused
  BY BlockEffect DEF TransferDone, TypeOK, Counts, Card
<1>3. TypeOK'
  BY <1>1, <1>2 DEF TransferDone, TypeOK, usbVars
<1>4. Counts' /\ Card'
  BY <1>2 DEF TransferDone, TypeOK, Counts, Card, Streaming, Waiting
<1>5. Places' /\ Usb'
  BY <1>2 DEF TransferDone, Places, Usb, Streaming, usbVars, Armed, NextSlot
<1> QED
  BY <1>1, <1>3, <1>4, <1>5

\* The remaining steps of the CPU and of the card move no sector.
LEMMA QuietIInv ==
  ASSUME IInv, NoCardEvent \/ LastSent \/ StopTransmission \/ CardFault
  PROVE  IInv'
<1> USE DEF IInv
<1>1. /\ UNCHANGED <<command, cpuVars, dma, arrived, txSlot, ring, got>>
      /\ Armed' => Armed
      /\ emmcFlag' # "none" => emmcFlag' = emmcFlag
  BY DEF NoCardEvent, LastSent, StopTransmission, CardFault, emmcVars, usbVars, Armed
<1>2. TypeOK'
  <2>1. CASE NoCardEvent
    BY <2>1 DEF TypeOK, NoCardEvent, cpuVars, emmcVars, usbVars
  <2>2. CASE LastSent
    BY <2>2 DEF TypeOK, LastSent, cpuVars, emmcVars
  <2>3. CASE StopTransmission
    BY <2>3 DEF TypeOK, StopTransmission, cpuVars, usbVars
  <2>4. CASE CardFault
    BY <2>4 DEF TypeOK, CardFault, cpuVars, usbVars
  <2> QED
    BY <2>1, <2>2, <2>3, <2>4
<1>3. Counts' /\ Card'
  <2>1. CASE NoCardEvent
    BY <2>1 DEF TypeOK, Counts, Card, Waiting, Streaming, NoCardEvent, cpuVars, emmcVars
  <2>2. CASE LastSent
    BY <2>2 DEF TypeOK, Counts, Card, Waiting, Streaming, LastSent, cpuVars, emmcVars
  <2>3. CASE StopTransmission
    BY <2>3 DEF TypeOK, Counts, Card, Waiting, Streaming, StopTransmission, cpuVars
  <2>4. CASE CardFault
    BY <2>4 DEF TypeOK, Counts, Card, Waiting, Streaming, CardFault, cpuVars
  <2> QED
    BY <2>1, <2>2, <2>3, <2>4
<1>4. Places' /\ Usb'
  <2>1. CASE NoCardEvent
    BY <2>1 DEF Places, Usb, Waiting, Streaming, Armed, At, NextSlot, NoCardEvent, cpuVars, emmcVars, usbVars
  <2>2. CASE LastSent
    BY <2>2 DEF Places, Usb, Waiting, Streaming, Armed, At, NextSlot, LastSent, cpuVars, emmcVars
  <2>3. CASE StopTransmission
    BY <2>3 DEF Places, Usb, Waiting, Streaming, Armed, At, NextSlot, StopTransmission, cpuVars, usbVars
  <2>4. CASE CardFault
    BY <2>4 DEF Places, Usb, Waiting, Streaming, Armed, At, NextSlot, CardFault, cpuVars, usbVars
  <2> QED
    BY <2>1, <2>2, <2>3, <2>4
<1>5. Contents'
  <2>1. Waiting' = Waiting /\ Form' = Form /\ \A i : At(i)' = At(i)
    BY <1>1 DEF Waiting, Form, At, cpuVars
  <2> QED
    BY <1>1, <2>1 DEF Contents, cpuVars
<1> QED
  BY <1>2, <1>3, <1>4, <1>5

\* The host takes the sector usbDone - 1, which nobody may write meanwhile.
LEMMA HostInIInv == IInv /\ HostIn => IInv'
<1> SUFFICES ASSUME IInv, HostIn PROVE IInv'
  OBVIOUS
<1> USE DEF IInv, HostIn, cpuVars, emmcVars
<1>1. /\ Armed /\ ~Armed' /\ Len(got) = usbDone - 1 /\ usbDone \in 1 .. num
      /\ txSlot \in Slots /\ ring[txSlot] = Sector(Len(got), Form)
  BY DEF Armed, Usb, Contents, Places, TypeOK
<1>2. ~(emmc = "fill" /\ dma = txSlot)
  BY <1>1 DEF Armed, TypeOK, Counts, Card, Places, Waiting, At, NextSlot, Slots
<1>3. got' = Append(got, Sector(Len(got), Form))
  BY <1>1, <1>2
<1>4. Sector(Len(got), Form) \in Sectors
  BY <1>1 DEF TypeOK
<1>5. Len(got') = Len(got) + 1 /\ got' \in Seq(Sectors)
  BY <1>3, <1>4, AppendProperties DEF TypeOK
<1>6. TypeOK'
  BY <1>5 DEF TypeOK
<1>7. Counts' /\ Card' /\ Places'
  BY <1>1 DEF Counts, Card, Places, Waiting, Streaming, At, NextSlot, Armed
<1>8. Usb'
  BY <1>1, <1>5 DEF Usb, TypeOK, Armed
<1>9. Contents'
  <2>1. Waiting' = Waiting /\ Form' = Form /\ \A i : At(i)' = At(i)
    BY DEF Waiting, Form, At
  <2>2. ASSUME NEW i \in 1 .. Len(got')
        PROVE  got'[i] = Sector(i - 1, Form)
    <3>1. CASE i \in 1 .. Len(got)
      BY <3>1, <1>3, <1>4, AppendProperties DEF TypeOK, Contents
    <3>2. CASE i = Len(got) + 1
      BY <3>2, <1>1, <1>3, <1>4, AppendProperties DEF TypeOK
    <3> QED
      BY <3>1, <3>2, <1>1, <1>5
  <2> QED
    BY <1>1, <2>1, <2>2 DEF Contents
<1> QED
  BY <1>6, <1>7, <1>8, <1>9

\* The invariant is about the variables only.
LEMMA StutterIInv == IInv /\ UNCHANGED vars => IInv'
<1> SUFFICES ASSUME IInv, UNCHANGED vars PROVE IInv'
  OBVIOUS
<1> USE DEF vars, cpuVars, emmcVars, usbVars
<1>1. TypeOK' /\ Counts' /\ Card'
  BY DEF IInv, TypeOK, Counts, Card, Waiting, Streaming
<1>2. Places' /\ Usb' /\ Contents'
  BY DEF IInv, Places, Usb, Contents, Waiting, Streaming, Armed, At, NextSlot, Form
<1> QED
  BY <1>1, <1>2 DEF IInv

(* Every step of the processor, the card and the host keeps the invariant. *)
LEMMA NextIInv == IInv /\ [Next]_vars => IInv'
<1> SUFFICES ASSUME IInv, [Next]_vars PROVE IInv'
  OBVIOUS
<1>1. CASE PollUsb \/ Drain
  BY <1>1, SampleIInv
<1>2. CASE Clear \/ DrainClear
  BY <1>2, ClearIInv
<1>3. CASE Queue \/ DrainQueue
  BY <1>3, QueueIInv
<1>4. CASE BlockGap
  BY <1>4, BlockGapIInv
<1>5. CASE TransferDone
  BY <1>5, TransferDoneIInv
<1>6. CASE NoCardEvent \/ LastSent \/ StopTransmission \/ CardFault
  BY <1>6, QuietIInv
<1>7. CASE CardBlock
  BY <1>7, CardBlockIInv
<1>8. CASE HostIn
  BY <1>8, HostInIInv
<1>9. CASE UNCHANGED vars
  BY <1>9, StutterIInv
<1> QED
  BY <1>1, <1>2, <1>3, <1>4, <1>5, <1>6, <1>7, <1>8, <1>9 DEF Next, Cpu, Finished

\* The invariant holds throughout every read.
LEMMA SpecIInv == Spec => []IInv
  BY InitIInv, NextIInv, PTL DEF Spec

----------------------------------------------------------------------------
(* read_stream_usb2 keeps its indices inside the ring and its counters     *)
(* within the command, whatever the ring size and the transfer length.     *)
THEOREM TypeCorrect == Spec => []TypeOK
<1>1. IInv => TypeOK
  BY DEF IInv
<1> QED
  BY <1>1, SpecIInv, PTL

\* The filling slot comes after the waiting ones, the sending slot before.
LEMMA SlotStable == IInv => UsbSlotStable
<1> SUFFICES ASSUME IInv, Armed PROVE UsbSlotStable
  BY DEF UsbSlotStable
<1>1. ring[txSlot] = Sector(Len(got), Form)
  BY DEF IInv, Usb, Contents
<1>2. ~(emmc = "fill" /\ dma = txSlot)
  BY DEF IInv, Armed, TypeOK, Counts, Card, Places, Waiting, At, NextSlot, Slots
<1> QED
  BY <1>1, <1>2 DEF UsbSlotStable

(* While the endpoint is armed the card is never let loose on the slot the *)
(* host may read, which holds the next sector, decrypted exactly once      *)
(* (msc_read.c:101).                                                       *)
THEOREM UsbSlotSafe == Spec => []UsbSlotStable
  BY SpecIInv, SlotStable, PTL

(* The card never laps the host: read_pipe_has_space_for_emmc stops it     *)
(* before it would write over a sector still to be taken.                  *)
THEOREM RingKeepsSectors == Spec => []NoSectorLost
<1>1. IInv => NoSectorLost
  <2> SUFFICES ASSUME IInv, NEW k \in Len(got) .. emmcDone - 1
               PROVE  \E s \in Slots : /\ ring[s] = Sector(k, Form)
                                       /\ ~(emmc = "fill" /\ dma = s)
    BY DEF NoSectorLost
  <2>1. k \in Int /\ usbDone \in Nat /\ emmcDone \in Nat /\ Waiting = emmcDone - usbDone
    BY DEF IInv, TypeOK, Usb, Armed, Waiting
  <2>2. CASE k >= usbDone
    <3> DEFINE i == k - usbDone
    <3>1. i \in 0 .. Waiting - 1 /\ usbDone + i = k
      BY <2>1, <2>2
    <3>2. At(i) \in Slots
      BY <2>1, <3>1 DEF IInv, TypeOK, Counts, At, Slots
    <3>3. ring[At(i)] = Sector(k, Form)
      BY <3>1 DEF IInv, Contents
    <3>4. ~(emmc = "fill" /\ dma = At(i))
      BY <2>1, <3>1 DEF IInv, TypeOK, Counts, Card, Places, At, Slots
    <3> QED
      BY <3>2, <3>3, <3>4
  <2>3. CASE k < usbDone
    <3>1. Armed /\ k = usbDone - 1 /\ k = Len(got)
      BY <2>1, <2>3 DEF IInv, Usb
    <3>2. txSlot \in Slots
      BY DEF IInv, TypeOK
    <3> QED
      BY <3>1, <3>2, SlotStable DEF UsbSlotStable
  <2> QED
    BY <2>1, <2>2, <2>3
<1> QED
  BY <1>1, SpecIInv, PTL

----------------------------------------------------------------------------
(* Implementation of the abstract stream.                                  *)
\* A block taken from the endpoint is the next one of the stream.
LEMMA HostInDelivers == IInv /\ HostIn => Stream!Deliver
<1> SUFFICES ASSUME IInv, HostIn PROVE Stream!Deliver
  OBVIOUS
<1>1. UNCHANGED <<pc, command, emmc>>
  BY DEF HostIn, emmcVars
<1>2. Len(got) < num /\ pc # "done"
  BY DEF HostIn, Armed, IInv, TypeOK, Usb
<1>3. got' = Append(got, [sec |-> Len(got), form |-> Form])
  BY SlotStable DEF HostIn, UsbSlotStable, Sector
<1> QED
  BY <1>1, <1>2, <1>3 DEF Stream!Deliver, Form

\* CMD12 closes a read that delivered everything.
LEMMA StopCompletes == IInv /\ StopTransmission => Stream!Complete
<1> SUFFICES ASSUME IInv, StopTransmission PROVE Stream!Complete
  OBVIOUS
<1>1. /\ pc = "stop" /\ pc' = "done" /\ emmc # "fault" /\ emmc' = "stopped"
      /\ UNCHANGED <<got, command>>
  BY DEF StopTransmission, IInv, Card, Streaming
<1>2. Len(got) = num
  BY <1>1 DEF IInv, TypeOK, Usb, Card, Streaming, Armed
<1> QED
  BY <1>1, <1>2 DEF Stream!Complete, Form

\* Every other step of the implementation is invisible or the card's failure.
LEMMA OthersStutter ==
  ASSUME IInv, [Next]_vars, ~HostIn, ~StopTransmission, ~CardFault
  PROVE  UNCHANGED Stream!vars
<1>1. UNCHANGED <<got, command>>
  BY DEF Next, Cpu, vars, cpuVars, emmcVars, usbVars, PollUsb, Drain, SampleUsb, Clear,
         DrainClear, ClearTxFlag, Queue, DrainQueue, QueueSector, BlockGap, TransferDone,
         NoCardEvent, LastSent, CardBlock, Finished
<1>2. (pc' = "done" <=> pc = "done") /\ (emmc' = "fault" <=> emmc = "fault")
  BY DEF Next, Cpu, vars, cpuVars, emmcVars, usbVars, PollUsb, Drain, SampleUsb, Clear,
         DrainClear, ClearTxFlag, Queue, DrainQueue, QueueSector, BlockGap, TransferDone,
         NoCardEvent, LastSent, CardBlock, Finished, IInv, Card, HasSpace
<1> QED
  BY <1>1, <1>2 DEF Stream!vars, Form

(* The pipelined read delivers to the host exactly what a plain sequential *)
(* read would: the sectors asked for, in order, once, in the right form.   *)
THEOREM RingImplementsStream == Spec => ImplementsStream
<1>1. Init => Stream!Init
  BY DEF Init, Stream!Init, Form
<1>2. IInv /\ [Next]_vars => [Stream!Next]_(Stream!vars)
  <2> SUFFICES ASSUME IInv, [Next]_vars PROVE [Stream!Next]_(Stream!vars)
    OBVIOUS
  <2>1. CASE HostIn
    BY <2>1, HostInDelivers DEF Stream!Next
  <2>2. CASE StopTransmission
    BY <2>2, StopCompletes DEF Stream!Next
  <2>3. CASE CardFault
    BY <2>3 DEF CardFault, cpuVars, IInv, Card, Streaming, Form, Stream!Next, Stream!Fail
  <2> QED
    BY <2>1, <2>2, <2>3, OthersStutter
<1> QED
  BY <1>1, <1>2, SpecIInv, PTL DEF Spec, ImplementsStream, Stream!Spec

----------------------------------------------------------------------------
(* Absence of deadlock, and the number of steps.                           *)
(*                                                                         *)
(* Where the data is says nothing of whose turn it is.  That is the second *)
(* inductive invariant: a card in a gap has either raised its flag or been *)
(* paused with all but two slots full, so that there is a sector to send;  *)
(* and while the CPU polls, the endpoint is armed, has completed, or was   *)
(* never used.                                                             *)
Turn ==
  /\ emmc = "gap" => paused \/ emmcFlag = "BKGAP"
  /\ emmc = "end" /\ Streaming => emmcFlag = "TRANDONE"
  /\ emmc = "stopped" => pc = "done"
  /\ pc \in {"usb", "emmc", "drain"} => first \/ Armed \/ txFlag
  /\ first => usbDone = 0
  /\ paused => Waiting = RING - 2

LEMMA InitTurn == Init => Turn
  BY DEF Init, Turn, Streaming

\* The CPU leaves a polling loop only with an endpoint it may use, and
\* comes back to it only with a sector queued.
LEMMA UsbTurn ==
  ASSUME IInv, Turn, PollUsb \/ Drain \/ Clear \/ DrainClear \/ Queue \/ DrainQueue
  PROVE  Turn'
<1>1. CASE PollUsb \/ Drain
  <2>1. /\ UNCHANGED <<usbDone, emmcDone, paused, first, emmc, emmcFlag, txFlag>>
        /\ tx' = IF txFlag THEN "NAK" ELSE tx
        /\ \/ pc = "usb" /\ pc' \in {"clear", "emmc"}
           \/ pc = "drain" /\ pc' \in {"drain", "drainClear"}
    BY <1>1 DEF PollUsb, Drain, SampleUsb, cpuVars, emmcVars
  <2> QED
    BY <2>1 DEF IInv, TypeOK, Card, Turn, Streaming, Armed, Waiting
<1>2. CASE Clear \/ DrainClear
  BY <1>2 DEF Clear, DrainClear, ClearTxFlag, emmcVars, IInv, Card, Turn, Streaming, Waiting
<1>3. CASE Queue \/ DrainQueue
  <2>1. /\ ~first /\ ~first' /\ ~paused' /\ tx' = "ACK" /\ ~txFlag'
        /\ emmcFlag' = emmcFlag /\ emmc' = IF paused THEN "fill" ELSE emmc
        /\ \/ pc = "queue" /\ pc' = "emmc"
           \/ pc = "drainQueue" /\ pc' = "drain"
    BY <1>3 DEF Queue, DrainQueue, QueueSector, IInv, Usb
  <2> QED
    BY <2>1 DEF IInv, Card, Turn, Streaming, Armed
<1> QED
  BY <1>1, <1>2, <1>3

\* A card that is not released has filled all the slots it may.
LEMMA CardTurn ==
  ASSUME IInv, Turn,
         BlockGap \/ TransferDone \/ NoCardEvent \/ CardBlock \/ CardFault
  PROVE  Turn'
<1>1. CASE BlockGap
  <2>1. /\ Waiting \in 0 .. RING - 3 /\ Waiting' = Waiting + 1
        /\ UNCHANGED <<usbDone, first, tx, txFlag>>
    BY <1>1, BlockEffect
  <2>2. /\ ~paused /\ emmc = "gap" /\ pc = "emmc" /\ pc' = "usb"
        /\ emmc' = IF HasSpace(emmcDone') THEN "fill" ELSE emmc
        /\ paused' = IF HasSpace(emmcDone') THEN paused ELSE TRUE
        /\ emmcDone' - usbDone' = Waiting'
    BY <1>1 DEF BlockGap, IInv, Card, Waiting
  <2>3. HasSpace(emmcDone') <=> Waiting' < RING - 2
    BY <2>1, <2>2 DEF HasSpace
  <2> QED
    BY <2>1, <2>2, <2>3 DEF Turn, Streaming, Armed
<1>2. CASE TransferDone
  BY <1>2 DEF TransferDone, usbVars, IInv, Card, Turn, Streaming, Armed
<1>3. CASE NoCardEvent
  BY <1>3 DEF NoCardEvent, cpuVars, emmcVars, usbVars, Turn, Streaming, Armed, Waiting
<1>4. CASE CardBlock
  BY <1>4 DEF CardBlock, cpuVars, usbVars, IInv, Card, Turn, Streaming, Armed
<1>5. CASE CardFault
  BY <1>5 DEF CardFault, cpuVars, usbVars, IInv, Card, Turn, Streaming, Armed
<1> QED
  BY <1>1, <1>2, <1>3, <1>4, <1>5

LEMMA NextTurn == IInv /\ Turn /\ [Next]_vars => Turn'
<1> SUFFICES ASSUME IInv, Turn, [Next]_vars PROVE Turn'
  OBVIOUS
<1>1. CASE PollUsb \/ Drain \/ Clear \/ DrainClear \/ Queue \/ DrainQueue
  BY <1>1, UsbTurn
<1>2. CASE BlockGap \/ TransferDone \/ NoCardEvent \/ CardBlock \/ CardFault
  BY <1>2, CardTurn
<1>3. CASE LastSent
  BY <1>3 DEF LastSent, cpuVars, emmcVars, IInv, Card, Turn, Streaming
<1>4. CASE StopTransmission
  BY <1>4 DEF StopTransmission, cpuVars, IInv, Card, Turn, Streaming
<1>5. CASE HostIn
  BY <1>5 DEF HostIn, cpuVars, emmcVars, Turn, Streaming, Armed, Waiting
<1>6. CASE UNCHANGED vars
  BY <1>6 DEF vars, cpuVars, emmcVars, usbVars, Turn, Streaming, Armed, Waiting
<1> QED
  BY <1>1, <1>2, <1>3, <1>4, <1>5, <1>6 DEF Next, Cpu, Finished

LEMMA TurnMoves == IInv /\ Turn => NobodyStuck
<1> SUFFICES ASSUME IInv, Turn,
                    pc # "done", emmc # "fault", ~CpuMoves, emmc # "fill", ~Armed
             PROVE  FALSE
  BY DEF NobodyStuck
<1>1. CASE pc \in {"usb", "emmc"}
  <2>1. emmcFlag = "none" /\ emmc \in {"gap", "end", "stopped"} /\ Streaming
    BY <1>1 DEF CpuMoves, IInv, TypeOK, Streaming
  <2>2. paused /\ Waiting = RING - 2
    BY <1>1, <2>1 DEF Turn
  <2>3. HasSafeUsbSector
    BY <2>2 DEF HasSafeUsbSector, Waiting, IInv, TypeOK
  <2> QED
    BY <1>1, <2>3 DEF Turn, CpuMoves
<1>2. CASE pc = "drain"
  <2>1. first \/ txFlag
    BY <1>2 DEF Turn
  <2>2. first => usbDone < emmcDone
    BY <1>2 DEF Turn, IInv, TypeOK, Card, Streaming
  <2> QED
    BY <1>2, <2>1, <2>2 DEF CpuMoves
<1> QED
  BY <1>1, <1>2 DEF CpuMoves, IInv, TypeOK

(* No ring size, transfer length or interleaving leaves the loops of       *)
(* read_stream_usb2 waiting on each other (msc_read.c:165, msc_read.c:179):*)
(* short of a card failure somebody can always move.                       *)
THEOREM ReadNeverStuck == Spec => []NobodyStuck
<1>1. Spec => [](IInv /\ Turn)
  BY InitIInv, InitTurn, NextIInv, NextTurn, PTL DEF Spec
<1> QED
  BY <1>1, TurnMoves, PTL

----------------------------------------------------------------------------
Stage ==
  IF pc \in {"usb", "emmc", "drain"} THEN 2
  ELSE IF pc \in {"clear", "drainClear", "stop"} THEN 1 ELSE 0
Sound == IF emmc = "fault" THEN 0 ELSE 1

\* Sectors to deliver, to decrypt, to send (three steps each) and to take.
ToDo == (num - arrived) + (num - emmcDone) + 3 * (num - usbDone) + (num - Len(got))

\* Nothing is delivered, decrypted, sent or taken more often than asked for.
LEMMA ToDoNat ==
  IInv => /\ num \in Nat /\ arrived \in 0 .. num /\ emmcDone \in 0 .. num
          /\ usbDone \in 0 .. num /\ Len(got) \in 0 .. num
          /\ Stage \in 0 .. 2 /\ Sound \in 0 .. 1
<1> SUFFICES ASSUME IInv
             PROVE  /\ num \in Nat /\ arrived \in 0 .. num /\ emmcDone \in 0 .. num
                    /\ usbDone \in 0 .. num /\ Len(got) \in 0 .. num
                    /\ Stage \in 0 .. 2 /\ Sound \in 0 .. 1
  OBVIOUS
<1>1. Len(got) \in 0 .. num
  BY DEF IInv, TypeOK, Usb, Armed
<1>2. pc \in {"usb", "clear", "queue", "emmc", "drain", "drainClear", "drainQueue",
              "stop", "done"}
  BY DEF IInv, TypeOK
<1>3. Stage \in 0 .. 2 /\ Sound \in 0 .. 1
  BY <1>2 DEF Stage, Sound
<1>4. num \in Nat /\ arrived \in 0 .. num /\ emmcDone \in 0 .. num /\ usbDone \in 0 .. num
  BY DEF IInv, TypeOK
<1> QED
  BY <1>1, <1>3, <1>4

\* The CPU's steps: only the look at an unset flag costs nothing.
LEMMA CpuEffort ==
  ASSUME IInv, Cpu
  PROVE  Polls \/ ToDo' + Stage' + Sound' = (ToDo + Stage + Sound) - 1
<1>0. /\ num \in Nat /\ arrived \in Nat /\ emmcDone \in Nat /\ usbDone \in Nat
      /\ Len(got) \in Nat /\ Sound \in Nat /\ ToDo \in Int
  BY ToDoNat DEF ToDo
<1>1. CASE PollUsb \/ Drain
  <2>1. /\ UNCHANGED <<command, cpuVars, emmcVars, txFlag, txSlot, ring, got>>
        /\ pc \in {"usb", "drain"} /\ pc' \in {"clear", "drainClear", "emmc", "drain"}
    BY <1>1 DEF PollUsb, Drain, SampleUsb
  <2>2. ToDo' = ToDo /\ Sound' = Sound
    BY <2>1 DEF ToDo, Sound, cpuVars, emmcVars
  <2>3. CASE pc' \in {"clear", "drainClear"}
    <3>1. Stage = 2 /\ Stage' = 1
      BY <2>1, <2>3 DEF Stage
    <3> QED
      BY <1>0, <2>2, <3>1
  <2>4. CASE pc' \in {"emmc", "drain"}
    BY <2>1, <2>4 DEF Polls
  <2> QED
    BY <2>1, <2>3, <2>4
<1>2. CASE Clear \/ DrainClear
  <2>1. /\ UNCHANGED <<num, arrived, emmcDone, usbDone, got, emmc>>
        /\ pc \in {"clear", "drainClear"} /\ pc' \in {"queue", "drainQueue"}
    BY <1>2 DEF Clear, DrainClear, ClearTxFlag, emmcVars
  <2>2. Stage = 1 /\ Stage' = 0
    BY <2>1 DEF Stage
  <2>3. ToDo' = ToDo /\ Sound' = Sound
    BY <2>1 DEF ToDo, Sound
  <2> QED
    BY <1>0, <2>2, <2>3
<1>3. CASE Queue \/ DrainQueue
  <2>1. /\ UNCHANGED <<num, arrived, emmcDone, got>>
        /\ usbDone' = usbDone + 1 /\ Sound' = Sound
        /\ pc \in {"queue", "drainQueue"} /\ pc' \in {"emmc", "drain"}
    BY <1>3 DEF Queue, DrainQueue, QueueSector, Sound, IInv, Card
  <2>2. Stage = 0 /\ Stage' = 2
    BY <2>1 DEF Stage
  <2>3. ToDo' = ToDo - 3
    BY <1>0, <2>1 DEF ToDo
  <2> QED
    BY <1>0, <2>1, <2>2, <2>3
<1>4. CASE BlockGap \/ TransferDone
  <2>1. /\ UNCHANGED <<num, arrived, usbDone, got>>
        /\ emmcDone' = emmcDone + 1 /\ Sound' = Sound
        /\ pc = "emmc" /\ pc' \in {"usb", "drain"}
    BY <1>4 DEF BlockGap, TransferDone, Sound, IInv, Card
  <2>2. Stage = 2 /\ Stage' = 2
    BY <2>1 DEF Stage
  <2>3. ToDo' = ToDo - 1
    BY <1>0, <2>1 DEF ToDo
  <2> QED
    BY <1>0, <2>1, <2>2, <2>3
<1>5. CASE NoCardEvent
  BY <1>5 DEF NoCardEvent, Polls, usbVars
<1>6. CASE LastSent \/ StopTransmission
  <2>1. /\ UNCHANGED <<num, arrived, emmcDone, usbDone, got>> /\ Sound' = Sound
        /\ \/ pc = "drain" /\ pc' = "stop"
           \/ pc = "stop" /\ pc' = "done"
    BY <1>6 DEF LastSent, StopTransmission, cpuVars, emmcVars, Sound, IInv, Card, Streaming
  <2>2. \/ Stage = 2 /\ Stage' = 1
        \/ Stage = 1 /\ Stage' = 0
    BY <2>1 DEF Stage
  <2>3. ToDo' = ToDo
    BY <2>1 DEF ToDo
  <2> QED
    BY <1>0, <2>1, <2>2, <2>3
<1> QED
  BY <1>1, <1>2, <1>3, <1>4, <1>5, <1>6 DEF Cpu

\* The card and the host only ever take one thing off the list.
LEMMA OthersEffort ==
  ASSUME IInv, CardBlock \/ CardFault \/ HostIn
  PROVE  ToDo' + Stage' + Sound' = (ToDo + Stage + Sound) - 1
<1>0. /\ num \in Nat /\ arrived \in Nat /\ emmcDone \in Nat /\ usbDone \in Nat
      /\ Len(got) \in Nat /\ Stage \in Nat /\ Sound \in Nat /\ ToDo \in Int
  <2>1. /\ num \in Nat /\ arrived \in 0 .. num /\ emmcDone \in 0 .. num
        /\ usbDone \in 0 .. num /\ Len(got) \in 0 .. num
        /\ Stage \in 0 .. 2 /\ Sound \in 0 .. 1
    BY ToDoNat
  <2>2. /\ arrived \in Nat /\ emmcDone \in Nat /\ usbDone \in Nat /\ Len(got) \in Nat
        /\ Stage \in Nat /\ Sound \in Nat
    BY <2>1
  <2>3. ToDo \in Int
    BY <2>1, <2>2 DEF ToDo
  <2> QED
    BY <2>1, <2>2, <2>3
<1>1. CASE CardBlock
  <2>1. /\ UNCHANGED <<pc, num, emmcDone, usbDone, got>>
        /\ arrived' = arrived + 1 /\ emmc # "fault" /\ emmc' # "fault"
    BY <1>1 DEF CardBlock, cpuVars
  <2>2. ToDo' = ToDo - 1
    BY <1>0, <2>1 DEF ToDo
  <2>3. Stage' = Stage /\ Sound' = Sound
    BY <2>1 DEF Stage, Sound
  <2> QED
    BY <1>0, <2>2, <2>3
<1>2. CASE CardFault
  <2>1. /\ UNCHANGED <<pc, num, arrived, emmcDone, usbDone, got>>
        /\ emmc = "fill" /\ emmc' = "fault"
    BY <1>2 DEF CardFault, cpuVars
  <2>2. ToDo' = ToDo /\ Stage' = Stage
    BY <2>1 DEF ToDo, Stage
  <2>3. Sound = 1 /\ Sound' = 0
    BY <2>1 DEF Sound
  <2> QED
    BY <1>0, <2>2, <2>3
<1>3. CASE HostIn
  <2>1. UNCHANGED <<pc, num, arrived, emmcDone, usbDone, emmc>>
    BY <1>3 DEF HostIn, cpuVars, emmcVars
  <2>2. Len(got') = Len(got) + 1
    BY <1>3, AppendProperties DEF HostIn, IInv, TypeOK, Slots, Garbage, Sector, Sectors
  <2>3. ToDo' = ToDo - 1
    BY <1>0, <2>1, <2>2 DEF ToDo
  <2>4. Stage' = Stage /\ Sound' = Sound
    BY <2>1 DEF Stage, Sound
  <2> QED
    BY <1>0, <2>3, <2>4
<1> QED
  BY <1>1, <1>2, <1>3

LEMMA EffortNat == IInv => Effort \in Nat
<1> SUFFICES ASSUME IInv PROVE Effort \in Nat
  OBVIOUS
<1>1. Effort = ToDo + Stage + Sound
  BY DEF Effort, ToDo, Stage, Sound
<1>2. ToDo \in Nat /\ Stage \in Nat /\ Sound \in Nat
  BY ToDoNat DEF ToDo
<1> QED
  BY <1>1, <1>2

LEMMA EffortDrops ==
  ASSUME ToDo' + Stage' + Sound' = (ToDo + Stage + Sound) - 1
  PROVE  Effort' = Effort - 1
<1>1. Effort = ToDo + Stage + Sound
  BY DEF Effort, ToDo, Stage, Sound
<1>2. Effort' = ToDo' + Stage' + Sound'
  BY DEF Effort, ToDo, Stage, Sound
<1> QED
  BY <1>1, <1>2

(* The pipeline does its work in 6n + 3 steps: n blocks delivered, n       *)
(* decrypted, n sent in three steps each, n taken and what ends the        *)
(* command.  Anything beyond is read_stream_usb2 looking at a flag that is *)
(* not set.  With ReadNeverStuck, termination wants no more than fairness. *)
THEOREM ReadBounded == Spec => ReadIsBounded
<1>1. IInv /\ (Effort \in Nat)' /\ [Next]_vars
        => [Polls \/ Effort' \in 0 .. Effort - 1]_vars
  <2> SUFFICES ASSUME IInv, Effort' \in Nat, Cpu \/ CardBlock \/ CardFault \/ HostIn, ~Polls
               PROVE  Effort' \in 0 .. Effort - 1
    BY DEF Next, Finished
  <2>1. Effort' = Effort - 1
    <3>1. ToDo' + Stage' + Sound' = (ToDo + Stage + Sound) - 1
      BY CpuEffort, OthersEffort
    <3> QED
      BY <3>1, EffortDrops
  <2> QED
    BY <2>1, EffortNat
<1>2. Spec => [](Effort \in Nat)
  BY EffortNat, SpecIInv, PTL
<1> QED
  BY <1>1, <1>2, SpecIInv, PTL DEF Spec, ReadIsBounded
=============================================================================
