------------------------------ MODULE ReadRing ------------------------------
(***************************************************************************)
(* READ(10) data phase: read_stream_usb2 of src/src/msc_read.c with the    *)
(* helpers of src/src/emmc_ops.h.  Three actors share UDisk_In_Buf:        *)
(*   - the eMMC controller, which fills the slot R32_EMMC_DMA_BEG1 names   *)
(*     and stops in a gap after every block (AUTOGAPSTOP);                 *)
(*   - the USB controller, which sends the slot R32_UEP1_TX_DMA names when *)
(*     the host asks for it;                                               *)
(*   - the CPU, which polls both with the USB and eMMC interrupts off.     *)
(* One step of the CPU is one access to a flag another actor writes, with  *)
(* the private computation that follows it.                                *)
(***************************************************************************)
EXTENDS Integers, Sequences

CONSTANTS RING,     \* READ_RING_SECTORS, 60 in the firmware
          MAXNUM    \* the most sectors a READ(10) asks for

\* A ring of 3 slots would pause the card before the first sector is safe to
\* send, and READ(10) for no sector never reaches the loop.
ASSUME RingAssumption == RING \in Nat /\ RING >= 4
ASSUME MaxNumAssumption == MAXNUM \in Nat \ {0}

VARIABLES
  pc,           \* where the CPU is in read_stream_usb2
  decrypt,      \* !phantomdrive_is_locked(), sampled once
  num,          \* preqnum, the sectors READ(10) asks for
  emmcDone,     \* pipe.emmc_done
  usbDone,      \* pipe.usb_done
  emmcSlot,     \* pipe.emmc_slot
  usbSlot,      \* pipe.usb_slot
  paused,       \* pipe.emmc_paused_for_usb_buffer
  first,        \* pipe.usb_first_packet
  emmc,         \* controller: "fill", "gap", "end", "fault" or "stopped"
  emmcFlag,     \* R16_EMMC_INT_FG: "none", "BKGAP" or "TRANDONE"
  dma,          \* slot R32_EMMC_DMA_BEG1 points at
  arrived,      \* blocks the card has delivered
  tx,           \* response bits of R8_UEP1_TX_CTRL: "ACK" or "NAK"
  txFlag,       \* RB_USB_IF_TRANSFER of R8_USB_INT_FG
  txSlot,       \* slot R32_UEP1_TX_DMA points at
  ring,         \* contents of UDisk_In_Buf, slot by slot
  got           \* history: what the host received

cpuVars == <<emmcDone, usbDone, emmcSlot, usbSlot, paused, first>>
emmcVars == <<emmc, emmcFlag, dma, arrived>>
usbVars == <<tx, txFlag, txSlot>>
command == <<decrypt, num>>
vars == <<pc, command, cpuVars, emmcVars, usbVars, ring, got>>

Slots == 0 .. RING - 1
Sector(k, form) == [sec |-> k, form |-> form]
Sectors == [sec : 0 .. MAXNUM, form : {"raw", "plain", "garbled"}]
Garbage == Sector(MAXNUM, "garbled")     \* anything but a sector of this command
Form == IF decrypt THEN "plain" ELSE "raw"

\* phantomdrive_decrypt_buf in place, with the tweak of sector k: a second pass
\* or another sector's tweak would garble it.
Decrypted(s, k) ==
  IF decrypt
    THEN [s EXCEPT !.form = IF s = Sector(k, "raw") THEN "plain" ELSE "garbled"]
    ELSE s

\* The CPU's view of the pipe.
MutSlot_NoWrap(slot) == slot + 1
NextSlot(slot) == IF slot + 1 = RING THEN 0 ELSE slot + 1

HasSafeUsbSector == emmcDone > 1 /\ usbDone < emmcDone - 1

MutSpace_WholeRing(done) == done - usbDone < RING
HasSpace(done) == done - usbDone < RING - 2

----------------------------------------------------------------------------
(* The command has been issued: emmc_start_multiblock_read has aimed the   *)
(* DMA at slot 0 and sent CMD18.                                           *)
Init ==
  /\ pc = "usb"
  /\ decrypt \in BOOLEAN /\ num \in 1 .. MAXNUM
  /\ emmcDone = 0 /\ usbDone = 0 /\ emmcSlot = 0 /\ usbSlot = 0
  /\ paused = FALSE /\ first = TRUE
  /\ emmc = "fill" /\ emmcFlag = "none" /\ dma = 0 /\ arrived = 0
  /\ tx = "NAK" /\ txFlag = FALSE /\ txSlot = 0
  /\ ring = [s \in Slots |-> Garbage]
  /\ got = <<>>

(* usb_tx_done is sampled and a finished transfer turned off; the loop     *)
(* then sends, or looks at the card ("usb"), or polls again ("drain").     *)
MutSample_KeepAck(here, ready, send, else) ==
  /\ pc = here
  /\ UNCHANGED tx
  /\ pc' = IF ready /\ (txFlag \/ first) THEN send ELSE else
  /\ UNCHANGED <<command, cpuVars, emmcVars, txFlag, txSlot, ring, got>>
SampleUsb(here, ready, send, else) ==
  /\ pc = here
  /\ tx' = IF txFlag THEN "NAK" ELSE tx
  /\ pc' = IF ready /\ (txFlag \/ first) THEN send ELSE else
  /\ UNCHANGED <<command, cpuVars, emmcVars, txFlag, txSlot, ring, got>>

(* R8_USB_INT_FG = RB_USB_IF_TRANSFER; pipe.usb_first_packet = false.      *)
ClearTxFlag(here, then) ==
  /\ pc = here
  /\ txFlag' = FALSE
  /\ first' = FALSE
  /\ pc' = then
  /\ UNCHANGED <<command, emmcDone, usbDone, emmcSlot, usbSlot, paused,
                 emmcVars, tx, txSlot, ring, got>>

(* queue_usb_read_sector and the bookkeeping after it; in the first loop a *)
(* card waiting for room is let go.                                        *)
MutQueue_NoRelease(here, then) ==
  /\ pc = here
  /\ txSlot' = usbSlot
  /\ tx' = "ACK"
  /\ usbDone' = usbDone + 1
  /\ usbSlot' = NextSlot(usbSlot)
  /\ paused' = FALSE
  /\ pc' = then
  /\ UNCHANGED <<command, emmcDone, emmcSlot, first, emmcVars, txFlag, ring, got>>
MutQueue_NotCounted(here, then) ==
  /\ pc = here
  /\ txSlot' = usbSlot
  /\ tx' = "ACK"
  /\ usbSlot' = NextSlot(usbSlot)
  /\ paused' = FALSE
  /\ emmc' = IF paused THEN "fill" ELSE emmc
  /\ pc' = then
  /\ UNCHANGED <<command, emmcDone, usbDone, emmcSlot, first, emmcFlag, dma, arrived,
                 txFlag, ring, got>>
QueueSector(here, then) ==
  /\ pc = here
  /\ txSlot' = usbSlot
  /\ tx' = "ACK"
  /\ usbDone' = usbDone + 1
  /\ usbSlot' = NextSlot(usbSlot)
  /\ paused' = FALSE
  /\ emmc' = IF paused THEN "fill" ELSE emmc
  /\ pc' = then
  /\ UNCHANGED <<command, emmcDone, emmcSlot, first, emmcFlag, dma, arrived,
                 txFlag, ring, got>>

PollUsb == SampleUsb("usb", HasSafeUsbSector, "clear", "emmc")
Clear == ClearTxFlag("clear", "queue")
Queue == QueueSector("queue", "emmc")

(* A block is complete and the card waits in the gap: decrypt it, move the *)
(* DMA to the next slot and release the card if the ring has room.         *)
BlockGap ==
  /\ pc = "emmc"
  /\ emmcFlag = "BKGAP"
  /\ ring' = [ring EXCEPT ![emmcSlot] = Decrypted(@, emmcDone)]
  /\ emmcFlag' = "none"
  /\ emmcDone' = emmcDone + 1
  /\ emmcSlot' = NextSlot(emmcSlot)
  /\ dma' = emmcSlot'
  /\ emmc' = IF HasSpace(emmcDone') THEN "fill" ELSE emmc
  /\ paused' = IF HasSpace(emmcDone') THEN paused ELSE TRUE
  /\ pc' = "usb"
  /\ UNCHANGED <<command, usbDone, usbSlot, first, arrived, usbVars, got>>

(* The last block is complete.                                             *)
TransferDone ==
  /\ pc = "emmc"
  /\ emmcFlag = "TRANDONE"
  /\ ring' = [ring EXCEPT ![emmcSlot] = Decrypted(@, emmcDone)]
  /\ emmcFlag' = "none"
  /\ emmcDone' = emmcDone + 1
  /\ pc' = "drain"
  /\ UNCHANGED <<command, usbDone, emmcSlot, usbSlot, paused, first,
                 emmc, dma, arrived, usbVars, got>>

(* No card event; an error bit of R16_EMMC_INT_FG is not looked at.        *)
NoCardEvent ==
  /\ pc = "emmc"
  /\ emmcFlag = "none"
  /\ pc' = "usb"
  /\ UNCHANGED <<command, cpuVars, emmcVars, usbVars, ring, got>>

(* The second loop sends what is left, the last sector included.           *)
Drain ==
  /\ usbDone < emmcDone
  /\ SampleUsb("drain", TRUE, "drainClear", "drain")
DrainClear == ClearTxFlag("drainClear", "drainQueue")
DrainQueue == QueueSector("drainQueue", "drain")

(* while (!(R8_USB_INT_FG & RB_USB_IF_TRANSFER)); then CMD12.              *)
LastSent ==
  /\ pc = "drain"
  /\ usbDone = emmcDone
  /\ txFlag
  /\ txFlag' = FALSE
  /\ tx' = "NAK"
  /\ pc' = "stop"
  /\ UNCHANGED <<command, cpuVars, emmcVars, txSlot, ring, got>>

StopTransmission ==
  /\ pc = "stop"
  /\ emmc' = "stopped"
  /\ emmcFlag' = "none"
  /\ pc' = "done"
  /\ UNCHANGED <<command, cpuVars, dma, arrived, usbVars, ring, got>>

Cpu == \/ PollUsb \/ Clear \/ Queue \/ BlockGap \/ TransferDone \/ NoCardEvent
       \/ Drain \/ DrainClear \/ DrainQueue \/ LastSent \/ StopTransmission

----------------------------------------------------------------------------
(* The card delivers a block to the slot the DMA points at; the block that *)
(* completes the count raises TRANDONE, every other one BKGAP.             *)
CardBlock ==
  /\ emmc = "fill"
  /\ ring' = [ring EXCEPT ![dma] = Sector(arrived, "raw")]
  /\ arrived' = arrived + 1
  /\ emmcFlag' = IF arrived' = num THEN "TRANDONE" ELSE "BKGAP"
  /\ emmc' = IF arrived' = num THEN "end" ELSE "gap"
  /\ UNCHANGED <<pc, command, cpuVars, dma, usbVars, got>>

(* A CRC error or a data timeout: neither flag the loop waits for is set.  *)
CardFault ==
  /\ emmc = "fill"
  /\ emmc' = "fault"
  /\ UNCHANGED <<pc, command, cpuVars, emmcFlag, dma, arrived, usbVars, ring, got>>

(* The host reads the armed endpoint.  While RB_USB_IF_TRANSFER is set the *)
(* controller answers NAK.  A slot the card is filling is read torn.       *)
Armed == tx = "ACK" /\ ~txFlag
HostIn ==
  /\ Armed
  /\ got' = Append(got, IF emmc = "fill" /\ dma = txSlot THEN Garbage ELSE ring[txSlot])
  /\ txFlag' = TRUE
  /\ UNCHANGED <<pc, command, cpuVars, emmcVars, tx, txSlot, ring>>

Finished == pc = "done" /\ UNCHANGED vars

Next == Cpu \/ CardBlock \/ CardFault \/ HostIn \/ Finished

(* The CPU loop runs for ever, a card that has not failed delivers its     *)
(* block, and the host goes on reading a data phase it started.            *)
Fairness == WF_vars(Cpu) /\ WF_vars(CardBlock) /\ WF_vars(HostIn)

Spec == Init /\ [][Next]_vars /\ Fairness

----------------------------------------------------------------------------
(* Type invariant.                                                         *)
TypeOK ==
  /\ pc \in {"usb", "clear", "queue", "emmc", "drain", "drainClear", "drainQueue",
             "stop", "done"}
  /\ decrypt \in BOOLEAN /\ num \in 1 .. MAXNUM
  /\ paused \in BOOLEAN /\ first \in BOOLEAN /\ txFlag \in BOOLEAN
  /\ emmcDone \in 0 .. num /\ usbDone \in 0 .. num /\ arrived \in 0 .. num
  /\ emmcSlot \in Slots /\ usbSlot \in Slots /\ dma \in Slots /\ txSlot \in Slots
  /\ emmc \in {"fill", "gap", "end", "fault", "stopped"}
  /\ emmcFlag \in {"none", "BKGAP", "TRANDONE"}
  /\ tx \in {"ACK", "NAK"}
  /\ ring \in [Slots -> Sectors]
  /\ got \in Seq(Sectors)

(* The comment of msc_read.c:101: USB "never sees the sector being         *)
(* filled".  While the host may read a slot, the card is not let loose on  *)
(* it, and it holds the sector the host is owed, already decrypted.        *)
UsbSlotStable ==
  Armed => /\ ~(emmc = "fill" /\ dma = txSlot)
           /\ ring[txSlot] = Sector(Len(got), Form)

(* Every sector the card has delivered and the host has not yet taken is   *)
(* still in the ring: the card never laps the host.                        *)
NoSectorLost ==
  \A k \in Len(got) .. emmcDone - 1 : \E s \in Slots :
    /\ ring[s] = Sector(k, Form)
    /\ ~(emmc = "fill" /\ dma = s)

(* Nobody waits for nobody, msc_read.c:165 and msc_read.c:179 included:    *)
(* until a read has ended or the card has failed, the CPU has found        *)
(* something to do, the card is filling a slot or the host may take one.   *)
CpuMoves ==
  \/ pc \in {"clear", "queue", "drainClear", "drainQueue", "stop"}
  \/ pc \in {"usb", "emmc"} /\ (emmcFlag # "none" \/ (HasSafeUsbSector /\ (txFlag \/ first)))
  \/ pc = "drain" /\ (txFlag \/ (first /\ usbDone < emmcDone))
NobodyStuck == pc = "done" \/ emmc = "fault" \/ CpuMoves \/ emmc = "fill" \/ Armed

(* A read of n sectors takes at most 6n + 3 steps of all three, not        *)
(* counting looks at a flag that is not set: nothing is done twice.        *)
Effort ==
  (num - arrived) + (num - emmcDone) + 3 * (num - usbDone) + (num - Len(got))
  + (IF pc \in {"usb", "emmc", "drain"} THEN 2
     ELSE IF pc \in {"clear", "drainClear", "stop"} THEN 1 ELSE 0)
  + (IF emmc = "fault" THEN 0 ELSE 1)
Polls ==
  /\ pc \in {"usb", "emmc", "drain"} /\ pc' \in {"usb", "emmc", "drain"}
  /\ UNCHANGED <<command, cpuVars, emmcVars, txFlag, txSlot, ring, got>>
ReadIsBounded == [][Polls \/ Effort' \in 0 .. Effort - 1]_vars

(* The ring implements the abstract stream: in order, exactly once, in the *)
(* right form; a command is over only when all of it was delivered.        *)
Stream == INSTANCE SectorStream WITH
            out <- got,
            n <- num,
            form <- Form,
            status <- CASE pc = "done" -> "complete"
                        [] emmc = "fault" -> "failed"
                        [] OTHER -> "streaming"
ImplementsStream == Stream!Spec

(* The loops end: the card is never left waiting for room that nobody will *)
(* make, nor the host for a sector nobody will queue.  Only a card fault   *)
(* keeps the read from finishing.                                          *)
ReadTerminates == <>(pc = "done" \/ emmc = "fault")
=============================================================================
