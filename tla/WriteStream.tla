----------------------------- MODULE WriteStream -----------------------------
(***************************************************************************)
(* WRITE(10) data phase: write_stream_usb2 of src/src/msc_write.c.  Three  *)
(* actors share UDisk_Out_Buf and UDisk_In_Buf, which take turns:          *)
(*   - the USB controller, which receives a packet where R32_UEP1_RX_DMA   *)
(*     points when the endpoint answers ACK;                               *)
(*   - the card, which holds DAT0 low while it programs a chunk.           *)
(*     EMMCCardWriteMulSec is external: it may return with sectors still   *)
(*     to be taken from the buffer, which is free only once DAT0 is high;  *)
(*   - the CPU, which polls both with the USB and eMMC interrupts off.     *)
(* Two stores that no packet fits between (the flag cleared and the        *)
(* endpoint set to NAK, lines 74 and 75) are one step.                     *)
(***************************************************************************)
EXTENDS Integers, Sequences

CONSTANTS BUF,      \* UDISK_BUF_SIZE / SECTOR_SIZE, 60 in the firmware
          MAXNUM    \* the most sectors a WRITE(10) carries

ASSUME BufAssumption == BUF \in Nat \ {0}
ASSUME WriteNumAssumption == MAXNUM \in Nat

VARIABLES
  pc,           \* where the CPU is in write_stream_usb2
  secret,       \* !phantomdrive_is_locked(): chunks are encrypted
  num,          \* total_sectors
  room,         \* sectors from the command's first physical one to the card's end
  lba,          \* sectors of the command before this chunk
  left,         \* sectors_left
  chunk,        \* chunk_sectors
  buf,          \* the buffer of this chunk
  received,     \* sectors_received
  first,        \* first_packet
  status,       \* "writing", then the status sent: "passed" or "failed"
  rx,           \* response bits of R8_UEP1_RX_CTRL: "ACK" or "NAK"
  rxFlag,       \* RB_USB_IF_TRANSFER of R8_USB_INT_FG
  rxBuf, rxSlot,  \* R32_UEP1_RX_DMA: a buffer and a sector in it
  sent,         \* data packets the host has sent
  endp1,        \* contents of endp1Rbuff
  mem,          \* contents of the two buffers, sector by sector
  prog,         \* the buffer the card programs from ...
  next, end,    \* ... and the sectors of it still to program, next .. end - 1
  medium        \* history: what this command put on the card

command == <<secret, num, room>>
cpuVars == <<lba, left, chunk, buf, received, first, status>>
usbVars == <<rx, rxFlag, rxBuf, rxSlot, sent, endp1>>
cardVars == <<prog, next, end, medium>>
vars == <<pc, command, cpuVars, usbVars, mem, cardVars>>

Bufs == {"Out", "In"}
Slots == 0 .. BUF - 1
Sector(k, form) == [sec |-> k, form |-> form]
Sectors == [sec : 0 .. MAXNUM, form : {"raw", "sealed", "snooped", "garbled"}]
Garbage == Sector(MAXNUM, "garbled")     \* anything but a sector of this command
Form == IF secret THEN "sealed" ELSE "snooped"

\* phantomdrive_snoop_write or phantomdrive_encrypt_buf with the address of
\* sector k: out of turn, or twice, they spoil the sector.
Filtered(s, k) == [s EXCEPT !.form = IF s = Sector(k, "raw") THEN Form ELSE "garbled"]

MutChunk_OneMore(n) == IF n > BUF + 1 THEN BUF + 1 ELSE n
MutChunk_Remainder(n) == n % BUF
ChunkOf(n) == IF n > BUF THEN BUF ELSE n

MutAlternate_Same(b) == b
alternate_write_buf(b) == IF b = "Out" THEN "In" ELSE "Out"

DatLow == next < end             \* !EMMCDat0Sta

----------------------------------------------------------------------------
(* Before the first command nothing has been received since the reset.     *)
Init ==
  /\ pc = "done"
  /\ secret = FALSE /\ num = 0 /\ room = 0
  /\ lba = 0 /\ left = 0 /\ chunk = 0 /\ buf = "Out"
  /\ received = 0 /\ first = FALSE /\ status = "passed"
  /\ rx = "NAK" /\ rxFlag = FALSE /\ rxBuf = "endp1" /\ rxSlot = 0
  /\ sent = 0 /\ endp1 = Garbage
  /\ mem = [b \in Bufs |-> [i \in Slots |-> Garbage]]
  /\ prog = "Out" /\ next = 0 /\ end = 0 /\ medium = <<>>

(* CBW and first data packet arrive by interrupt, which leaves the         *)
(* endpoint NAK; then the main loop calls msc_write_sectors.  The packet   *)
(* lands where RX_DMA points; what the buffers hold of an earlier command  *)
(* counts for nothing.                                                     *)
Command ==
  /\ pc = "done" /\ pc' = "enter"
  /\ secret' \in BOOLEAN /\ num' \in 0 .. MAXNUM /\ room' \in 0 .. MAXNUM
  /\ lba' = 0 /\ left' = num' /\ chunk' = ChunkOf(num') /\ buf' = "Out"
  /\ received' = 0 /\ first' = TRUE /\ status' = "writing"
  /\ rx' = "NAK" /\ rxFlag' = FALSE /\ sent' = 1
  /\ endp1' = IF rxBuf = "endp1" THEN Sector(0, "raw") ELSE Garbage
  /\ mem' = [b \in Bufs |-> [i \in Slots |->
               IF b = rxBuf /\ i = rxSlot THEN Sector(0, "raw") ELSE Garbage]]
  /\ medium' = <<>>
  /\ UNCHANGED <<rxBuf, rxSlot, prog, next, end>>

\* write_stream_usb2 up to its first chunk: nothing to do for no sector.
Enter ==
  /\ pc = "enter"
  /\ pc' = IF left > 0 THEN "receive" ELSE "leave"
  /\ UNCHANGED <<command, cpuVars, usbVars, mem, cardVars>>

\* Where receive_chunk_usb2 goes on, or returns to, after r sectors: before any
\* but the first chunk is looked at, the card must have released DAT0.
After(r) == CASE r < chunk -> "arm"
              [] r = chunk /\ lba = 0 -> "filter"
              [] OTHER -> "ready"

MutReceive_FirstAgain ==
  /\ pc = "receive"
  /\ rxFlag' = FALSE
  /\ first' = FALSE
  /\ received' = 0
  /\ mem' = IF first THEN [mem EXCEPT ![buf][0] = endp1] ELSE mem
  /\ pc' = After(received')
  /\ UNCHANGED <<command, lba, left, chunk, buf, status,
                 rx, rxBuf, rxSlot, sent, endp1, cardVars>>
Receive ==
  /\ pc = "receive"
  /\ rxFlag' = FALSE
  /\ first' = FALSE
  /\ received' = IF first THEN 1 ELSE 0
  /\ mem' = IF first THEN [mem EXCEPT ![buf][0] = endp1] ELSE mem
  /\ pc' = After(received')
  /\ UNCHANGED <<command, lba, left, chunk, buf, status,
                 rx, rxBuf, rxSlot, sent, endp1, cardVars>>

Arm ==
  /\ pc = "arm"
  /\ rxBuf' = buf /\ rxSlot' = received
  /\ rx' = "ACK"
  /\ pc' = "wait"
  /\ UNCHANGED <<command, cpuVars, rxFlag, sent, endp1, mem, cardVars>>

PacketReceived ==
  /\ pc = "wait" /\ rxFlag
  /\ rxFlag' = FALSE
  /\ rx' = "NAK"
  /\ received' = received + 1
  /\ pc' = After(received')
  /\ UNCHANGED <<command, lba, left, chunk, buf, first, status,
                 rxBuf, rxSlot, sent, endp1, mem, cardVars>>

\* wait_dat0_ready between two chunks.
MutReady_NoWait ==
  /\ pc = "ready"
  /\ pc' = "filter"
  /\ UNCHANGED <<command, cpuVars, usbVars, mem, cardVars>>
CardReady ==
  /\ pc = "ready" /\ ~DatLow
  /\ pc' = "filter"
  /\ UNCHANGED <<command, cpuVars, usbVars, mem, cardVars>>

\* write_received_chunk: every sector of the chunk with the address it goes to.
Filter ==
  /\ pc = "filter"
  /\ mem' = [mem EXCEPT ![buf] = [i \in Slots |->
               IF i < chunk THEN Filtered(@[i], lba + i) ELSE @[i]]]
  /\ pc' = "write"
  /\ UNCHANGED <<command, cpuVars, usbVars, cardVars>>

\* write_chunk_to_sd hands the chunk to the card ...
WriteChunk ==
  /\ pc = "write" /\ lba < room /\ chunk <= room - lba
  /\ prog' = buf /\ next' = 0 /\ end' = chunk
  /\ pc' = "card"
  /\ UNCHANGED <<command, cpuVars, usbVars, mem, medium>>

\* ... or refuses it, being OP_INVALID_ADD ...
OutOfRange ==
  /\ pc = "write" /\ ~(lba < room /\ chunk <= room - lba)
  /\ status' = "failed"
  /\ pc' = "leave"
  /\ UNCHANGED <<command, lba, left, chunk, buf, received, first, usbVars, mem, cardVars>>

\* ... and the card may fail it.
WriteFails ==
  /\ pc = "card" /\ DatLow
  /\ end' = next
  /\ status' = "failed"
  /\ pc' = "leave"
  /\ UNCHANGED <<command, lba, left, chunk, buf, received, first, usbVars, mem,
                 prog, next, medium>>

\* EMMCCardWriteMulSec returns: on to the next chunk, in the other buffer, or
\* to the wait for the card to finish the last.
ChunkWritten ==
  /\ pc = "card"
  /\ lba' = lba + chunk
  /\ left' = left - chunk
  /\ IF left' = 0
       THEN pc' = "settle" /\ UNCHANGED <<buf, chunk>>
       ELSE /\ pc' = "receive"
            /\ buf' = alternate_write_buf(buf)
            /\ chunk' = ChunkOf(left')
  /\ UNCHANGED <<command, received, first, status, usbVars, mem, cardVars>>

Settle ==
  /\ pc = "settle" /\ ~DatLow
  /\ pc' = "leave"
  /\ UNCHANGED <<command, cpuVars, usbVars, mem, cardVars>>

\* The end of write_stream_usb2 and of msc_write_sectors, with bot_send_csw.
Leave ==
  /\ pc = "leave"
  /\ rxBuf' = "endp1" /\ rxSlot' = 0
  /\ status' = IF status = "failed" THEN "failed" ELSE "passed"
  /\ pc' = "done"
  /\ UNCHANGED <<command, lba, left, chunk, buf, received, first,
                 rx, rxFlag, sent, endp1, mem, cardVars>>

Cpu == \/ Enter \/ Receive \/ Arm \/ PacketReceived \/ CardReady \/ Filter
       \/ WriteChunk \/ OutOfRange \/ WriteFails \/ ChunkWritten \/ Settle \/ Leave

----------------------------------------------------------------------------
(* The host sends its next packet to the armed endpoint; while             *)
(* RB_USB_IF_TRANSFER is set the controller answers NAK.                   *)
Armed == rx = "ACK" /\ ~rxFlag
HostOut ==
  /\ Armed /\ sent < num
  /\ mem' = IF rxBuf \in Bufs THEN [mem EXCEPT ![rxBuf][rxSlot] = Sector(sent, "raw")] ELSE mem
  /\ endp1' = IF rxBuf = "endp1" THEN Sector(sent, "raw") ELSE endp1
  /\ sent' = sent + 1
  /\ rxFlag' = TRUE
  /\ UNCHANGED <<pc, command, cpuVars, rx, rxBuf, rxSlot, cardVars>>

(* The card programs one sector of the chunk.                              *)
CardStores ==
  /\ DatLow
  /\ medium' = Append(medium, mem[prog][next])
  /\ next' = next + 1
  /\ UNCHANGED <<pc, command, cpuVars, usbVars, mem, prog, end>>

Next == Cpu \/ HostOut \/ CardStores \/ Command

(* The polling loops run for ever, the host goes on sending a data phase   *)
(* it started, and a card that has not failed finishes what it programs.   *)
Fairness == WF_vars(Cpu) /\ WF_vars(HostOut) /\ WF_vars(CardStores)

Spec == Init /\ [][Next]_vars /\ Fairness

----------------------------------------------------------------------------
(* Type invariant.                                                         *)
TypeOK ==
  /\ pc \in {"enter", "receive", "arm", "wait", "ready", "filter", "write", "card",
             "settle", "leave", "done"}
  /\ secret \in BOOLEAN /\ num \in 0 .. MAXNUM /\ room \in 0 .. MAXNUM
  /\ lba \in 0 .. num /\ left \in 0 .. num /\ chunk \in 0 .. BUF /\ received \in 0 .. BUF
  /\ buf \in Bufs /\ first \in BOOLEAN /\ status \in {"writing", "passed", "failed"}
  /\ rx \in {"ACK", "NAK"} /\ rxFlag \in BOOLEAN
  /\ rxBuf \in Bufs \cup {"endp1"} /\ rxSlot \in Slots
  /\ sent \in 0 .. MAXNUM + 1
  /\ endp1 \in Sectors /\ mem \in [Bufs -> [Slots -> Sectors]]
  /\ prog \in Bufs /\ next \in 0 .. BUF /\ end \in 0 .. BUF
  /\ medium \in Seq(Sectors)

(* While the card holds DAT0 low its buffer is nobody else's: the host's   *)
(* packets go elsewhere and the sectors still to be programmed are those   *)
(* of the chunk, in the form of the volume.  alternate_write_buf and       *)
(* wait_dat0_ready of msc_write.c:144-147 are there for this.              *)
BufferNotShared ==
  DatLow => /\ ~(Armed /\ rxBuf = prog)
            /\ \A i \in next .. end - 1 : mem[prog][i] = Sector(Len(medium) + i - next, Form)

(* The host is told "passed" only when its data is on the medium: a drive  *)
(* unplugged after the status has lost nothing (wait_dat0_ready,           *)
(* msc_write.c:140).  Part of the abstract sink, which WriteStream         *)
(* implements: in order, each sector once and in the form of its volume.   *)
Sink == INSTANCE SectorSink WITH
          n <- num, form <- Form, taken <- sent, stored <- medium
ImplementsSink == Sink!Spec

(* The loops never wait for what nobody will do: msc_write.c:69 for a      *)
(* packet the host does not have, msc_write.c:140 and 147 for a card that  *)
(* is idle.  Until the status is sent the CPU has something to do, the     *)
(* host has a packet to send to the armed endpoint, or the card programs.  *)
CpuMoves ==
  \/ pc \in {"enter", "receive", "arm", "filter", "write", "card", "leave"}
  \/ pc = "wait" /\ rxFlag
  \/ pc \in {"ready", "settle"} /\ ~DatLow
NobodyStuck == pc = "done" \/ CpuMoves \/ (Armed /\ sent < num) \/ DatLow

(* A write of n sectors takes at most 10n + 3 steps of all three from the  *)
(* command to the status: nothing is received, filtered or programmed      *)
(* twice, however the sectors fall into chunks and wherever it fails.      *)
Stage ==
  [enter |-> 8 * left + 3, receive |-> 8 * left + 2,
   arm |-> 8 * left + 1 - 2 * received, wait |-> 8 * left - 2 * received,
   ready |-> 8 * left - 2 * chunk, filter |-> 8 * left - 2 * chunk - 1,
   write |-> 8 * left - 2 * chunk - 2, card |-> 8 * left - 2 * chunk - 3,
   settle |-> 2, leave |-> 1, done |-> 0][pc]
Effort == (num - Len(medium)) + (num + 1 - sent) + Stage
WriteIsBounded == [][pc = "done" \/ Effort' \in 0 .. Effort - 1]_vars

(* The stream ends, whatever the lengths: neither waits for the host when  *)
(* it has sent everything nor leaves it waiting, however slow the card.    *)
WriteTerminates == pc = "enter" ~> pc = "done"
=============================================================================
