-------------------------------- MODULE Bot --------------------------------
(***************************************************************************)
(* The Bulk-Only Transport of src/src/bot.c with the data phases of        *)
(* msc_read.c and msc_write.c.  Three actors interleave:                   *)
(*   - the host, one command at a time: CBW, data phase, CSW;              *)
(*   - the USB interrupt (Isr), which parses CBWs and sends short answers; *)
(*   - the main loop (Main), bot_poll, which moves sectors with the        *)
(*     interrupt off and queues the CSW of a read or a write itself.       *)
(* A handler that runs in the interrupt is a function from the device's    *)
(* state to its next state; a step of Main ends where the interrupt may    *)
(* come in between.  Sectors and packets are counted, not bytes: a short   *)
(* answer counts as one packet.  ReadRing refines ReadStream.              *)
(***************************************************************************)
EXTENDS Naturals, Sequences, FiniteSets

CONSTANTS
  LOCKED,           \* LOCKED_SECTORS
  CARD,             \* TF_EMMCParam.EMMCSecNum
  CHUNK,            \* sectors of one write chunk, 60 in the firmware
  Commands,         \* the CBWs the host may send
  PoliteSense,      \* the host asks for the sense only after a failure, for a mode not then
  TailInterrupted,  \* a CBW may be handled inside the last statement of a read
  NoCmd

ASSUME SizeAssumption == LOCKED \in Nat \ {0} /\ CARD \in Nat /\ CARD > LOCKED
ASSUME ChunkAssumption == CHUNK \in Nat \ {0}

\* CBWs of a host that follows Bulk-Only Transport: lengths are in packets, and
\* those of a read or a write are the CDB's.
ASSUME CommandAssumption ==
  /\ \A c \in Commands :
       /\ c.dir \in {"in", "out"} /\ c.lba \in Nat /\ c.len \in 0 .. CARD
       /\ c.op \in {"READ10", "WRITE10"} => c.n = c.len
  /\ \A c \in Commands, t \in {0, 1} : NoCmd # [tag |-> t, cbw |-> c]

\* CBWs of a host that knows the drive: the commands the model tells apart, and
\* answers that fit one packet.
ShortAnswers == {"INQUIRY", "READ_CAPACITY", "MODE_SENSE", "REQUEST_SENSE"}
WellFormed ==
  \A c \in Commands :
    /\ c.op \in ShortAnswers \cup {"READ10", "WRITE10", "TEST_READY", "VERIFY10", "UNSUPPORTED",
                               "MODE_SENSE10_PAGE", "BAD_SIGNATURE"}
    /\ c.op \in ShortAnswers => c.dir = "in" /\ c.len = 1
    /\ c.op = "READ10" => c.dir = "in"
    /\ c.op = "WRITE10" => c.dir = "out"
    /\ c.op \in {"TEST_READY", "VERIFY10"} => c.len = 0

\* ... that always asks for data with MODE SENSE(10): see NobodyStuck.
PagesHaveData ==
  \A c \in Commands : c.op = "MODE_SENSE10_PAGE" => c.dir = "in" /\ c.len > 0

VARIABLES
  dev,      \* g_bot, g_cbw_csw and the control registers of endpoint 1
  rxbuf,    \* endp1Rbuff: the last OUT packet
  xfer,     \* RB_USB_IF_TRANSFER and its token: "none", "in" or "out"
  irq,      \* the USB interrupt is enabled
  pc,       \* where the main loop is
  reg,      \* the register of "transfer_flags &= ~BOT_FLAG_DATA_IN"
  pstate,   \* phantomdrive_state: "LOCKED", "PENDING" or "UNLOCKED"
  capacity, \* g_bot.capacity
  card,     \* the medium, sector by sector: a value and whether it is encrypted
  host,     \* the host: "idle", "out", "in" or "csw"; "gone" when detached
  cmd,      \* its command in progress: a tag and a CBW
  sent,     \* OUT packets it has sent
  recv,     \* what it has received in the data phase
  seen,     \* the answer to its last command
  tag       \* the tag of its next CBW

hostVars == <<host, cmd, sent, recv, seen, tag>>
volVars == <<pstate, capacity>>
vars == <<dev, rxbuf, xfer, irq, pc, reg, volVars, card, hostVars>>

NoPacket == [kind |-> "none", cbw |-> NoCmd, val |-> "none"]
Reply(kind, val, num) == [kind |-> kind, val |-> val, num |-> num]
NoReply == Reply("none", "none", 0)
NoBuffer == [kind |-> "none", tag |-> 0, status |-> "passed", val |-> NoReply]
Locked == pstate # "UNLOCKED"       \* phantomdrive_is_locked
HiddenSize == CARD - LOCKED

Init ==
  /\ dev = [flags |-> {}, tag |-> 0, sense |-> "none", status |-> "passed", left |-> 0,
            lba |-> 0, rd |-> FALSE, wr |-> FALSE, op |-> "none", resp |-> NoReply,
            tx |-> "NAK", rx |-> "ACK", txbuf |-> NoBuffer]
  /\ rxbuf = NoPacket /\ xfer = "none" /\ irq = TRUE
  /\ pc = "poll" /\ reg = {}
  /\ \/ pstate = "LOCKED" /\ capacity = LOCKED
     \/ pstate = "UNLOCKED" /\ capacity = HiddenSize
  /\ card = [p \in 0 .. CARD - 1 |-> [val |-> "zero", enc |-> p >= LOCKED]]
  /\ host = "idle" /\ cmd = NoCmd /\ sent = 0 /\ recv = <<>> /\ seen = NoCmd /\ tag = 1

----------------------------------------------------------------------------
(* Handlers of the interrupt.                                              *)
SetSense(d, sense, status) == [d EXCEPT !.sense = sense, !.status = status]
Passed(d) == SetSense(d, "none", "passed")

StallActiveDataEndpoints(d) ==
  [d EXCEPT !.tx = IF "IN" \in d.flags THEN "STALL" ELSE @,
            !.rx = IF "OUT" \in d.flags THEN "STALL" ELSE @,
            !.flags = @ \ {"IN", "OUT"}]

\* The data phase a CBW announces.
DataFlag(c) == IF c.len = 0 THEN {} ELSE IF c.dir = "in" THEN {"IN"} ELSE {"OUT"}
BeginCbw(d, t, c) ==
  [d EXCEPT !.tag = t, !.left = c.len, !.flags = @ \cup {"CSW"} \cup DataFlag(c)]

SendCsw(d) ==
  [d EXCEPT !.flags = {}, !.tx = "ACK",
            !.txbuf = [kind |-> "csw", tag |-> d.tag, status |-> d.status, val |-> NoReply]]

SendResponseData(d) ==
  [d EXCEPT !.left = IF @ > 1 THEN @ - 1 ELSE 0,
            !.flags = IF d.left > 1 THEN @ ELSE @ \ {"IN"},
            !.tx = "ACK",
            !.txbuf = [kind |-> "data", tag |-> 0, status |-> "passed", val |-> d.resp]]

\* Every answer fits one packet; only REQUEST SENSE keeps the host's length.
CopyResponse(d, num) ==
  [d EXCEPT !.left = IF @ > 1 THEN 1 ELSE @, !.resp = Reply(d.op, "none", num)]

MutParse_LenInBytes(d, c) == Passed([d EXCEPT !.lba = c.lba, !.left = c.n * 512])
ParseRw10(d, c) == Passed([d EXCEPT !.lba = c.lba, !.left = c.n])

\* read10_accesses_hidden_sd_sectors
MutHidden_StartOnly(d) == d.left # 0 /\ d.lba >= LOCKED
AccessesHidden(d) == d.left # 0 /\ (d.lba >= LOCKED \/ d.left > LOCKED - d.lba)

Read10(d) ==
  IF Locked /\ AccessesHidden(d)
    THEN StallActiveDataEndpoints(SetSense(d, "range", "failed"))
    ELSE d

RequestSense(d) ==
  [d EXCEPT !.resp = Reply("REQUEST_SENSE", d.sense, 0), !.status = "passed"]

MutUnsupported_NoStall(d) ==
  StallActiveDataEndpoints(SetSense(d, "illegal", "failed"))
Unsupported(d) ==
  StallActiveDataEndpoints([SetSense(d, "illegal", "failed") EXCEPT !.flags = @ \cup {"IN"}])

RejectSignature(d) ==
  StallActiveDataEndpoints([SetSense(d, "illegal", "phase") EXCEPT !.flags = @ \cup {"IN", "OUT"}])

\* TEST_READY stands for the commands that are only acknowledged, MODE_SENSE
\* for both sizes of it, MODE_SENSE10_PAGE for a page other than 0x3F.
Dispatch(d0, t, c) ==
  LET d == BeginCbw([d0 EXCEPT !.op = c.op], t, c)
  IN CASE c.op = "BAD_SIGNATURE" -> RejectSignature([d0 EXCEPT !.op = c.op])
       [] c.op = "INQUIRY" -> Passed(CopyResponse(d, 0))
       [] c.op = "READ_CAPACITY" -> Passed(CopyResponse(d, capacity - 1))
       [] c.op = "MODE_SENSE" -> CopyResponse(d, capacity)
       [] c.op = "MODE_SENSE10_PAGE" -> StallActiveDataEndpoints(SetSense(d, "illegal", "failed"))
       [] c.op = "READ10" -> Read10(ParseRw10(d, c))
       [] c.op = "WRITE10" -> ParseRw10(d, c)
       [] c.op = "REQUEST_SENSE" -> RequestSense(d)
       [] c.op \in {"TEST_READY", "VERIFY10"} -> Passed(d)
       [] OTHER -> Unsupported(d)

\* The data phase of a read is left to bot_poll.
InPhase(d) == IF d.op = "READ10" THEN [d EXCEPT !.rd = TRUE] ELSE SendResponseData(d)

\* What bot_handle_bulk_out does once the command is dispatched.
Answer(d) ==
  CASE "OUT" \in d.flags -> d
    [] "OUT" \notin d.flags /\ "IN" \in d.flags -> InPhase(d)
    [] OTHER -> IF d.status = "passed" THEN SendCsw(d) ELSE d

BulkOut(d, p) ==
  CASE "OUT" \in d.flags -> [d EXCEPT !.wr = TRUE]
    [] "OUT" \notin d.flags /\ p.kind = "cbw" -> Answer(Dispatch(d, p.cbw.tag, p.cbw.cbw))
    [] OTHER -> d

BulkIn(d) ==
  CASE "IN" \in d.flags -> InPhase(d)
    [] "IN" \notin d.flags /\ "CSW" \in d.flags -> SendCsw(d)
    [] OTHER -> d

\* The interrupt (in the board support package) answers NAK after an IN packet,
\* and after an OUT packet that bot_poll has to fetch.  A packet that was sent
\* or parsed is not looked at again, so its buffer counts as empty.
IsrIn ==
  /\ irq /\ xfer = "in"
  /\ xfer' = "none"
  /\ dev' = BulkIn([dev EXCEPT !.tx = "NAK", !.txbuf = NoBuffer])
  /\ UNCHANGED <<rxbuf, irq, pc, reg, volVars, card, hostVars>>

IsrOut ==
  /\ irq /\ xfer = "out"
  /\ pc \in {"tail", "tailStore"} => TailInterrupted
  /\ xfer' = "none"
  /\ LET d == BulkOut(dev, rxbuf)
     IN /\ dev' = [d EXCEPT !.rx = IF d.wr THEN "NAK" ELSE @]
        /\ rxbuf' = IF d.wr THEN rxbuf ELSE NoPacket
  /\ UNCHANGED <<irq, pc, reg, volVars, card, hostVars>>

Isr == IsrIn \/ IsrOut

----------------------------------------------------------------------------
(* The host.  A packet is taken only by an endpoint that answers ACK, and  *)
(* by neither while the interrupt flag of the one before is set.           *)
Busless == UNCHANGED <<irq, pc, reg, volVars, card>>

SendCbw ==
  /\ host = "idle" /\ dev.rx = "ACK" /\ xfer = "none"
  /\ \E c \in Commands :
       /\ PoliteSense => IF seen # NoCmd /\ seen.status # "passed"
                           THEN c.op # "MODE_SENSE" ELSE c.op # "REQUEST_SENSE"
       /\ cmd' = [tag |-> tag, cbw |-> c]
       /\ rxbuf' = [kind |-> "cbw", cbw |-> cmd', val |-> "none"]
       /\ host' = IF c.len = 0 THEN "csw" ELSE c.dir
  /\ xfer' = "out"
  /\ tag' = 1 - tag
  /\ UNCHANGED <<dev, sent, recv, seen>> /\ Busless

SendData ==
  /\ host = "out" /\ dev.rx = "ACK" /\ xfer = "none"
  /\ rxbuf' = [kind |-> "data", cbw |-> NoCmd, val |-> cmd.cbw.data[sent + 1]]
  /\ sent' = sent + 1
  /\ host' = IF sent' = cmd.cbw.len THEN "csw" ELSE "out"
  /\ xfer' = "out"
  /\ UNCHANGED <<dev, cmd, recv, seen, tag>> /\ Busless

\* Every answer is one short packet, which ends the data phase.
TakeData ==
  /\ host = "in" /\ dev.tx = "ACK" /\ xfer = "none" /\ dev.txbuf.kind = "data"
  /\ recv' = Append(recv, dev.txbuf.val)
  /\ host' = "csw"
  /\ xfer' = "in"
  /\ UNCHANGED <<dev, rxbuf, cmd, sent, seen, tag>> /\ Busless

TakeCsw ==
  /\ host \in {"in", "csw"} /\ dev.tx = "ACK" /\ xfer = "none" /\ dev.txbuf.kind = "csw"
  /\ seen' = [tag |-> dev.txbuf.tag, status |-> dev.txbuf.status, data |-> recv]
  /\ host' = "idle" /\ cmd' = NoCmd /\ sent' = 0 /\ recv' = <<>>
  /\ xfer' = "in"
  /\ UNCHANGED <<dev, rxbuf, tag>> /\ Busless

\* A stalled endpoint is cleared by a control request, whose handler goes on
\* with bot_handle_bulk_in; after a malformed CBW the host resets instead.
ClearHaltOut ==
  /\ host = "out" /\ dev.rx = "STALL" /\ irq /\ xfer = "none" /\ cmd.cbw.op # "BAD_SIGNATURE"
  /\ dev' = [dev EXCEPT !.rx = "ACK"]
  /\ host' = "csw"
  /\ UNCHANGED <<rxbuf, xfer, cmd, sent, recv, seen, tag>> /\ Busless

ClearHaltIn ==
  /\ host \in {"in", "csw"} /\ dev.tx = "STALL" /\ irq /\ xfer = "none"
  /\ cmd.cbw.op # "BAD_SIGNATURE"
  /\ dev' = BulkIn([dev EXCEPT !.tx = "NAK"])
  /\ host' = "csw"
  /\ UNCHANGED <<rxbuf, xfer, cmd, sent, recv, seen, tag>> /\ Busless

ResetRecovery ==
  /\ host # "idle" /\ dev.tx = "STALL" /\ irq /\ xfer = "none"
  /\ cmd.cbw.op = "BAD_SIGNATURE"
  /\ dev' = [dev EXCEPT !.tx = "NAK", !.rx = "ACK"]
  /\ host' = "idle" /\ cmd' = NoCmd
  /\ seen' = [tag |-> cmd.tag, status |-> "phase", data |-> <<>>]
  /\ sent' = 0 /\ recv' = <<>>
  /\ UNCHANGED <<rxbuf, xfer, tag>> /\ Busless

\* The steps a host does not put off once it has started a command.
HostGoesOn == SendData \/ TakeData \/ TakeCsw \/ ClearHaltOut \/ ClearHaltIn \/ ResetRecovery

----------------------------------------------------------------------------
(* bot_poll and the data phases it runs.                                   *)
Goto(from, to) == pc = from /\ pc' = to

PollRead ==
  /\ Goto("poll", IF dev.rd THEN "read" ELSE "pollWrite")
  /\ dev' = [dev EXCEPT !.rd = FALSE]
  /\ irq' = ~dev.rd
  /\ UNCHANGED <<rxbuf, xfer, reg, volVars, card, hostVars>>

PhysicalLba(lba) == IF Locked THEN lba ELSE lba + LOCKED

\* What a reader of a sector of the medium gets.
Plain(s, decrypt) == IF s.enc = decrypt THEN s.val ELSE "garbled"
SectorAt(lba) == Reply("sector", Plain(card[PhysicalLba(lba)], ~Locked), 0)

\* The whole data phase: the card is not asked for more than it holds, as it
\* would never answer (see CardFault of ReadRing).
ReadStream ==
  /\ Goto("read", "readCsw")
  /\ host = "in"
  /\ PhysicalLba(dev.lba) + dev.left <= CARD
  /\ recv' = [i \in 1 .. dev.left |-> SectorAt(dev.lba + i - 1)]
  /\ host' = "csw"
  /\ dev' = [dev EXCEPT !.left = 0, !.lba = @ + dev.left, !.tx = "NAK"]
  /\ irq' = TRUE
  /\ UNCHANGED <<rxbuf, xfer, reg, volVars, card, cmd, sent, seen, tag>>

\* bot_send_csw, then the load and the store of transfer_flags &= ~DATA_IN.
ReadCsw ==
  /\ Goto("readCsw", "tail")
  /\ dev' = SendCsw(dev)
  /\ UNCHANGED <<rxbuf, xfer, irq, reg, volVars, card, hostVars>>

TailLoad ==
  /\ Goto("tail", "tailStore")
  /\ reg' = dev.flags \ {"IN"}
  /\ UNCHANGED <<dev, rxbuf, xfer, irq, volVars, card, hostVars>>

TailStore ==
  /\ Goto("tailStore", "pollWrite")
  /\ dev' = [dev EXCEPT !.flags = reg]
  /\ reg' = {}
  /\ UNCHANGED <<rxbuf, xfer, irq, volVars, card, hostVars>>

MutPollWrite_StillPending ==
  /\ Goto("pollWrite", IF dev.wr THEN "write" ELSE "pollUnlock")
  /\ irq' = ~dev.wr
  /\ UNCHANGED <<dev, rxbuf, xfer, reg, volVars, card, hostVars>>
PollWrite ==
  /\ Goto("pollWrite", IF dev.wr THEN "write" ELSE "pollUnlock")
  /\ dev' = [dev EXCEPT !.wr = FALSE]
  /\ irq' = ~dev.wr
  /\ UNCHANGED <<rxbuf, xfer, reg, volVars, card, hostVars>>

\* The first packet is in endp1Rbuff, the host sends the others as the stream
\* asks for them.
Packet(i) == IF i = 1 THEN rxbuf.val ELSE cmd.cbw.data[i]

\* A locked write has its password scrubbed, an unlocked one is encrypted.
MutStored_Raw(x) == [val |-> IF Locked /\ x = "pw" THEN "scrubbed" ELSE x, enc |-> FALSE]
Stored(x) == [val |-> IF Locked /\ x = "pw" THEN "scrubbed" ELSE x, enc |-> ~Locked]

\* The first k sectors of the command are on the card.
OnCard(k) ==
  [p \in DOMAIN card |->
     IF p \in PhysicalLba(dev.lba) .. PhysicalLba(dev.lba) + k - 1
       THEN Stored(Packet(p - PhysicalLba(dev.lba) + 1)) ELSE card[p]]

\* phantomdrive_snoop_write saw the first r sectors.
Snooped(r) ==
  IF Locked /\ \E i \in 1 .. r : Packet(i) = "pw" THEN "PENDING" ELSE pstate

Streamed(r) ==
  /\ pstate' = Snooped(r)
  /\ sent' = r
  /\ host' = IF r = cmd.cbw.len THEN "csw" ELSE "out"
  /\ irq' = TRUE
  /\ rxbuf' = NoPacket
  /\ UNCHANGED <<xfer, reg, capacity, cmd, recv, seen, tag>>

WriteStream ==
  /\ Goto("write", "writeCsw")
  /\ PhysicalLba(dev.lba) + dev.left <= CARD
  /\ card' = OnCard(dev.left)
  /\ dev' = [dev EXCEPT !.left = 0]
  /\ Streamed(dev.left)

Least(a, b) == IF a < b THEN a ELSE b

\* Chunk j, counted from 0, fails: it was received and snooped, and the card
\* may hold some of it.  The host still has the later packets to send.
WriteFails ==
  /\ Goto("write", "writeCsw")
  /\ \E j \in 0 .. dev.left - 1, k \in 0 .. CHUNK - 1 :
       /\ j * CHUNK + k < dev.left
       /\ card' = OnCard(j * CHUNK + k)
       /\ dev' = SetSense([dev EXCEPT !.left = 0], "write", "failed")
       /\ Streamed(Least(dev.left, (j + 1) * CHUNK))

WriteCsw ==
  /\ Goto("writeCsw", "rearm")
  /\ dev' = SendCsw(dev)
  /\ UNCHANGED <<rxbuf, xfer, irq, reg, volVars, card, hostVars>>

\* The end of bot_poll's write branch: EP1 OUT answers ACK again.
MutRearm_OnSuccess ==
  /\ Goto("rearm", "pollUnlock")
  /\ dev' = [dev EXCEPT !.rx = IF dev.status = "passed" THEN "ACK" ELSE @]
  /\ UNCHANGED <<rxbuf, xfer, irq, reg, volVars, card, hostVars>>
Rearm ==
  /\ Goto("rearm", "pollUnlock")
  /\ dev' = [dev EXCEPT !.rx = "ACK"]
  /\ UNCHANGED <<rxbuf, xfer, irq, reg, volVars, card, hostVars>>

\* No password is pending, or the idle time is not over.
SkipUnlock ==
  /\ Goto("pollUnlock", "poll")
  /\ UNCHANGED <<dev, rxbuf, xfer, irq, reg, volVars, card, hostVars>>

Transfer == \/ PollRead \/ ReadStream \/ ReadCsw \/ TailLoad \/ TailStore
            \/ PollWrite \/ WriteStream \/ WriteFails \/ WriteCsw \/ Rearm

Main == Transfer \/ SkipUnlock

Next == Isr \/ SendCbw \/ HostGoesOn \/ Main

(* The interrupt is taken, the main loop runs, the host goes on with a     *)
(* command it started: it is never obliged to start one.                   *)
Fairness == WF_vars(Isr) /\ WF_vars(Main) /\ WF_vars(HostGoesOn)

Spec == Init /\ [][Next]_vars /\ Fairness

----------------------------------------------------------------------------
Flags == {"IN", "OUT", "CSW"}
Status == {"passed", "failed", "phase"}
Senses == {"none", "illegal", "range", "write"}

\* What a sector of the medium can hold.
Packets(c) == IF c.dir = "out" THEN {c.data[i] : i \in 1 .. c.len} ELSE {}
Values == {"zero", "scrubbed"} \cup UNION {Packets(c) : c \in Commands}

(* Type invariant.                                                         *)
TypeOK ==
  /\ dev.flags \subseteq Flags /\ reg \subseteq Flags
  /\ dev.tag \in {0, 1} /\ tag \in {0, 1}
  /\ dev.sense \in Senses /\ dev.status \in Status
  /\ dev.left \in 0 .. CARD /\ dev.lba \in Nat
  /\ dev.rd \in BOOLEAN /\ dev.wr \in BOOLEAN /\ irq \in BOOLEAN
  /\ dev.tx \in {"ACK", "NAK", "STALL"} /\ dev.rx \in {"ACK", "NAK", "STALL"}
  /\ xfer \in {"none", "in", "out"}
  /\ pstate \in {"LOCKED", "PENDING", "UNLOCKED"} /\ capacity \in 1 .. CARD
  /\ card \in [0 .. CARD - 1 -> [val : Values, enc : BOOLEAN]]
  /\ host \in {"idle", "out", "in", "csw", "gone"}
  /\ cmd = NoCmd \/ (cmd.tag \in {0, 1} /\ cmd.cbw \in Commands)

(* bot_usb_is_idle, bot.c:422: "Finish any active command or queued disk   *)
(* I/O before switching volumes".                                          *)
MutIdle_FlagsOnly == dev.flags = {} /\ ~dev.rd /\ ~dev.wr
UsbIsIdle == dev.flags = {} /\ ~dev.rd /\ ~dev.wr /\ dev.tx = "NAK" /\ xfer = "none"

(* Its verdict, from flags that the interrupt and the main loop both       *)
(* write, is right: when it says idle the host has no command in progress. *)
IdleMeansNoCommand == UsbIsIdle => cmd = NoCmd

\* A CBW that was not parsed yet.
Arrived == xfer = "out" /\ rxbuf.kind = "cbw"

(* Every command takes effect once, on the right sectors of the visible    *)
(* volume, and is answered with its own tag, data, status and sense.       *)
Performed ==
  /\ cmd # NoCmd /\ cmd.cbw.op # "BAD_SIGNATURE"
  /\ ~Arrived
  /\ pc \in {"readCsw", "writeCsw"} \/ dev.flags \cap {"IN", "OUT"} = {}

Result ==
  IF ~Performed THEN NoCmd
  ELSE [tag |-> dev.tag, status |-> dev.status,
        data |-> CASE dev.status # "passed" -> <<>>
                   [] dev.status = "passed" /\ cmd.cbw.op = "READ10" -> recv
                   [] OTHER -> IF cmd.cbw.dir = "in" /\ cmd.cbw.len > 0
                               THEN <<dev.resp>> ELSE <<>>]

\* The error there is to report, which any command but REQUEST SENSE clears.
Cleared == cmd # NoCmd /\ Arrived /\ cmd.cbw.op # "REQUEST_SENSE"
Err == IF dev.status = "passed" \/ Cleared THEN "none" ELSE dev.sense

Volume == INSTANCE BlockVolume WITH
  volume <- IF Locked THEN "decoy" ELSE "hidden",
  disk <- [decoy |-> [l \in 0 .. LOCKED - 1 |-> Plain(card[l], FALSE)],
           hidden |-> [l \in 0 .. HiddenSize - 1 |-> Plain(card[LOCKED + l], TRUE)]],
  result <- Result,
  err <- Err
ImplementsVolume == Volume!Spec

\* A host that believes READ CAPACITY, which bot.c:163 does not verify.
WritesWithinCapacity ==
  cmd # NoCmd /\ cmd.cbw.op = "WRITE10" => cmd.cbw.lba + cmd.cbw.len <= capacity
ReadsWithinCapacity ==
  cmd # NoCmd /\ cmd.cbw.op = "READ10" /\ ~Locked => cmd.cbw.lba + cmd.cbw.len <= capacity

(* Every command is answered: a stall, a failed write with packets still   *)
(* to come and the hand-over between interrupt and main loop lose none.    *)
CommandAnswered == host # "idle" ~> host = "idle"

(* bot.c:188, a failure with no data phase to stall queues no status, and  *)
(* bot.c:163, a read past the card is never answered: a host that avoids   *)
(* both is never left waiting.  While it has a command in progress the     *)
(* main loop has work, an interrupt is due, or the next move is its own.   *)
AtPolls == pc \in {"poll", "pollWrite", "pollUnlock"}
MainMoves ==
  \/ ~AtPolls /\ pc \notin {"read", "write"}
  \/ AtPolls /\ (dev.rd \/ dev.wr)
  \/ pc = "read" /\ host = "in" /\ PhysicalLba(dev.lba) + dev.left <= CARD
  \/ pc = "write" /\ dev.left > 0
HostMoves ==
  \/ host = "out" /\ dev.rx = "ACK"
  \/ host \in {"in", "csw"} /\ dev.tx = "ACK" /\ dev.txbuf.kind = "csw"
  \/ host = "in" /\ dev.tx = "ACK" /\ dev.txbuf.kind = "data"
  \/ irq /\ IF cmd.cbw.op = "BAD_SIGNATURE" THEN dev.tx = "STALL"
             ELSE IF host = "out" THEN dev.rx = "STALL" ELSE dev.tx = "STALL"
NobodyStuck ==
  host \in {"out", "in", "csw"} => MainMoves \/ (IF xfer = "none" THEN HostMoves ELSE irq)

(* A command of n packets takes at most 2n + 14 steps of the interrupt,    *)
(* the main loop and the host, not counting polls that find nothing to do: *)
(* no packet, stall, status or sector is handled twice, the packets a      *)
(* failed write left behind and the tail of the read before included.      *)
Effort ==
  (IF host = "out" THEN 2 * (cmd.cbw.len - sent) ELSE 0)
  + (IF host \in {"out", "in"} THEN 4 ELSE IF host = "csw" THEN 2 ELSE 0)
  + (IF xfer = "none" THEN 0 ELSE IF xfer = "out" /\ rxbuf.kind = "cbw" THEN 8 ELSE 1)
  + (IF dev.tx = "STALL" THEN 1 ELSE 0)
  + (IF dev.rd THEN 6 ELSE IF AtPolls /\ "OUT" \in dev.flags THEN 4 ELSE 0)
  + (IF AtPolls THEN 0
     ELSE [read |-> 5, readCsw |-> 4, tail |-> 2, tailStore |-> 1,
           write |-> 3, writeCsw |-> 2, rearm |-> 1][pc])
Starts == host = "idle" /\ host' # "idle" /\ Effort' <= 2 * cmd'.cbw.len + 14
Polls == AtPolls /\ AtPolls' /\ UNCHANGED <<dev, rxbuf, xfer, irq, reg, volVars, card, hostVars>>
CommandIsBounded == [][Starts \/ Polls \/ Effort' \in 0 .. Effort - 1]_vars

(* bot.c:203, "REQUEST SENSE reports the saved error from the previous     *)
(* command": after a command that passed there is no error to report.      *)
SenseIsOfPreviousCommand ==
  [][ (cmd = NoCmd /\ cmd' # NoCmd /\ cmd'.cbw.op = "REQUEST_SENSE"
       /\ seen # NoCmd /\ seen.status = "passed" /\ dev.op # "REQUEST_SENSE")
      => dev.sense = "none" ]_vars

(* bot.c:239, VERIFY(10) is acknowledged "without rereading data": only a  *)
(* write changes the medium.                                               *)
OnlyWritesChangeTheCard == [][card' # card => cmd.cbw.op = "WRITE10"]_vars
=============================================================================
