------------------------------ MODULE BotProofs ------------------------------
(***************************************************************************)
(* Proofs about Bot for volumes and chunks of any size and any set of      *)
(* CBWs, with a host that does not send a CBW into the last statement of   *)
(* a read (~TailInterrupted).                                              *)
(*                                                                         *)
(* A command goes through phases, each of which ties together what no one  *)
(* actor knows: how far the host is, what is under way on the bus, the     *)
(* flags the interrupt and the main loop leave each other, the endpoint's  *)
(* answers and the place of the main loop.  Every step leads from a phase  *)
(* to a phase, and only in one of them does the drive look idle.           *)
(***************************************************************************)
EXTENDS Bot, TLAPS

Streams == {"read", "readCsw", "tail", "tailStore", "write", "writeCsw", "rearm"}
Polling == pc \notin Streams
InTail == pc \in {"tail", "tailStore"}
Quiet == ~dev.rd /\ ~dev.wr
OutPhase ==
  /\ dev.flags = {"CSW", "OUT"} /\ dev.tx = "NAK"
  /\ dev.left \in 1 .. cmd.cbw.len /\ cmd.cbw.dir = "out"

Idle ==
  /\ cmd = NoCmd /\ host \in {"idle", "gone"} /\ sent = 0
  /\ dev.flags = {} /\ Quiet
  /\ (xfer = "none" /\ dev.tx = "NAK") \/ (xfer = "in" /\ dev.tx = "ACK")
  /\ Polling \/ InTail \/ pc = "rearm"

CbwSent ==
  /\ cmd.cbw \in Commands /\ cmd.tag \in {0, 1} /\ sent = 0
  /\ host = (IF cmd.cbw.len = 0 THEN "csw" ELSE cmd.cbw.dir)
  /\ dev.flags = {} /\ Quiet /\ (Polling \/ InTail)
  /\ xfer = "out" /\ dev.tx = "NAK" /\ rxbuf = [kind |-> "cbw", cbw |-> cmd, val |-> "none"]

Rejected ==
  /\ cmd.cbw.op = "BAD_SIGNATURE" /\ host \in {"in", "out", "csw"} /\ sent = 0
  /\ dev.flags = {} /\ Quiet /\ Polling
  /\ xfer = "none" /\ dev.tx = "STALL"

\* A stalled data phase, or a failure without a data phase to stall.
Declined ==
  /\ cmd.cbw.op # "BAD_SIGNATURE" /\ host \in {"in", "out", "csw"}
  /\ dev.flags = {"CSW"} /\ Quiet /\ Polling
  /\ xfer = "none" /\ dev.tx \in {"STALL", "NAK"}

Answering ==
  /\ dev.op # "READ10"
  /\ dev.flags \in {{"CSW"}, {"CSW", "IN"}} /\ Quiet /\ Polling
  /\ dev.tx = "ACK" /\ dev.txbuf.kind = "data"
  /\ (xfer = "none" /\ host \in {"in", "csw"}) \/ (xfer = "in" /\ host = "csw")

ReadPhase ==
  /\ dev.flags = {"CSW", "IN"} /\ ~dev.wr
  /\ xfer = "none" /\ dev.tx = "NAK"
  /\ \/ dev.rd /\ host = "in" /\ Polling
     \/ ~dev.rd /\ host = "in" /\ pc = "read"
     \/ ~dev.rd /\ host = "csw" /\ pc = "readCsw"

\* Up to the first data packet, which the main loop waits for.
DataPhase ==
  /\ OutPhase /\ Quiet /\ Polling
  /\ \/ xfer = "none" /\ host = "out" /\ sent = 0
     \/ xfer = "out" /\ host \in {"out", "csw"} /\ rxbuf.kind = "data" /\ rxbuf.val \in Values

WritePhase ==
  /\ dev.flags = {"CSW", "OUT"} /\ ~dev.rd
  /\ xfer = "none" /\ dev.tx = "NAK" /\ host \in {"out", "csw"}
  /\ \/ dev.wr /\ Polling /\ OutPhase /\ rxbuf.val \in Values
     \/ ~dev.wr /\ pc = "write" /\ OutPhase /\ rxbuf.val \in Values
     \/ ~dev.wr /\ pc = "writeCsw"

\* The status is queued; after a failed write the host may have packets left.
CswQueued ==
  /\ host \in {"out", "csw"}
  /\ dev.flags = {} /\ Quiet
  /\ dev.tx = "ACK" /\ dev.txbuf.kind = "csw"
  /\ xfer = "none" \/ (xfer = "out" /\ rxbuf.kind = "data")
  /\ Polling \/ InTail \/ pc = "rearm"

InCommand ==
  /\ cmd # NoCmd /\ cmd.cbw \in Commands
  /\ \/ CbwSent \/ Rejected \/ Declined \/ Answering \/ ReadPhase
     \/ DataPhase \/ WritePhase \/ CswQueued

Phases == Idle \/ InCommand

\* What endpoint 1 has to answer to an OUT packet.
Writes == dev.wr \/ pc \in {"write", "writeCsw", "rearm"}
RefusesOut == host = "out" /\ dev.flags = {"CSW"}
AwaitsReset == dev.flags = {} /\ dev.tx = "STALL"
RxDue == IF Writes THEN "NAK" ELSE IF RefusesOut \/ AwaitsReset THEN "STALL" ELSE "ACK"

\* A device's state.
Ops == {"none", "REQUEST_SENSE"} \cup {c.op : c \in Commands}
Replies == [kind : Ops, val : Senses, num : Nat]
Buffers == [kind : {"none", "csw", "data"}, tag : {0, 1}, status : Status, val : Replies]
Devs ==
  [flags : SUBSET Flags, tag : {0, 1}, sense : Senses, status : Status, left : 0 .. CARD,
   lba : Nat, rd : BOOLEAN, wr : BOOLEAN, op : Ops, resp : Replies,
   tx : {"ACK", "NAK", "STALL"}, rx : {"ACK", "NAK", "STALL"}, txbuf : Buffers]

\* The types of the host's side, and of the medium.
Others ==
  /\ tag \in {0, 1} /\ xfer \in {"none", "in", "out"} /\ irq \in BOOLEAN
  /\ pstate \in {"LOCKED", "PENDING", "UNLOCKED"} /\ capacity \in 1 .. CARD
  /\ card \in [0 .. CARD - 1 -> [val : Values, enc : BOOLEAN]]
  /\ host \in {"idle", "out", "in", "csw", "gone"}
  /\ cmd = NoCmd \/ (cmd.tag \in {0, 1} /\ cmd.cbw \in Commands)

(* The inductive invariant.  reg stays empty: while the main loop is in    *)
(* the tail of a read, no flag is set.                                     *)
Core == dev \in Devs /\ Others /\ reg = {} /\ Phases
IInv == Core /\ dev.rx = RxDue

----------------------------------------------------------------------------
USE SizeAssumption, ChunkAssumption, CommandAssumption

(* Handlers.                                                               *)
LEMMA SendCswFacts ==
  ASSUME NEW d \in Devs
  PROVE  /\ SendCsw(d) \in Devs
         /\ SendCsw(d).flags = {} /\ SendCsw(d).tx = "ACK" /\ SendCsw(d).txbuf.kind = "csw"
         /\ SendCsw(d).rd = d.rd /\ SendCsw(d).wr = d.wr /\ SendCsw(d).rx = d.rx
<1>1. [kind |-> "csw", tag |-> d.tag, status |-> d.status, val |-> NoReply] \in Buffers
  <2>1. NoReply \in Replies
    BY DEF NoReply, Reply, Replies, Ops, Senses
  <2> QED
    BY <2>1 DEF Devs, Buffers
<1> QED
  BY <1>1 DEF Devs, SendCsw, Flags

LEMMA SendResponseFacts ==
  ASSUME NEW d \in Devs
  PROVE  /\ SendResponseData(d) \in Devs
         /\ SendResponseData(d).flags \in {d.flags, d.flags \ {"IN"}}
         /\ SendResponseData(d).tx = "ACK" /\ SendResponseData(d).txbuf.kind = "data"
         /\ SendResponseData(d).rd = d.rd /\ SendResponseData(d).wr = d.wr
         /\ SendResponseData(d).rx = d.rx /\ SendResponseData(d).op = d.op
<1>1. [kind |-> "data", tag |-> 0, status |-> "passed", val |-> d.resp] \in Buffers
  <2>1. d.resp \in Replies
    BY DEF Devs
  <2> QED
    BY <2>1 DEF Buffers, Status
<1>2. (IF d.left > 1 THEN d.left - 1 ELSE 0) \in 0 .. CARD
  BY DEF Devs
<1> QED
  BY <1>1, <1>2 DEF Devs, SendResponseData

LEMMA StallFacts ==
  ASSUME NEW d \in Devs
  PROVE  /\ StallActiveDataEndpoints(d) \in Devs
         /\ StallActiveDataEndpoints(d).flags = d.flags \ {"IN", "OUT"}
         /\ StallActiveDataEndpoints(d).tx = (IF "IN" \in d.flags THEN "STALL" ELSE d.tx)
         /\ StallActiveDataEndpoints(d).rx = (IF "OUT" \in d.flags THEN "STALL" ELSE d.rx)
         /\ StallActiveDataEndpoints(d).rd = d.rd /\ StallActiveDataEndpoints(d).wr = d.wr
         /\ StallActiveDataEndpoints(d).op = d.op /\ StallActiveDataEndpoints(d).status = d.status
  BY DEF Devs, StallActiveDataEndpoints

LEMMA SenseFacts ==
  ASSUME NEW d \in Devs, NEW sense \in Senses, NEW status \in Status
  PROVE  /\ SetSense(d, sense, status) \in Devs
         /\ SetSense(d, sense, status).flags = d.flags /\ SetSense(d, sense, status).tx = d.tx
         /\ SetSense(d, sense, status).rx = d.rx /\ SetSense(d, sense, status).op = d.op
         /\ SetSense(d, sense, status).rd = d.rd /\ SetSense(d, sense, status).wr = d.wr
         /\ SetSense(d, sense, status).left = d.left /\ SetSense(d, sense, status).status = status
  BY DEF Devs, SetSense

\* d is d0 with a command begun that has not been refused.
Begun(d, d0, c) ==
  /\ d \in Devs /\ d.op = c.op /\ d.left \in 0 .. c.len /\ (c.len > 0 => d.left > 0)
  /\ d.flags = {"CSW"} \cup DataFlag(c) /\ d.rd = d0.rd /\ d.wr = d0.wr /\ d.tx = d0.tx /\ d.rx = d0.rx

LEMMA BeginFacts ==
  ASSUME NEW d0 \in Devs, NEW t \in {0, 1}, NEW c \in Commands, d0.flags = {}
  PROVE  Begun(BeginCbw([d0 EXCEPT !.op = c.op], t, c), d0, c)
<1>1. c.op \in Ops /\ c.len \in 0 .. CARD /\ c.dir \in {"in", "out"}
  BY DEF Ops
<1> DEFINE e == [d0 EXCEPT !.op = c.op]
<1>2. e \in Devs /\ e.op = c.op /\ e.flags = {} /\ e.rd = d0.rd /\ e.wr = d0.wr
      /\ e.tx = d0.tx /\ e.rx = d0.rx
  BY <1>1 DEF Devs
<1>3. DataFlag(c) \in SUBSET Flags
  BY DEF DataFlag, Flags
<1> HIDE DEF e
<1>4. BeginCbw(e, t, c) = [e EXCEPT !.tag = t, !.left = c.len, !.flags = {"CSW"} \cup DataFlag(c)]
  BY <1>2 DEF BeginCbw
<1>5. {"CSW"} \cup DataFlag(c) \in SUBSET Flags
  BY <1>3 DEF Flags
<1>6. BeginCbw(e, t, c) \in Devs
  BY <1>1, <1>2, <1>4, <1>5 DEF Devs
<1>7. /\ BeginCbw(e, t, c).op = c.op /\ BeginCbw(e, t, c).left = c.len
      /\ BeginCbw(e, t, c).flags = {"CSW"} \cup DataFlag(c)
      /\ BeginCbw(e, t, c).rd = d0.rd /\ BeginCbw(e, t, c).wr = d0.wr
      /\ BeginCbw(e, t, c).tx = d0.tx /\ BeginCbw(e, t, c).rx = d0.rx
  BY <1>2, <1>4 DEF Devs
<1>8. c.len \in 0 .. c.len /\ (c.len > 0 => c.len > 0)
  BY <1>1
<1> QED
  BY <1>6, <1>7, <1>8 DEF e, Begun

LEMMA ParseFacts ==
  ASSUME NEW d \in Devs, NEW d0 \in Devs, NEW c \in Commands, Begun(d, d0, c),
         c.op \in {"READ10", "WRITE10"}
  PROVE  Begun(ParseRw10(d, c), d0, c)
<1>1. c.lba \in Nat /\ c.n = c.len /\ c.len \in 0 .. CARD
  OBVIOUS
<1> DEFINE e == [d EXCEPT !.lba = c.lba, !.left = c.n]
<1>2. e \in Devs /\ e.op = d.op /\ e.left = c.len /\ e.flags = d.flags
      /\ e.rd = d.rd /\ e.wr = d.wr /\ e.tx = d.tx /\ e.rx = d.rx
  BY <1>1 DEF Devs
<1> HIDE DEF e
<1>3. Begun(Passed(e), d0, c)
  BY <1>1, <1>2, SenseFacts DEF Begun, Passed, Senses, Status
<1> QED
  BY <1>3 DEF e, ParseRw10

LEMMA CopyFacts ==
  ASSUME NEW d \in Devs, NEW d0 \in Devs, NEW c \in Commands, Begun(d, d0, c), NEW num \in Nat
  PROVE  Begun(CopyResponse(d, num), d0, c) /\ CopyResponse(d, num) \in Devs
<1>1. Reply(d.op, "none", num) \in Replies
  BY DEF Reply, Replies, Senses, Devs
<1>2. (IF d.left > 1 THEN 1 ELSE d.left) \in 0 .. CARD
  BY DEF Devs
<1>3. CopyResponse(d, num) \in Devs
  BY <1>1, <1>2 DEF CopyResponse, Devs
<1>4. /\ CopyResponse(d, num).op = d.op /\ CopyResponse(d, num).flags = d.flags
      /\ CopyResponse(d, num).left = (IF d.left > 1 THEN 1 ELSE d.left)
      /\ CopyResponse(d, num).rd = d.rd /\ CopyResponse(d, num).wr = d.wr
      /\ CopyResponse(d, num).tx = d.tx /\ CopyResponse(d, num).rx = d.rx
  BY DEF CopyResponse, Devs
<1>5. c.len \in Nat /\ d.left \in 0 .. c.len /\ (c.len > 0 => d.left > 0)
  BY DEF Begun
<1>6. LET l == IF d.left > 1 THEN 1 ELSE d.left
      IN l \in 0 .. c.len /\ (c.len > 0 => l > 0)
  BY <1>5
<1> QED
  BY <1>3, <1>4, <1>6 DEF Begun

\* A refused command: the data phase the CBW announces is stalled.
Stalled(d, c) ==
  /\ d.flags = {"CSW"} /\ d.status # "passed" /\ d.tx \in {"STALL", "NAK"}
  /\ d.rx = (IF DataFlag(c) = {"OUT"} THEN "STALL" ELSE "ACK")

LEMMA RefuseFacts ==
  ASSUME NEW d \in Devs, NEW c \in Commands,
         d.flags \in {{"CSW"} \cup DataFlag(c), {"CSW", "IN"} \cup DataFlag(c)},
         d.status # "passed", d.tx = "NAK", d.rx = "ACK", ~d.rd, ~d.wr, d.op = c.op
  PROVE  LET r == StallActiveDataEndpoints(d)
         IN r \in Devs /\ ~r.rd /\ ~r.wr /\ r.op = c.op /\ Stalled(r, c)
<1>1. d.flags \ {"IN", "OUT"} = {"CSW"} /\ ("OUT" \in d.flags <=> DataFlag(c) = {"OUT"})
  BY DEF DataFlag
<1> QED
  BY <1>1, StallFacts DEF Stalled

\* What a dispatched command leaves to bot_handle_bulk_out.
Dispatched(d, d0, c) ==
  /\ d \in Devs /\ ~d.rd /\ ~d.wr /\ d.op = c.op
  /\ \/ /\ c.op = "BAD_SIGNATURE" /\ d.flags = {} /\ d.tx = "STALL" /\ d.rx = "STALL"
        /\ d.status # "passed"
     \/ c.op # "BAD_SIGNATURE" /\ Stalled(d, c)
     \/ c.op # "BAD_SIGNATURE" /\ Begun(d, d0, c)

LEMMA DispatchFacts ==
  ASSUME NEW d0 \in Devs, NEW t \in {0, 1}, NEW c \in Commands, capacity \in 1 .. CARD,
         d0.flags = {}, ~d0.rd, ~d0.wr, d0.tx = "NAK", d0.rx = "ACK"
  PROVE  Dispatched(Dispatch(d0, t, c), d0, c)
<1> DEFINE b == BeginCbw([d0 EXCEPT !.op = c.op], t, c)
           e == [d0 EXCEPT !.op = c.op]
           D == Dispatch(d0, t, c)
<1>1. b \in Devs /\ Begun(b, d0, c)
  BY BeginFacts DEF Begun
<1>2. e \in Devs /\ e.op = c.op /\ e.flags = {} /\ ~e.rd /\ ~e.wr /\ e.tx = "NAK" /\ e.rx = "ACK"
  BY DEF Devs, Ops
<1> SUFFICES Dispatched(D, d0, c)
  OBVIOUS
<1> HIDE DEF b, e, D
<1>3. CASE c.op = "BAD_SIGNATURE"
  <2> DEFINE f == [SetSense(e, "illegal", "phase") EXCEPT !.flags = @ \cup {"IN", "OUT"}]
  <2>1. D = StallActiveDataEndpoints(f)
    BY <1>3 DEF Dispatch, RejectSignature, D, e
  <2>2. f \in Devs /\ f.flags = {"IN", "OUT"} /\ ~f.rd /\ ~f.wr /\ f.op = c.op /\ f.status = "phase"
    BY <1>2 DEF SetSense, Devs, Flags, Senses, Status
  <2> HIDE DEF f
  <2> QED
    BY <1>3, <2>1, <2>2, StallFacts DEF Dispatched
<1>4. CASE c.op = "INQUIRY"
  <2>1. D = Passed(CopyResponse(b, 0))
    BY <1>4 DEF Dispatch, D, b
  <2>2. Begun(D, d0, c)
    BY <1>1, <2>1, CopyFacts, SenseFacts DEF Begun, Passed, Senses, Status
  <2> QED
    BY <1>4, <2>2 DEF Begun, Dispatched
<1>5. CASE c.op = "READ_CAPACITY"
  <2>1. D = Passed(CopyResponse(b, capacity - 1)) /\ capacity - 1 \in Nat
    BY <1>5 DEF Dispatch, D, b
  <2>2. Begun(D, d0, c)
    BY <1>1, <2>1, CopyFacts, SenseFacts DEF Begun, Passed, Senses, Status
  <2> QED
    BY <1>5, <2>2 DEF Begun, Dispatched
<1>6. CASE c.op = "MODE_SENSE"
  <2>1. D = CopyResponse(b, capacity) /\ capacity \in Nat
    BY <1>6 DEF Dispatch, D, b
  <2>2. Begun(D, d0, c)
    BY <1>1, <2>1, CopyFacts
  <2> QED
    BY <1>6, <2>2 DEF Begun, Dispatched
<1>7. CASE c.op = "MODE_SENSE10_PAGE"
  <2> DEFINE f == SetSense(b, "illegal", "failed")
  <2>1. D = StallActiveDataEndpoints(f)
    BY <1>7 DEF Dispatch, D, b
  <2>2. f \in Devs /\ f.flags = {"CSW"} \cup DataFlag(c) /\ ~f.rd /\ ~f.wr /\ f.op = c.op
        /\ f.status # "passed" /\ f.tx = "NAK" /\ f.rx = "ACK"
    BY <1>1, SenseFacts DEF Begun, Senses, Status
  <2> HIDE DEF f
  <2> QED
    BY <1>7, <2>1, <2>2, RefuseFacts DEF Dispatched
<1>8. CASE c.op = "READ10"
  <2> DEFINE p == ParseRw10(b, c)
             f == SetSense(p, "range", "failed")
  <2>1. p \in Devs /\ Begun(p, d0, c)
    BY <1>1, <1>8, ParseFacts DEF Begun
  <2>2. D = p \/ D = StallActiveDataEndpoints(f)
    BY <1>8 DEF Dispatch, D, b, Read10
  <2> HIDE DEF p
  <2>3. f \in Devs /\ f.flags = {"CSW"} \cup DataFlag(c) /\ ~f.rd /\ ~f.wr /\ f.op = c.op
        /\ f.status # "passed" /\ f.tx = "NAK" /\ f.rx = "ACK"
    BY <2>1, SenseFacts DEF Begun, Senses, Status
  <2> HIDE DEF f
  <2>4. CASE D = p
    BY <1>8, <2>1, <2>4 DEF Begun, Dispatched
  <2>5. CASE D = StallActiveDataEndpoints(f)
    BY <1>8, <2>3, <2>5, RefuseFacts DEF Dispatched
  <2> QED
    BY <2>2, <2>4, <2>5
<1>9. CASE c.op = "WRITE10"
  <2>1. D = ParseRw10(b, c)
    BY <1>9 DEF Dispatch, D, b
  <2>2. Begun(D, d0, c)
    BY <1>1, <1>9, <2>1, ParseFacts
  <2> QED
    BY <1>9, <2>2 DEF Begun, Dispatched
<1>10. CASE c.op = "REQUEST_SENSE"
  <2>1. D = [b EXCEPT !.resp = Reply("REQUEST_SENSE", b.sense, 0), !.status = "passed"]
    BY <1>10 DEF Dispatch, D, b, RequestSense
  <2>2. Reply("REQUEST_SENSE", b.sense, 0) \in Replies
    BY <1>1 DEF Reply, Replies, Ops, Devs
  <2>3. Begun(D, d0, c)
    BY <1>1, <2>1, <2>2 DEF Begun, Devs, Status
  <2> QED
    BY <1>10, <2>3 DEF Begun, Dispatched
<1>11. CASE c.op \in {"TEST_READY", "VERIFY10"}
  <2>1. D = Passed(b)
    BY <1>11 DEF Dispatch, D, b
  <2>2. Begun(D, d0, c)
    BY <1>1, <2>1, SenseFacts DEF Begun, Passed, Senses, Status
  <2> QED
    BY <1>11, <2>2 DEF Begun, Dispatched
<1>12. CASE c.op \notin {"BAD_SIGNATURE", "INQUIRY", "READ_CAPACITY", "MODE_SENSE", "MODE_SENSE10_PAGE",
                        "READ10", "WRITE10", "REQUEST_SENSE", "TEST_READY", "VERIFY10"}
  <2> DEFINE f == [SetSense(b, "illegal", "failed") EXCEPT !.flags = @ \cup {"IN"}]
  <2>1. D = StallActiveDataEndpoints(f)
    BY <1>12 DEF Dispatch, D, b, Unsupported
  <2>2. f \in Devs /\ f.flags = {"CSW", "IN"} \cup DataFlag(c) /\ ~f.rd /\ ~f.wr /\ f.op = c.op
        /\ f.status # "passed" /\ f.tx = "NAK" /\ f.rx = "ACK"
    BY <1>1 DEF Begun, SetSense, Devs, Flags, Senses, Status
  <2> HIDE DEF f
  <2> QED
    BY <1>12, <2>1, <2>2, RefuseFacts DEF Dispatched
<1> QED
  BY <1>3, <1>4, <1>5, <1>6, <1>7, <1>8, <1>9, <1>10, <1>11, <1>12

\* What the handler of a CBW leaves: the phase the command enters.
Entered(d, c) ==
  /\ d \in Devs /\ ~d.wr
  /\ \/ /\ c.op = "BAD_SIGNATURE" /\ d.flags = {} /\ ~d.rd /\ d.tx = "STALL" /\ d.rx = "STALL"
     \/ /\ c.op # "BAD_SIGNATURE" /\ d.flags = {"CSW"} /\ ~d.rd /\ d.tx \in {"STALL", "NAK"}
        /\ d.rx = (IF DataFlag(c) = {"OUT"} THEN "STALL" ELSE "ACK")
     \/ /\ DataFlag(c) = {"IN"} /\ d.op # "READ10" /\ d.flags \in {{"CSW"}, {"CSW", "IN"}} /\ ~d.rd
        /\ d.tx = "ACK" /\ d.rx = "ACK" /\ d.txbuf.kind = "data"
     \/ /\ DataFlag(c) = {"IN"} /\ d.flags = {"CSW", "IN"} /\ d.rd /\ d.tx = "NAK" /\ d.rx = "ACK"
     \/ /\ DataFlag(c) = {"OUT"} /\ d.flags = {"CSW", "OUT"} /\ ~d.rd /\ d.left \in 1 .. c.len
        /\ d.tx = "NAK" /\ d.rx = "ACK"
     \/ /\ DataFlag(c) = {} /\ d.flags = {} /\ ~d.rd /\ d.tx = "ACK" /\ d.rx = "ACK"
        /\ d.txbuf.kind = "csw"

LEMMA AnswerFacts ==
  ASSUME NEW d \in Devs, NEW d0 \in Devs, NEW c \in Commands, Dispatched(d, d0, c),
         d0.tx = "NAK", d0.rx = "ACK"
  PROVE  Entered(Answer(d), c)
<1>1. CASE d.status # "passed" /\ d.flags \in {{}, {"CSW"}}
  <2>1. Answer(d) = d
    BY <1>1 DEF Answer
  <2>2. CASE Begun(d, d0, c)
    BY <1>1, <2>1, <2>2 DEF Begun, Dispatched, Entered, DataFlag
  <2>3. CASE ~Begun(d, d0, c)
    BY <1>1, <2>1, <2>3 DEF Dispatched, Entered, Stalled
  <2> QED
    BY <2>2, <2>3
<1>2. CASE ~(d.status # "passed" /\ d.flags \in {{}, {"CSW"}})
  <2>1. Begun(d, d0, c) /\ c.op # "BAD_SIGNATURE" /\ ~d.rd /\ ~d.wr
    BY <1>2 DEF Dispatched, Stalled
  <2>2. CASE DataFlag(c) = {}
    <3>1. d.flags = {"CSW"} /\ d.status = "passed"
      BY <1>2, <2>1, <2>2 DEF Begun
    <3>2. Answer(d) = SendCsw(d)
      BY <3>1 DEF Answer
    <3> QED
      BY <2>1, <2>2, <3>2, SendCswFacts DEF Begun, Entered
  <2>3. CASE DataFlag(c) = {"IN"}
    <3>1. d.flags = {"CSW", "IN"} /\ "IN" \in d.flags /\ "OUT" \notin d.flags
      BY <2>1, <2>3 DEF Begun
    <3>2. Answer(d) = InPhase(d)
      BY <3>1 DEF Answer
    <3>3. CASE d.op = "READ10"
      <4>1. Answer(d) = [d EXCEPT !.rd = TRUE]
        BY <3>2, <3>3 DEF InPhase
      <4> QED
        BY <2>1, <2>3, <3>1, <4>1 DEF Begun, Entered, Devs
    <3>4. CASE d.op # "READ10"
      <4>1. Answer(d) = SendResponseData(d)
        BY <3>2, <3>4 DEF InPhase
      <4>2. {"CSW", "IN"} \ {"IN"} = {"CSW"}
        OBVIOUS
      <4> QED
        BY <2>1, <2>3, <3>1, <3>4, <4>1, <4>2, SendResponseFacts DEF Begun, Entered
    <3> QED
      BY <3>3, <3>4
  <2>4. CASE DataFlag(c) = {"OUT"}
    <3>1. d.flags = {"CSW", "OUT"} /\ c.len \in Nat /\ c.len > 0 /\ d.left \in 1 .. c.len
      <4>1. c.len > 0 /\ c.len \in Nat
        BY <2>4 DEF DataFlag
      <4> QED
        BY <2>1, <2>4, <4>1 DEF Begun
    <3>2. Answer(d) = d
      BY <3>1 DEF Answer
    <3> QED
      BY <2>1, <2>4, <3>1, <3>2 DEF Begun, Entered
  <2> QED
    BY <2>2, <2>3, <2>4 DEF DataFlag
<1> QED
  BY <1>1, <1>2

LEMMA BulkInFacts ==
  ASSUME NEW d \in Devs
  PROVE  /\ d.flags = {} => BulkIn(d) = d
         /\ d.flags = {"CSW"} => BulkIn(d) = SendCsw(d)
         /\ d.flags = {"CSW", "IN"} /\ d.op # "READ10" => BulkIn(d) = SendResponseData(d)
<1>1. CASE d.flags = {}
  <2>1. "IN" \notin d.flags /\ "CSW" \notin d.flags
    BY <1>1
  <2> QED
    BY <1>1, <2>1 DEF BulkIn
<1>2. CASE d.flags = {"CSW"}
  <2>1. "IN" \notin d.flags /\ "CSW" \in d.flags
    BY <1>2
  <2> QED
    BY <1>2, <2>1 DEF BulkIn
<1>3. CASE d.flags = {"CSW", "IN"} /\ d.op # "READ10"
  <2>1. "IN" \in d.flags
    BY <1>3
  <2> QED
    BY <1>3, <2>1 DEF BulkIn, InPhase
<1> QED
  BY <1>1, <1>2, <1>3

----------------------------------------------------------------------------
(* Steps of the interrupt.                                                 *)
LEMMA IsrInStep ==
  ASSUME Core, IsrIn
  PROVE  Core' /\ dev'.rx = dev.rx /\ RxDue' = RxDue
<1> DEFINE d == [dev EXCEPT !.tx = "NAK", !.txbuf = NoBuffer]
<1>1. NoBuffer \in Buffers
  BY DEF NoBuffer, Buffers, NoReply, Reply, Replies, Ops, Senses, Status
<1>2. /\ d \in Devs /\ d.flags = dev.flags /\ d.rd = dev.rd /\ d.wr = dev.wr
      /\ d.rx = dev.rx /\ d.tx = "NAK" /\ d.op = dev.op
  BY <1>1 DEF Core, Devs
<1>3. dev' = BulkIn(d)
  BY DEF IsrIn
<1> HIDE DEF d
<1>4. xfer' = "none" /\ UNCHANGED <<rxbuf, irq, pc, reg, pstate, capacity, card, host, cmd, sent, tag>>
  BY DEF IsrIn, volVars, hostVars
<1>5. Others' /\ reg' = {}
  BY <1>4 DEF Core, Others
<1>6. CASE Idle
  <2>1. dev' = d
    BY <1>2, <1>3, <1>6, BulkInFacts DEF Idle
  <2>2. Idle'
    BY <1>2, <1>4, <1>6, <2>1 DEF Idle, Quiet, Polling, InTail
  <2> QED
    BY <1>2, <1>4, <1>5, <1>6, <2>1, <2>2, <1>1 DEF Core, Phases, RxDue, Writes, RefusesOut, AwaitsReset, Idle, IsrIn
<1>7. CASE Answering /\ cmd # NoCmd /\ cmd.cbw \in Commands
  <2>1. CASE dev.flags = {"CSW"}
    <3>1. dev' = SendCsw(d)
      BY <1>2, <1>3, <2>1, BulkInFacts
    <3>2. CswQueued'
      BY <1>2, <1>4, <1>7, <3>1, SendCswFacts DEF IsrIn, Answering, CswQueued, Quiet, Polling
    <3> QED
      BY <1>2, <1>4, <1>5, <1>7, <2>1, <3>1, <3>2, SendCswFacts
         DEF Core, Phases, InCommand, RxDue, Writes, RefusesOut, AwaitsReset, Answering, CswQueued, IsrIn
  <2>2. CASE dev.flags = {"CSW", "IN"}
    <3>1. dev' = SendResponseData(d)
      BY <1>2, <1>3, <1>7, <2>2, BulkInFacts DEF Answering
    <3>2. dev'.flags \in {{"CSW"}, {"CSW", "IN"}}
      BY <1>2, <2>2, <3>1, SendResponseFacts
    <3>3. Answering'
      BY <1>2, <1>4, <1>7, <3>1, <3>2, SendResponseFacts DEF Answering, Quiet, Polling, IsrIn
    <3> QED
      BY <1>2, <1>4, <1>5, <1>7, <2>2, <3>1, <3>2, <3>3, SendResponseFacts
         DEF Core, Phases, InCommand, RxDue, Writes, RefusesOut, AwaitsReset, Answering, IsrIn
  <2> QED
    BY <1>7, <2>1, <2>2 DEF Answering
<1> QED
  BY <1>6, <1>7 DEF Core, IsrIn, Phases, InCommand, CbwSent, Rejected, Declined, ReadPhase,
     DataPhase, WritePhase, CswQueued

\* A CBW is parsed: what its handler leaves, and to whom.
LEMMA CbwTaken ==
  ASSUME IInv, IsrOut, ~TailInterrupted, CbwSent, InCommand
  PROVE  /\ dev' = Answer(Dispatch(dev, cmd.tag, cmd.cbw)) /\ Entered(dev', cmd.cbw)
         /\ dev \in Devs /\ dev.flags = {} /\ ~dev.rd /\ ~dev.wr /\ dev.tx = "NAK" /\ sent = 0
         /\ cmd # NoCmd /\ cmd.cbw \in Commands /\ cmd.tag \in {0, 1} /\ capacity \in 1 .. CARD
         /\ host = (IF cmd.cbw.len = 0 THEN "csw" ELSE cmd.cbw.dir)
         /\ Polling /\ xfer' = "none"
<1> DEFINE d == BulkOut(dev, rxbuf)
           c == cmd.cbw
<1>1. dev' = [d EXCEPT !.rx = IF d.wr THEN "NAK" ELSE d.rx]
  BY DEF IsrOut
<1>2. xfer = "out" /\ ~InTail /\ xfer' = "none"
  BY DEF IsrOut, InTail
<1> HIDE DEF d
<1>3. /\ c \in Commands /\ cmd.tag \in {0, 1} /\ capacity \in 1 .. CARD /\ Polling /\ dev \in Devs
      /\ dev.flags = {} /\ ~dev.rd /\ ~dev.wr /\ dev.tx = "NAK" /\ sent = 0 /\ cmd # NoCmd
      /\ host = (IF c.len = 0 THEN "csw" ELSE c.dir)
  BY <1>2 DEF CbwSent, IInv, Core, Others, Quiet, InCommand
<1>4. dev.rx = "ACK"
  BY <1>2, <1>3 DEF IInv, RxDue, Writes, RefusesOut, AwaitsReset, Polling, Streams
<1>5. d = Answer(Dispatch(dev, cmd.tag, c))
  <2>1. rxbuf.kind = "cbw" /\ rxbuf.cbw = cmd /\ "OUT" \notin dev.flags
    BY <1>3 DEF CbwSent
  <2> QED
    BY <2>1 DEF d, BulkOut
<1>6. Dispatched(Dispatch(dev, cmd.tag, c), dev, c)
  BY <1>3, <1>4, DispatchFacts
<1>7. Entered(d, c)
  BY <1>3, <1>4, <1>5, <1>6, AnswerFacts DEF Dispatched
<1>8. d \in Devs /\ ~d.wr
  BY <1>7 DEF Entered
<1>9. dev' = d
  BY <1>1, <1>8 DEF Devs
<1> QED
  BY <1>2, <1>3, <1>5, <1>7, <1>9

LEMMA IsrOutStep ==
  ASSUME IInv, IsrOut, ~TailInterrupted
  PROVE  IInv'
<1> DEFINE d == BulkOut(dev, rxbuf)
<1>1. dev' = [d EXCEPT !.rx = IF d.wr THEN "NAK" ELSE d.rx]
  BY DEF IsrOut
<1>2. /\ xfer = "out" /\ ~InTail
      /\ xfer' = "none" /\ UNCHANGED <<irq, pc, reg, pstate, capacity, card, host, cmd, sent, tag>>
      /\ rxbuf' = (IF d.wr THEN rxbuf ELSE NoPacket)
  BY DEF IsrOut, InTail, volVars, hostVars
<1> HIDE DEF d
<1>3. Others' /\ reg' = {} /\ dev \in Devs
  BY <1>2 DEF IInv, Core, Others
<1>4. CASE CbwSent /\ InCommand
  <2> DEFINE c == cmd.cbw
  <2>1. /\ c \in Commands /\ Polling /\ cmd # NoCmd /\ sent = 0
        /\ host = (IF c.len = 0 THEN "csw" ELSE c.dir)
    BY <1>4, CbwTaken
  <2>5. Entered(dev', c)
    BY <1>4, CbwTaken
  <2>6. dev' \in Devs /\ ~dev'.wr
    BY <2>5 DEF Entered
  <2>8. c.dir \in {"in", "out"} /\ c.len \in Nat
    BY <2>1
  <2>9. /\ DataFlag(c) = {} => host = "csw"
        /\ DataFlag(c) = {"IN"} => host = "in"
        /\ DataFlag(c) = {"OUT"} => host = "out" /\ c.dir = "out"
        /\ DataFlag(c) \in {{}, {"IN"}, {"OUT"}}
    BY <2>1, <2>8 DEF DataFlag
  <2> HIDE DEF c
  <2>10. c = cmd.cbw
    BY DEF c
  <2>11. Phases' /\ dev'.rx = RxDue'
    <3> SUFFICES InCommand' /\ dev'.rx = RxDue'
      BY DEF Phases
    <3>1. Polling' /\ cmd' # NoCmd /\ cmd'.cbw \in Commands
      BY <1>2, <2>1, <2>10 DEF Polling
    <3> USE <1>2, <2>1, <2>6, <2>10, <3>1
    <3> USE DEF InCommand, RxDue, Writes, RefusesOut, AwaitsReset, Polling, Streams, Quiet
    <3>2. CASE c.op = "BAD_SIGNATURE" /\ dev'.flags = {} /\ ~dev'.rd /\ dev'.tx = "STALL" /\ dev'.rx = "STALL"
      <4>1. Rejected'
        BY <3>2, <2>8 DEF Rejected
      <4> QED
        BY <3>2, <4>1
    <3>3. CASE /\ c.op # "BAD_SIGNATURE" /\ dev'.flags = {"CSW"} /\ ~dev'.rd /\ dev'.tx \in {"STALL", "NAK"}
               /\ dev'.rx = (IF DataFlag(c) = {"OUT"} THEN "STALL" ELSE "ACK")
      <4>1. Declined'
        BY <3>3, <2>9 DEF Declined
      <4> QED
        BY <3>3, <4>1, <2>9
    <3>4. CASE /\ DataFlag(c) = {"IN"} /\ dev'.op # "READ10" /\ dev'.flags \in {{"CSW"}, {"CSW", "IN"}} /\ ~dev'.rd
               /\ dev'.tx = "ACK" /\ dev'.rx = "ACK" /\ dev'.txbuf.kind = "data"
      <4>1. Answering'
        BY <3>4, <2>9 DEF Answering
      <4> QED
        BY <3>4, <4>1, <2>9
    <3>5. CASE DataFlag(c) = {"IN"} /\ dev'.flags = {"CSW", "IN"} /\ dev'.rd /\ dev'.tx = "NAK" /\ dev'.rx = "ACK"
      <4>1. ReadPhase'
        BY <3>5, <2>9 DEF ReadPhase
      <4> QED
        BY <3>5, <4>1, <2>9
    <3>6. CASE /\ DataFlag(c) = {"OUT"} /\ dev'.flags = {"CSW", "OUT"} /\ ~dev'.rd /\ dev'.left \in 1 .. c.len
               /\ dev'.tx = "NAK" /\ dev'.rx = "ACK"
      <4>1. DataPhase'
        BY <3>6, <2>9 DEF DataPhase, OutPhase
      <4> QED
        BY <3>6, <4>1, <2>9
    <3>7. CASE /\ DataFlag(c) = {} /\ dev'.flags = {} /\ ~dev'.rd /\ dev'.tx = "ACK" /\ dev'.rx = "ACK"
               /\ dev'.txbuf.kind = "csw"
      <4>1. CswQueued'
        BY <3>7, <2>9 DEF CswQueued
      <4> QED
        BY <3>7, <4>1, <2>9
    <3> QED
      BY <2>5, <3>2, <3>3, <3>4, <3>5, <3>6, <3>7 DEF Entered
  <2> QED
    BY <1>3, <2>6, <2>11 DEF IInv, Core
<1>5. CASE DataPhase /\ InCommand
  <2>1. d = [dev EXCEPT !.wr = TRUE]
    <3>1. "OUT" \in dev.flags
      BY <1>5 DEF DataPhase, OutPhase
    <3> QED
      BY <3>1 DEF d, BulkOut
  <2>2. /\ dev' \in Devs /\ dev'.flags = dev.flags /\ dev'.tx = dev.tx /\ dev'.left = dev.left
        /\ dev'.rd = dev.rd /\ dev'.wr /\ dev'.rx = "NAK" /\ d.wr
    BY <1>1, <1>3, <2>1 DEF Devs
  <2>3. WritePhase'
    BY <1>2, <1>5, <2>2 DEF DataPhase, OutPhase, WritePhase, Quiet, Polling
  <2> QED
    BY <1>2, <1>3, <1>5, <2>2, <2>3 DEF IInv, Core, Phases, InCommand, RxDue, Writes
<1>6. CASE CswQueued /\ InCommand
  <2>1. d = dev
    <3>1. "OUT" \notin dev.flags /\ rxbuf.kind # "cbw"
      BY <1>2, <1>6 DEF CswQueued
    <3> QED
      BY <3>1 DEF d, BulkOut
  <2>2. ~dev.wr
    BY <1>6 DEF CswQueued, Quiet
  <2>3. dev' = dev
    BY <1>1, <1>3, <2>1, <2>2 DEF Devs
  <2>4. CswQueued' /\ RxDue' = RxDue
    BY <1>2, <1>6, <2>3 DEF CswQueued, Quiet, Polling, InTail, RxDue, Writes, RefusesOut, AwaitsReset
  <2> QED
    BY <1>2, <1>3, <1>6, <2>3, <2>4 DEF IInv, Core, Phases, InCommand
<1> QED
  BY <1>2, <1>4, <1>5, <1>6 DEF IInv, Core, Phases, Idle, InCommand, Rejected, Declined, Answering,
     ReadPhase, WritePhase

----------------------------------------------------------------------------
(* Steps of the host.                                                      *)
LEMMA SendCbwStep ==
  ASSUME IInv, SendCbw
  PROVE  IInv'
<1>1. PICK c \in Commands : /\ cmd' = [tag |-> tag, cbw |-> c]
                            /\ rxbuf' = [kind |-> "cbw", cbw |-> cmd', val |-> "none"]
                            /\ host' = IF c.len = 0 THEN "csw" ELSE c.dir
  BY DEF SendCbw
<1>2. /\ host = "idle" /\ dev.rx = "ACK" /\ xfer = "none" /\ xfer' = "out" /\ tag' = 1 - tag
      /\ UNCHANGED <<dev, sent, irq, pc, reg, pstate, capacity, card>>
  BY DEF SendCbw, Busless, volVars
<1>3. Idle
  BY <1>2 DEF IInv, Core, Phases, InCommand, CbwSent, Rejected, Declined, Answering, ReadPhase,
     DataPhase, WritePhase, CswQueued
<1>4. ~Writes
  BY <1>2 DEF IInv, RxDue
<1>5. cmd' # NoCmd /\ cmd'.cbw = c /\ cmd'.tag = tag /\ tag \in {0, 1} /\ c.dir \in {"in", "out"}
  BY <1>1 DEF IInv, Core, Others
<1>6. CbwSent'
  BY <1>1, <1>2, <1>3, <1>4, <1>5 DEF CbwSent, Idle, Quiet, Polling, InTail, Writes
<1>7. RxDue' = "ACK"
  BY <1>2, <1>3, <1>4 DEF RxDue, Writes, RefusesOut, AwaitsReset, Idle
<1>8. Others'
  BY <1>1, <1>2, <1>5 DEF IInv, Core, Others
<1> QED
  BY <1>1, <1>2, <1>5, <1>6, <1>7, <1>8 DEF IInv, Core, Phases, InCommand

\* A packet of the host's data is one of the values of a sector.
LEMMA PacketFacts ==
  ASSUME NEW c \in Commands, c.dir = "out", NEW i \in 1 .. c.len
  PROVE  c.data[i] \in Values
BY DEF Values, Packets

LEMMA SendDataStep ==
  ASSUME IInv, SendData
  PROVE  IInv'
<1>1. /\ host = "out" /\ dev.rx = "ACK" /\ xfer = "none" /\ xfer' = "out" /\ sent' = sent + 1
      /\ rxbuf' = [kind |-> "data", cbw |-> NoCmd, val |-> cmd.cbw.data[sent + 1]]
      /\ host' = IF sent' = cmd.cbw.len THEN "csw" ELSE "out"
      /\ UNCHANGED <<dev, cmd, tag, irq, pc, reg, pstate, capacity, card>>
  BY DEF SendData, Busless, volVars
<1>2. Others' /\ reg' = {} /\ dev' \in Devs
  BY <1>1 DEF IInv, Core, Others
<1>3. ~Writes /\ ~RefusesOut /\ ~AwaitsReset
  BY <1>1 DEF IInv, RxDue
<1>4. RxDue' = "ACK"
  BY <1>1, <1>3 DEF RxDue, Writes, RefusesOut, AwaitsReset
<1>5. CASE DataPhase /\ InCommand
  <2>1. sent = 0 /\ cmd.cbw.dir = "out" /\ cmd.cbw \in Commands /\ cmd.cbw.len > 0
    BY <1>1, <1>5 DEF DataPhase, OutPhase, InCommand
  <2>2. rxbuf'.val \in Values
    <3>1. 1 \in 1 .. cmd.cbw.len
      BY <2>1
    <3> QED
      BY <1>1, <2>1, <3>1, PacketFacts
  <2>3. DataPhase'
    BY <1>1, <1>5, <2>2 DEF DataPhase, OutPhase, Quiet, Polling
  <2> QED
    BY <1>1, <1>2, <1>4, <1>5, <2>3 DEF IInv, Core, Phases, InCommand
<1>6. CASE CswQueued /\ InCommand
  <2>1. CswQueued'
    BY <1>1, <1>6 DEF CswQueued, Quiet, Polling, InTail
  <2> QED
    BY <1>1, <1>2, <1>4, <1>6, <2>1 DEF IInv, Core, Phases, InCommand
<1> QED
  BY <1>1, <1>3, <1>5, <1>6 DEF IInv, Core, Phases, Idle, InCommand, CbwSent, Rejected, Declined,
     Answering, ReadPhase, WritePhase, RefusesOut, AwaitsReset, Writes

LEMMA TakeDataStep ==
  ASSUME Core, TakeData
  PROVE  Core' /\ dev' = dev /\ RxDue' = RxDue
<1>1. /\ host = "in" /\ dev.tx = "ACK" /\ xfer = "none" /\ dev.txbuf.kind = "data"
      /\ host' = "csw" /\ xfer' = "in"
      /\ UNCHANGED <<dev, rxbuf, cmd, sent, tag, irq, pc, reg, pstate, capacity, card>>
  BY DEF TakeData, Busless, volVars
<1>2. Others' /\ reg' = {}
  BY <1>1 DEF Core, Others
<1>3. Answering /\ InCommand
  BY <1>1 DEF Core, Phases, Idle, InCommand, CbwSent, Rejected, Declined,
     ReadPhase, DataPhase, OutPhase, WritePhase, CswQueued
<1>4. Answering'
  BY <1>1, <1>3 DEF Answering, Quiet, Polling
<1>5. RxDue' = RxDue
  BY <1>1 DEF RxDue, Writes, RefusesOut, AwaitsReset
<1> QED
  BY <1>1, <1>2, <1>3, <1>4, <1>5 DEF Core, Phases, InCommand

LEMMA TakeCswStep ==
  ASSUME Core, TakeCsw
  PROVE  Core' /\ dev' = dev /\ RxDue' = RxDue
<1>1. /\ host \in {"in", "csw"} /\ dev.tx = "ACK" /\ xfer = "none" /\ dev.txbuf.kind = "csw"
      /\ host' = "idle" /\ xfer' = "in" /\ cmd' = NoCmd /\ sent' = 0
      /\ UNCHANGED <<dev, rxbuf, tag, irq, pc, reg, pstate, capacity, card>>
  BY DEF TakeCsw, Busless, volVars
<1>2. Others' /\ reg' = {}
  BY <1>1 DEF Core, Others
<1>3. CswQueued
  BY <1>1 DEF Core, Phases, Idle, InCommand, CbwSent, Rejected, Declined,
     Answering, ReadPhase, DataPhase, OutPhase, WritePhase
<1>4. Idle'
  BY <1>1, <1>3 DEF CswQueued, Idle, Quiet, Polling, InTail
<1>5. RxDue' = RxDue
  BY <1>1 DEF RxDue, Writes, RefusesOut, AwaitsReset
<1> QED
  BY <1>1, <1>2, <1>4, <1>5 DEF Core, Phases

LEMMA ClearHaltOutStep ==
  ASSUME IInv, ClearHaltOut
  PROVE  IInv'
<1>1. /\ host = "out" /\ dev.rx = "STALL" /\ xfer = "none" /\ cmd.cbw.op # "BAD_SIGNATURE"
      /\ dev' = [dev EXCEPT !.rx = "ACK"] /\ host' = "csw"
      /\ UNCHANGED <<rxbuf, xfer, cmd, sent, tag, irq, pc, reg, pstate, capacity, card>>
  BY DEF ClearHaltOut, Busless, volVars
<1>2. /\ dev' \in Devs /\ dev'.rx = "ACK" /\ dev'.flags = dev.flags /\ dev'.tx = dev.tx
      /\ dev'.rd = dev.rd /\ dev'.wr = dev.wr
  BY <1>1 DEF IInv, Core, Devs
<1>3. Others' /\ reg' = {}
  BY <1>1 DEF IInv, Core, Others
<1>4. ~Writes /\ (RefusesOut \/ AwaitsReset)
  BY <1>1 DEF IInv, RxDue
<1>5. Declined /\ InCommand
  BY <1>1, <1>4 DEF IInv, Core, Phases, Idle, InCommand, CbwSent, Rejected, Answering, ReadPhase,
     DataPhase, OutPhase, WritePhase, CswQueued, RefusesOut, AwaitsReset
<1>6. Declined'
  BY <1>1, <1>2, <1>5 DEF Declined, Quiet, Polling
<1>7. RxDue' = "ACK"
  BY <1>1, <1>2, <1>4, <1>5 DEF RxDue, Writes, RefusesOut, AwaitsReset, Declined
<1> QED
  BY <1>1, <1>2, <1>3, <1>5, <1>6, <1>7 DEF IInv, Core, Phases, InCommand

LEMMA ClearHaltInStep ==
  ASSUME IInv, ClearHaltIn
  PROVE  IInv'
<1> DEFINE d == [dev EXCEPT !.tx = "NAK"]
<1>1. /\ host \in {"in", "csw"} /\ dev.tx = "STALL" /\ xfer = "none" /\ cmd.cbw.op # "BAD_SIGNATURE"
      /\ dev' = BulkIn(d) /\ host' = "csw"
      /\ UNCHANGED <<rxbuf, xfer, cmd, sent, tag, irq, pc, reg, pstate, capacity, card>>
  BY DEF ClearHaltIn, Busless, volVars
<1>2. /\ d \in Devs /\ d.rx = dev.rx /\ d.flags = dev.flags
      /\ d.rd = dev.rd /\ d.wr = dev.wr
  BY <1>1 DEF IInv, Core, Devs
<1> HIDE DEF d
<1>3. Others' /\ reg' = {}
  BY <1>1 DEF IInv, Core, Others
<1>4. Declined /\ InCommand
  BY <1>1 DEF IInv, Core, Phases, Idle, InCommand, CbwSent, Rejected, Answering, ReadPhase,
     DataPhase, OutPhase, WritePhase, CswQueued
<1>5. dev' = SendCsw(d)
  BY <1>1, <1>2, <1>4, BulkInFacts DEF Declined
<1>6. CswQueued'
  BY <1>1, <1>2, <1>4, <1>5, SendCswFacts DEF Declined, CswQueued, Quiet, Polling
<1>7. RxDue = "ACK" /\ RxDue' = "ACK"
  BY <1>1, <1>2, <1>4, <1>5, SendCswFacts
     DEF RxDue, Writes, RefusesOut, AwaitsReset, Declined, Quiet, Polling, Streams
<1> QED
  BY <1>1, <1>2, <1>3, <1>4, <1>5, <1>6, <1>7, SendCswFacts DEF IInv, Core, Phases, InCommand

LEMMA ResetRecoveryStep ==
  ASSUME IInv, ResetRecovery
  PROVE  IInv'
<1>1. /\ host # "idle" /\ dev.tx = "STALL" /\ cmd.cbw.op = "BAD_SIGNATURE"
      /\ dev' = [dev EXCEPT !.tx = "NAK", !.rx = "ACK"]
      /\ host' = "idle" /\ cmd' = NoCmd /\ sent' = 0
      /\ UNCHANGED <<rxbuf, xfer, tag, irq, pc, reg, pstate, capacity, card>>
  BY DEF ResetRecovery, Busless, volVars
<1>2. /\ dev' \in Devs /\ dev'.rx = "ACK" /\ dev'.flags = dev.flags /\ dev'.tx = "NAK"
      /\ dev'.rd = dev.rd /\ dev'.wr = dev.wr
  BY <1>1 DEF IInv, Core, Devs
<1>3. Others' /\ reg' = {}
  BY <1>1 DEF IInv, Core, Others
<1>4. Rejected
  BY <1>1 DEF IInv, Core, Phases, Idle, InCommand, CbwSent, Declined, Answering, ReadPhase,
     DataPhase, OutPhase, WritePhase, CswQueued
<1>5. Idle' /\ RxDue' = "ACK"
  BY <1>1, <1>2, <1>4
     DEF Rejected, Idle, Quiet, Polling, InTail, RxDue, Writes, RefusesOut, AwaitsReset, Streams
<1> QED
  BY <1>2, <1>3, <1>5 DEF IInv, Core, Phases

----------------------------------------------------------------------------
(* Steps of the main loop.                                                 *)
LEMMA PollReadStep ==
  ASSUME IInv, PollRead
  PROVE  IInv'
<1>1. /\ pc = "poll" /\ pc' = (IF dev.rd THEN "read" ELSE "pollWrite") /\ irq' = ~dev.rd
      /\ dev' = [dev EXCEPT !.rd = FALSE]
      /\ UNCHANGED <<rxbuf, xfer, host, cmd, sent, tag, reg, pstate, capacity, card>>
  BY DEF PollRead, Goto, volVars, hostVars
<1>2. /\ dev' \in Devs /\ ~dev'.rd /\ dev'.flags = dev.flags /\ dev'.tx = dev.tx /\ dev'.rx = dev.rx
      /\ dev'.wr = dev.wr /\ dev'.left = dev.left /\ dev'.op = dev.op /\ dev'.txbuf = dev.txbuf
      /\ dev.rd \in BOOLEAN
  BY <1>1 DEF IInv, Core, Devs
<1>3. Others' /\ reg' = {}
  BY <1>1, <1>2 DEF IInv, Core, Others
<1>4. RxDue' = RxDue
  BY <1>1, <1>2 DEF RxDue, Writes, RefusesOut, AwaitsReset
<1>5. CASE dev.rd
  <2>1. ReadPhase /\ InCommand
    BY <1>5 DEF IInv, Core, Phases, Idle, InCommand, CbwSent, Rejected, Declined, Answering,
       DataPhase, WritePhase, CswQueued, Quiet
  <2>2. ReadPhase'
    BY <1>1, <1>2, <1>5, <2>1 DEF ReadPhase
  <2> QED
    BY <1>1, <1>2, <1>3, <1>4, <2>1, <2>2 DEF IInv, Core, Phases, InCommand
<1>6. CASE ~dev.rd
  <2>1. Polling' /\ pc' = "pollWrite"
    BY <1>1, <1>2, <1>6 DEF Polling, Streams
  <2>2. Phases'
    BY <1>1, <1>2, <1>6, <2>1 DEF IInv, Core, Phases, Idle, InCommand, CbwSent, Rejected, Declined,
       Answering, ReadPhase, DataPhase, OutPhase, WritePhase, CswQueued, Quiet, InTail
  <2> QED
    BY <1>2, <1>3, <1>4, <2>2 DEF IInv, Core
<1> QED
  BY <1>5, <1>6

LEMMA ReadStreamStep ==
  ASSUME IInv, ReadStream
  PROVE  IInv'
<1>1. /\ pc = "read" /\ pc' = "readCsw" /\ irq' = TRUE /\ host = "in" /\ host' = "csw"
      /\ dev' = [dev EXCEPT !.left = 0, !.lba = @ + dev.left, !.tx = "NAK"]
      /\ UNCHANGED <<rxbuf, xfer, cmd, sent, tag, reg, pstate, capacity, card>>
  BY DEF ReadStream, Goto, volVars
<1>2. dev.lba + dev.left \in Nat /\ 0 \in 0 .. CARD
  BY DEF IInv, Core, Devs
<1>3. /\ dev' \in Devs /\ dev'.rd = dev.rd /\ dev'.flags = dev.flags /\ dev'.tx = "NAK"
      /\ dev'.rx = dev.rx /\ dev'.wr = dev.wr
  BY <1>1, <1>2 DEF IInv, Core, Devs
<1>4. Others' /\ reg' = {}
  BY <1>1 DEF IInv, Core, Others
<1>5. ReadPhase /\ InCommand /\ ~dev.rd
  BY <1>1 DEF IInv, Core, Phases, Idle, InCommand, CbwSent, Rejected, Declined, Answering, ReadPhase,
     DataPhase, WritePhase, CswQueued, Polling, Streams, InTail
<1>6. ReadPhase'
  BY <1>1, <1>3, <1>5 DEF ReadPhase
<1>7. RxDue' = RxDue
  BY <1>1, <1>3, <1>5 DEF RxDue, Writes, RefusesOut, AwaitsReset, ReadPhase
<1> QED
  BY <1>1, <1>3, <1>4, <1>5, <1>6, <1>7 DEF IInv, Core, Phases, InCommand

LEMMA ReadCswStep ==
  ASSUME IInv, ReadCsw
  PROVE  IInv'
<1>1. /\ pc = "readCsw" /\ pc' = "tail" /\ dev' = SendCsw(dev)
      /\ UNCHANGED <<rxbuf, xfer, irq, host, cmd, sent, tag, reg, pstate, capacity, card>>
  BY DEF ReadCsw, Goto, volVars, hostVars
<1>2. /\ dev' \in Devs /\ dev'.flags = {} /\ dev'.tx = "ACK" /\ dev'.txbuf.kind = "csw"
      /\ dev'.rd = dev.rd /\ dev'.wr = dev.wr /\ dev'.rx = dev.rx
  BY <1>1, SendCswFacts DEF IInv, Core
<1>3. Others' /\ reg' = {}
  BY <1>1 DEF IInv, Core, Others
<1>4. ReadPhase /\ InCommand /\ host = "csw"
  BY <1>1 DEF IInv, Core, Phases, Idle, InCommand, CbwSent, Rejected, Declined, Answering, ReadPhase,
     DataPhase, WritePhase, CswQueued, Polling, Streams, InTail
<1>5. CswQueued'
  BY <1>1, <1>2, <1>4 DEF ReadPhase, CswQueued, Quiet, InTail
<1>6. RxDue' = RxDue
  BY <1>1, <1>2, <1>4 DEF RxDue, Writes, RefusesOut, AwaitsReset, ReadPhase
<1> QED
  BY <1>1, <1>2, <1>3, <1>4, <1>5, <1>6 DEF IInv, Core, Phases, InCommand

\* The transfer flags are empty whenever they are read and stored again.
LEMMA TailFlags ==
  ASSUME IInv, InTail
  PROVE  dev.flags = {}
BY DEF IInv, Core, Phases, Idle, InCommand, CbwSent, Rejected, Declined, Answering, ReadPhase,
   DataPhase, WritePhase, CswQueued, Polling, Streams, InTail

LEMMA TailLoadStep ==
  ASSUME IInv, TailLoad
  PROVE  IInv'
<1>1. /\ pc = "tail" /\ pc' = "tailStore" /\ reg' = dev.flags \ {"IN"}
      /\ UNCHANGED <<dev, rxbuf, xfer, irq, host, cmd, sent, tag, pstate, capacity, card>>
  BY DEF TailLoad, Goto, volVars, hostVars
<1>2. dev.flags = {} /\ InTail /\ InTail'
  BY <1>1, TailFlags DEF InTail
<1>3. Others' /\ reg' = {}
  BY <1>1, <1>2 DEF IInv, Core, Others
<1>4. RxDue' = RxDue
  BY <1>1 DEF RxDue, Writes, RefusesOut, AwaitsReset
<1>5. Phases'
  BY <1>1, <1>2 DEF IInv, Core, Phases, Idle, InCommand, CbwSent, Rejected, Declined, Answering,
     ReadPhase, DataPhase, OutPhase, WritePhase, CswQueued, Quiet, Polling, Streams
<1> QED
  BY <1>1, <1>3, <1>4, <1>5 DEF IInv, Core

LEMMA TailStoreStep ==
  ASSUME IInv, TailStore
  PROVE  IInv'
<1>1. /\ pc = "tailStore" /\ pc' = "pollWrite" /\ reg' = {} /\ dev' = [dev EXCEPT !.flags = reg]
      /\ UNCHANGED <<rxbuf, xfer, irq, host, cmd, sent, tag, pstate, capacity, card>>
  BY DEF TailStore, Goto, volVars, hostVars
<1>2. dev.flags = {} /\ InTail /\ Polling'
  BY <1>1, TailFlags DEF InTail, Polling, Streams
<1>3. dev' = dev
  BY <1>1, <1>2 DEF IInv, Core, Devs
<1>4. Others'
  BY <1>1 DEF IInv, Core, Others
<1>5. RxDue' = RxDue
  BY <1>1, <1>3 DEF RxDue, Writes, RefusesOut, AwaitsReset
<1>6. Phases'
  BY <1>1, <1>2, <1>3 DEF IInv, Core, Phases, Idle, InCommand, CbwSent, Rejected, Declined, Answering,
     ReadPhase, DataPhase, OutPhase, WritePhase, CswQueued, Quiet, Polling, InTail, Streams
<1> QED
  BY <1>1, <1>3, <1>4, <1>5, <1>6 DEF IInv, Core

LEMMA PollWriteStep ==
  ASSUME IInv, PollWrite
  PROVE  IInv'
<1>1. /\ pc = "pollWrite" /\ pc' = (IF dev.wr THEN "write" ELSE "pollUnlock") /\ irq' = ~dev.wr
      /\ dev' = [dev EXCEPT !.wr = FALSE]
      /\ UNCHANGED <<rxbuf, xfer, host, cmd, sent, tag, reg, pstate, capacity, card>>
  BY DEF PollWrite, Goto, volVars, hostVars
<1>2. /\ dev' \in Devs /\ ~dev'.wr /\ dev'.flags = dev.flags /\ dev'.tx = dev.tx /\ dev'.rx = dev.rx
      /\ dev'.rd = dev.rd /\ dev'.left = dev.left /\ dev'.op = dev.op /\ dev'.txbuf = dev.txbuf
      /\ dev.wr \in BOOLEAN
  BY <1>1 DEF IInv, Core, Devs
<1>3. Others' /\ reg' = {}
  BY <1>1, <1>2 DEF IInv, Core, Others
<1>4. RxDue' = RxDue
  BY <1>1, <1>2 DEF RxDue, Writes, RefusesOut, AwaitsReset
<1>5. CASE dev.wr
  <2>1. WritePhase /\ InCommand
    BY <1>5 DEF IInv, Core, Phases, Idle, InCommand, CbwSent, Rejected, Declined, Answering,
       ReadPhase, DataPhase, CswQueued, Quiet
  <2>2. WritePhase'
    BY <1>1, <1>2, <1>5, <2>1 DEF WritePhase, OutPhase
  <2> QED
    BY <1>1, <1>2, <1>3, <1>4, <2>1, <2>2 DEF IInv, Core, Phases, InCommand
<1>6. CASE ~dev.wr
  <2>1. Polling' /\ pc' = "pollUnlock"
    BY <1>1, <1>2, <1>6 DEF Polling, Streams
  <2>2. Phases'
    BY <1>1, <1>2, <1>6, <2>1 DEF IInv, Core, Phases, Idle, InCommand, CbwSent, Rejected, Declined,
       Answering, ReadPhase, DataPhase, OutPhase, WritePhase, CswQueued, Quiet, InTail
  <2> QED
    BY <1>2, <1>3, <1>4, <2>2 DEF IInv, Core
<1> QED
  BY <1>5, <1>6

\* The card keeps its type under the first k packets of a write.
LEMMA OnCardFacts ==
  ASSUME IInv, WritePhase, InCommand, pc = "write", NEW k \in 0 .. dev.left
  PROVE  OnCard(k) \in [0 .. CARD - 1 -> [val : Values, enc : BOOLEAN]]
<1>1. /\ rxbuf.val \in Values /\ cmd.cbw.dir = "out" /\ cmd.cbw \in Commands
      /\ dev.left \in 1 .. cmd.cbw.len
  BY DEF WritePhase, OutPhase, InCommand, Polling, Streams
<1>2. PhysicalLba(dev.lba) \in Nat /\ k \in Nat
  BY DEF PhysicalLba, IInv, Core, Devs
<1>3. card \in [0 .. CARD - 1 -> [val : Values, enc : BOOLEAN]]
  BY DEF IInv, Core, Others
<1>4. ASSUME NEW p \in 0 .. CARD - 1,
             p \in PhysicalLba(dev.lba) .. PhysicalLba(dev.lba) + k - 1
      PROVE  Stored(Packet(p - PhysicalLba(dev.lba) + 1)) \in [val : Values, enc : BOOLEAN]
  <2> DEFINE i == p - PhysicalLba(dev.lba) + 1
  <2>1. i \in 1 .. cmd.cbw.len
    BY <1>1, <1>2, <1>4
  <2> HIDE DEF i
  <2>2. Packet(i) \in Values
    BY <1>1, <2>1, PacketFacts DEF Packet
  <2>3. "scrubbed" \in Values
    BY DEF Values
  <2> QED
    BY <2>2, <2>3 DEF Stored, i
<1> QED
  BY <1>3, <1>4 DEF OnCard

LEMMA WriteStreamStep ==
  ASSUME IInv, WriteStream \/ WriteFails
  PROVE  IInv'
<1>1. PICK r \in Nat : Streamed(r)
  BY DEF WriteStream, WriteFails, Least, IInv, Core, Devs
<1>2. /\ pstate' = Snooped(r) /\ host' \in {"csw", "out"} /\ irq' = TRUE
      /\ UNCHANGED <<xfer, reg, capacity, cmd, tag>>
  BY <1>1 DEF Streamed
<1>3. pc = "write" /\ pc' = "writeCsw"
  BY DEF WriteStream, WriteFails, Goto
<1>4. WritePhase /\ InCommand /\ ~dev.wr
  BY <1>3 DEF IInv, Core, Phases, Idle, InCommand, CbwSent, Rejected, Declined, Answering, ReadPhase,
     DataPhase, WritePhase, CswQueued, Polling, Streams, InTail
<1>5. card' \in [0 .. CARD - 1 -> [val : Values, enc : BOOLEAN]]
  <2>1. CASE WriteStream
    <3>1. card' = OnCard(dev.left) /\ dev.left \in 0 .. dev.left
      BY <2>1 DEF WriteStream, IInv, Core, Devs
    <3> QED
      BY <1>3, <1>4, <3>1, OnCardFacts
  <2>2. CASE WriteFails
    <3>1. PICK j \in 0 .. dev.left - 1, k \in 0 .. CHUNK - 1 :
                 j * CHUNK + k < dev.left /\ card' = OnCard(j * CHUNK + k)
      BY <2>2 DEF WriteFails
    <3>2. j * CHUNK \in Nat /\ k \in Nat /\ dev.left \in Nat
      BY DEF IInv, Core, Devs
    <3>3. j * CHUNK + k \in 0 .. dev.left
      BY <3>1, <3>2
    <3> QED
      BY <1>3, <1>4, <3>1, <3>3, OnCardFacts
  <2> QED
    BY <2>1, <2>2
<1>6. /\ dev' \in Devs /\ dev'.flags = dev.flags /\ dev'.tx = dev.tx /\ dev'.rx = dev.rx
      /\ dev'.rd = dev.rd /\ dev'.wr = dev.wr
  <2> DEFINE e == [dev EXCEPT !.left = 0]
  <2>1. /\ e \in Devs /\ e.flags = dev.flags /\ e.tx = dev.tx /\ e.rx = dev.rx
        /\ e.rd = dev.rd /\ e.wr = dev.wr
    BY DEF IInv, Core, Devs
  <2>2. dev' = e \/ dev' = SetSense(e, "write", "failed")
    BY DEF WriteStream, WriteFails
  <2> HIDE DEF e
  <2> QED
    BY <2>1, <2>2, SenseFacts DEF Senses, Status
<1>7. pstate' \in {"LOCKED", "PENDING", "UNLOCKED"}
  BY <1>2 DEF Snooped, IInv, Core, Others
<1>8. Others' /\ reg' = {}
  BY <1>2, <1>5, <1>7 DEF IInv, Core, Others
<1>9. WritePhase'
  BY <1>2, <1>3, <1>4, <1>6 DEF WritePhase
<1>10. RxDue = "NAK" /\ RxDue' = "NAK"
  BY <1>3 DEF RxDue, Writes
<1> QED
  BY <1>2, <1>4, <1>6, <1>8, <1>9, <1>10 DEF IInv, Core, Phases, InCommand

LEMMA WriteCswStep ==
  ASSUME IInv, WriteCsw
  PROVE  IInv'
<1>1. /\ pc = "writeCsw" /\ pc' = "rearm" /\ dev' = SendCsw(dev)
      /\ UNCHANGED <<rxbuf, xfer, irq, host, cmd, sent, tag, reg, pstate, capacity, card>>
  BY DEF WriteCsw, Goto, volVars, hostVars
<1>2. /\ dev' \in Devs /\ dev'.flags = {} /\ dev'.tx = "ACK" /\ dev'.txbuf.kind = "csw"
      /\ dev'.rd = dev.rd /\ dev'.wr = dev.wr /\ dev'.rx = dev.rx
  BY <1>1, SendCswFacts DEF IInv, Core
<1>3. Others' /\ reg' = {}
  BY <1>1 DEF IInv, Core, Others
<1>4. WritePhase /\ InCommand /\ ~dev.wr
  BY <1>1 DEF IInv, Core, Phases, Idle, InCommand, CbwSent, Rejected, Declined, Answering, ReadPhase,
     DataPhase, WritePhase, CswQueued, Polling, Streams, InTail
<1>5. CswQueued'
  BY <1>1, <1>2, <1>4 DEF WritePhase, CswQueued, Quiet
<1>6. RxDue = "NAK" /\ RxDue' = "NAK"
  BY <1>1 DEF RxDue, Writes
<1> QED
  BY <1>1, <1>2, <1>3, <1>4, <1>5, <1>6 DEF IInv, Core, Phases, InCommand

LEMMA RearmStep ==
  ASSUME IInv, Rearm
  PROVE  IInv'
<1>1. /\ pc = "rearm" /\ pc' = "pollUnlock" /\ dev' = [dev EXCEPT !.rx = "ACK"]
      /\ UNCHANGED <<rxbuf, xfer, irq, host, cmd, sent, tag, reg, pstate, capacity, card>>
  BY DEF Rearm, Goto, volVars, hostVars
<1>2. /\ dev' \in Devs /\ dev'.rx = "ACK" /\ dev'.flags = dev.flags /\ dev'.tx = dev.tx
      /\ dev'.txbuf = dev.txbuf /\ dev'.rd = dev.rd /\ dev'.wr = dev.wr
  BY <1>1 DEF IInv, Core, Devs
<1>3. Others' /\ reg' = {}
  BY <1>1 DEF IInv, Core, Others
<1>4. Polling'
  BY <1>1 DEF Polling, Streams
<1>5. Idle \/ (CswQueued /\ InCommand)
  BY <1>1 DEF IInv, Core, Phases, InCommand, CbwSent, Rejected, Declined, Answering, ReadPhase,
     DataPhase, WritePhase, Polling, Streams, InTail
<1>6. CASE Idle
  <2>1. Idle' /\ RxDue' = "ACK"
    BY <1>1, <1>2, <1>4, <1>6 DEF Idle, Quiet, RxDue, Writes, RefusesOut, AwaitsReset
  <2> QED
    BY <1>2, <1>3, <2>1 DEF IInv, Core, Phases
<1>7. CASE CswQueued /\ InCommand
  <2>1. CswQueued' /\ RxDue' = "ACK"
    BY <1>1, <1>2, <1>4, <1>7 DEF CswQueued, Quiet, RxDue, Writes, RefusesOut, AwaitsReset
  <2> QED
    BY <1>1, <1>2, <1>3, <1>7, <2>1 DEF IInv, Core, Phases, InCommand
<1> QED
  BY <1>5, <1>6, <1>7

----------------------------------------------------------------------------
(* A step that moves the main loop between places where it polls.          *)
LEMMA PollingStep ==
  ASSUME Core, pc \notin Streams, pc' \notin Streams, Others', reg' = {},
         UNCHANGED <<rxbuf, xfer, host, cmd, sent>>, dev' \in Devs,
         dev'.flags = dev.flags, dev'.tx = dev.tx, dev'.rd = dev.rd, dev'.wr = dev.wr,
         dev'.left = dev.left, dev'.op = dev.op, dev'.txbuf = dev.txbuf
  PROVE  Core' /\ RxDue' = RxDue
<1>1. RxDue' = RxDue
  BY DEF RxDue, Writes, RefusesOut, AwaitsReset, Streams
<1>2. Phases'
  BY DEF Core, Phases, Idle, InCommand, CbwSent, Rejected, Declined, Answering,
     ReadPhase, DataPhase, OutPhase, WritePhase, CswQueued, Quiet, Polling, InTail, Streams
<1> QED
  BY <1>1, <1>2 DEF Core

LEMMA InitIInv ==
  ASSUME Init
  PROVE  IInv
<1>1. NoBuffer \in Buffers /\ NoReply \in Replies
  BY DEF NoBuffer, Buffers, NoReply, Reply, Replies, Ops, Senses, Status
<1>2. dev \in Devs
  BY <1>1 DEF Init, Devs, Flags, Senses, Status, Ops
<1>3. [p \in 0 .. CARD - 1 |-> [val |-> "zero", enc |-> p >= LOCKED]]
        \in [0 .. CARD - 1 -> [val : Values, enc : BOOLEAN]]
  <2>1. "zero" \in Values
    BY DEF Values
  <2> QED
    BY <2>1
<1>4. Others
  BY <1>3 DEF Init, Others, HiddenSize
<1>5. Idle /\ dev.rx = RxDue
  BY DEF Init, Idle, Quiet, Polling, Streams, RxDue, Writes, RefusesOut, AwaitsReset
<1> QED
  BY <1>2, <1>4, <1>5 DEF Init, IInv, Core, Phases

LEMMA SkipStep ==
  ASSUME IInv, SkipUnlock
  PROVE  IInv'
<1>1. /\ pc = "pollUnlock" /\ pc' = "poll"
      /\ UNCHANGED <<dev, rxbuf, xfer, irq, host, cmd, sent, tag, reg, pstate, capacity, card>>
  BY DEF SkipUnlock, Goto, volVars, hostVars
<1>2. dev' \in Devs /\ Others' /\ reg' = {}
  BY <1>1 DEF IInv, Core, Others
<1> QED
  BY <1>1, <1>2, PollingStep DEF IInv, Streams

LEMMA StutterStep ==
  ASSUME IInv, UNCHANGED vars
  PROVE  IInv'
BY DEF vars, volVars, hostVars, IInv, Core, Others, Phases, Idle, InCommand, CbwSent, Rejected, Declined,
   Answering, ReadPhase, DataPhase, OutPhase, WritePhase, CswQueued, Quiet, Polling, InTail,
   RxDue, Writes, RefusesOut, AwaitsReset

LEMMA TransferStep ==
  ASSUME IInv, Transfer
  PROVE  IInv'
BY PollReadStep, ReadStreamStep, ReadCswStep, TailLoadStep, TailStoreStep, PollWriteStep,
   WriteStreamStep, WriteCswStep, RearmStep DEF Transfer

LEMMA HostStep ==
  ASSUME IInv, HostGoesOn
  PROVE  IInv'
BY SendDataStep, TakeDataStep, TakeCswStep, ClearHaltOutStep, ClearHaltInStep, ResetRecoveryStep
   DEF HostGoesOn, IInv

LEMMA IsrStep ==
  ASSUME IInv, Isr, ~TailInterrupted
  PROVE  IInv'
BY IsrInStep, IsrOutStep DEF Isr, IInv

LEMMA StepIInv ==
  ASSUME IInv, [Next]_vars, ~TailInterrupted
  PROVE  IInv'
BY IsrStep, SendCbwStep, HostStep, TransferStep, SkipStep, StutterStep DEF Next, Main

LEMMA IInvTypes ==
  ASSUME IInv
  PROVE  TypeOK
BY DEF IInv, Core, Others, Devs, Flags, TypeOK

LEMMA IInvIdle ==
  ASSUME Core, UsbIsIdle
  PROVE  cmd = NoCmd
<1>1. dev.flags = {} /\ dev.tx = "NAK" /\ xfer = "none"
  BY DEF UsbIsIdle
<1>2. ~InCommand
  BY <1>1 DEF InCommand, CbwSent, Rejected, Declined, Answering, ReadPhase,
     DataPhase, OutPhase, WritePhase, CswQueued
<1> QED
  BY <1>2 DEF Core, Phases, Idle

THEOREM AlwaysIInv == ~TailInterrupted => (Spec => []IInv)
<1> SUFFICES ASSUME ~TailInterrupted PROVE Spec => []IInv
  OBVIOUS
<1>1. Init => IInv
  BY InitIInv
<1>2. IInv /\ [Next]_vars => IInv'
  BY StepIInv
<1> QED
  BY <1>1, <1>2, PTL DEF Spec

(* Types hold throughout, for every medium and every set of CBWs.          *)
THEOREM TypesHold == ~TailInterrupted => (Spec => []TypeOK)
<1>1. IInv => TypeOK
  BY IInvTypes
<1> QED
  BY <1>1, AlwaysIInv, PTL

(* bot_usb_is_idle never says idle while a command is in progress: not in  *)
(* the moment between a CBW's arrival and its parsing, nor with a data     *)
(* phase or a CSW under way.                                               *)
THEOREM IdleVerdictRight == ~TailInterrupted => (Spec => []IdleMeansNoCommand)
<1>1. IInv => IdleMeansNoCommand
  BY IInvIdle DEF IInv, IdleMeansNoCommand
<1> QED
  BY <1>1, AlwaysIInv, PTL

----------------------------------------------------------------------------
(* Bounded commands.  The host has sent what the phase says it has.        *)
Place ==
  /\ pc \in Streams \cup {"poll", "pollWrite", "pollUnlock"}
  /\ irq <=> pc \notin {"read", "write"}
FirstOut == xfer = "out" \/ dev.wr \/ pc = "write"
Sending ==
  /\ host = "out" => sent \in 0 .. cmd.cbw.len - 1
  /\ "OUT" \in dev.flags /\ FirstOut => sent = 1 /\ (host = "csw" <=> cmd.cbw.len = 1)

\* The terms of Effort.
OutLeft == IF host = "out" THEN 2 * (cmd.cbw.len - sent) ELSE 0
HostLeft == IF host \in {"out", "in"} THEN 4 ELSE IF host = "csw" THEN 2 ELSE 0
BusLeft == IF xfer = "none" THEN 0 ELSE IF xfer = "out" /\ rxbuf.kind = "cbw" THEN 8 ELSE 1
HaltLeft == IF dev.tx = "STALL" THEN 1 ELSE 0
QueueLeft == IF dev.rd THEN 6 ELSE IF AtPolls /\ "OUT" \in dev.flags THEN 4 ELSE 0
LoopLeft ==
  IF AtPolls THEN 0
  ELSE [read |-> 5, readCsw |-> 4, tail |-> 2, tailStore |-> 1,
        write |-> 3, writeCsw |-> 2, rearm |-> 1][pc]

LEMMA EffortIs ==
  Effort = ((((OutLeft + HostLeft) + BusLeft) + HaltLeft) + QueueLeft) + LoopLeft
BY DEF Effort, OutLeft, HostLeft, BusLeft, HaltLeft, QueueLeft, LoopLeft

LEMMA EffortNext ==
  Effort' = ((((OutLeft' + HostLeft') + BusLeft') + HaltLeft') + QueueLeft') + LoopLeft'
BY DEF Effort, OutLeft, HostLeft, BusLeft, HaltLeft, QueueLeft, LoopLeft

LEMMA LoopIs ==
  /\ AtPolls => LoopLeft = 0
  /\ pc = "read" => LoopLeft = 5
  /\ pc = "readCsw" => LoopLeft = 4
  /\ pc = "tail" => LoopLeft = 2
  /\ pc = "tailStore" => LoopLeft = 1
  /\ pc = "write" => LoopLeft = 3
  /\ pc = "writeCsw" => LoopLeft = 2
  /\ pc = "rearm" => LoopLeft = 1
BY DEF LoopLeft, AtPolls

LEMMA LoopNext ==
  /\ AtPolls' => LoopLeft' = 0
  /\ pc' = "read" => LoopLeft' = 5
  /\ pc' = "readCsw" => LoopLeft' = 4
  /\ pc' = "tail" => LoopLeft' = 2
  /\ pc' = "tailStore" => LoopLeft' = 1
  /\ pc' = "write" => LoopLeft' = 3
  /\ pc' = "writeCsw" => LoopLeft' = 2
  /\ pc' = "rearm" => LoopLeft' = 1
BY DEF LoopLeft, AtPolls

LEMMA EffortNat ==
  ASSUME IInv, Sending, Place
  PROVE  /\ Effort \in Nat /\ OutLeft \in Nat /\ HostLeft \in {0, 2, 4} /\ BusLeft \in {0, 1, 8}
         /\ HaltLeft \in {0, 1} /\ QueueLeft \in {0, 4, 6} /\ LoopLeft \in 0 .. 5
<1>1. LoopLeft \in 0 .. 5
  BY LoopIs DEF Place, Streams, AtPolls
<1>2. OutLeft \in Nat
  <2>1. CASE host = "out"
    <3>1. cmd.cbw \in Commands
      BY <2>1 DEF IInv, Core, Phases, Idle, InCommand
    <3> QED
      BY <2>1, <3>1 DEF Sending, OutLeft
  <2> QED
    BY <2>1 DEF OutLeft
<1>3. HostLeft \in {0, 2, 4} /\ BusLeft \in {0, 1, 8} /\ HaltLeft \in {0, 1} /\ QueueLeft \in {0, 4, 6}
  BY DEF HostLeft, BusLeft, HaltLeft, QueueLeft
<1> QED
  BY <1>1, <1>2, <1>3, EffortIs

LEMMA InitSending ==
  ASSUME Init
  PROVE  Sending /\ Place
BY DEF Init, Sending, FirstOut, Place, Streams

LEMMA PollReadFalls ==
  ASSUME IInv, Sending, Place, PollRead
  PROVE  Sending' /\ Place' /\ (Polls \/ Effort' < Effort)
<1>1. /\ pc = "poll" /\ pc' = (IF dev.rd THEN "read" ELSE "pollWrite") /\ irq' = ~dev.rd
      /\ dev' = [dev EXCEPT !.rd = FALSE]
      /\ UNCHANGED <<rxbuf, xfer, reg, volVars, card, hostVars>>
      /\ UNCHANGED <<host, cmd, sent>>
  BY DEF PollRead, Goto, hostVars
<1>2. /\ ~dev'.rd /\ dev'.flags = dev.flags /\ dev'.tx = dev.tx /\ dev'.wr = dev.wr
      /\ dev.rd \in BOOLEAN /\ (~dev.rd => dev' = dev)
  BY <1>1 DEF IInv, Core, Devs
<1>3. Sending' /\ Place'
  BY <1>1, <1>2 DEF Sending, FirstOut, Place, Streams
<1>4. CASE ~dev.rd
  <2>1. irq' = irq
    BY <1>1, <1>2, <1>4 DEF Place, IInv, Core, Others
  <2>2. Polls
    BY <1>1, <1>2, <1>4, <2>1 DEF Polls, AtPolls
  <2> QED
    BY <1>3, <2>2
<1>5. CASE dev.rd
  <2>1. OutLeft' = OutLeft /\ HostLeft' = HostLeft /\ BusLeft' = BusLeft /\ HaltLeft' = HaltLeft
    BY <1>1, <1>2 DEF OutLeft, HostLeft, BusLeft, HaltLeft
  <2>2. QueueLeft = 6 /\ QueueLeft' = 0
    BY <1>1, <1>2, <1>5 DEF QueueLeft, AtPolls
  <2>3. LoopLeft = 0 /\ LoopLeft' = 5
    BY <1>1, <1>5, LoopIs, LoopNext DEF AtPolls
  <2>4. Effort' < Effort
    BY <2>1, <2>2, <2>3, EffortNat, EffortIs, EffortNext
  <2> QED
    BY <1>3, <2>4
<1> QED
  BY <1>3, <1>4, <1>5

LEMMA PollWriteFalls ==
  ASSUME IInv, Sending, Place, PollWrite
  PROVE  Sending' /\ Place' /\ (Polls \/ Effort' < Effort)
<1>1. /\ pc = "pollWrite" /\ pc' = (IF dev.wr THEN "write" ELSE "pollUnlock") /\ irq' = ~dev.wr
      /\ dev' = [dev EXCEPT !.wr = FALSE]
      /\ UNCHANGED <<rxbuf, xfer, reg, volVars, card, hostVars>>
      /\ UNCHANGED <<host, cmd, sent>>
  BY DEF PollWrite, Goto, hostVars
<1>2. /\ ~dev'.wr /\ dev'.flags = dev.flags /\ dev'.tx = dev.tx /\ dev'.rd = dev.rd
      /\ dev.wr \in BOOLEAN /\ (~dev.wr => dev' = dev)
  BY <1>1 DEF IInv, Core, Devs
<1>3. Sending' /\ Place'
  BY <1>1, <1>2 DEF Sending, FirstOut, Place, Streams
<1>4. CASE ~dev.wr
  <2>1. irq' = irq
    BY <1>1, <1>2, <1>4 DEF Place, IInv, Core, Others
  <2>2. Polls
    BY <1>1, <1>2, <1>4, <2>1 DEF Polls, AtPolls
  <2> QED
    BY <1>3, <2>2
<1>5. CASE dev.wr
  <2>1. OutLeft' = OutLeft /\ HostLeft' = HostLeft /\ BusLeft' = BusLeft /\ HaltLeft' = HaltLeft
    BY <1>1, <1>2 DEF OutLeft, HostLeft, BusLeft, HaltLeft
  <2>2. WritePhase
    BY <1>5 DEF IInv, Core, Phases, Idle, InCommand, CbwSent, Rejected, Declined, Answering,
       ReadPhase, DataPhase, CswQueued, Quiet
  <2>3. QueueLeft = 4 /\ QueueLeft' = 0
    BY <1>1, <1>2, <1>5, <2>2 DEF QueueLeft, AtPolls, WritePhase
  <2>4. LoopLeft = 0 /\ LoopLeft' = 3
    BY <1>1, <1>5, LoopIs, LoopNext DEF AtPolls
  <2>5. Effort' < Effort
    BY <2>1, <2>3, <2>4, EffortNat, EffortIs, EffortNext
  <2> QED
    BY <1>3, <2>5
<1> QED
  BY <1>3, <1>4, <1>5

LEMMA ReadStreamFalls ==
  ASSUME IInv, Sending, Place, ReadStream
  PROVE  Sending' /\ Place' /\ Effort' < Effort
<1>1. /\ pc = "read" /\ pc' = "readCsw" /\ irq' = TRUE /\ host = "in" /\ host' = "csw"
      /\ dev' = [dev EXCEPT !.left = 0, !.lba = @ + dev.left, !.tx = "NAK"]
      /\ UNCHANGED <<rxbuf, xfer, cmd, sent>>
  BY DEF ReadStream, Goto
<1>2. dev'.rd = dev.rd /\ dev'.flags = dev.flags /\ dev'.tx = "NAK" /\ dev'.wr = dev.wr
  BY <1>1 DEF IInv, Core, Devs
<1>3. ReadPhase
  BY <1>1 DEF IInv, Core, Phases, Idle, InCommand, CbwSent, Rejected, Declined, Answering, ReadPhase,
     DataPhase, WritePhase, CswQueued, Polling, Streams, InTail
<1>4. Sending' /\ Place'
  BY <1>1, <1>2, <1>3 DEF Sending, FirstOut, Place, Streams, ReadPhase
<1>5. OutLeft' = OutLeft /\ HostLeft' = HostLeft - 2 /\ BusLeft' = BusLeft
  BY <1>1 DEF OutLeft, HostLeft, BusLeft
<1>6. HaltLeft' = 0 /\ QueueLeft' = QueueLeft
  BY <1>1, <1>2 DEF HaltLeft, QueueLeft, AtPolls
<1>7. LoopLeft = 5 /\ LoopLeft' = 4
  BY <1>1, LoopIs, LoopNext
<1> QED
  BY <1>4, <1>5, <1>6, <1>7, EffortNat, EffortIs, EffortNext

\* The ends of the data phases.
LEMMA EndFalls ==
  ASSUME IInv, Sending, Place, ReadCsw \/ TailLoad \/ TailStore \/ WriteCsw \/ Rearm
  PROVE  Sending' /\ Place' /\ Effort' < Effort
<1>1. UNCHANGED <<rxbuf, xfer, irq, host, cmd, sent>>
  BY DEF ReadCsw, TailLoad, TailStore, WriteCsw, Rearm, hostVars
<1>2. /\ dev'.tx = dev.tx \/ dev'.tx # "STALL"
      /\ dev'.rd = dev.rd /\ dev'.wr = dev.wr /\ dev'.flags \in {{}, dev.flags}
      /\ ~dev.rd
  <2>1. CASE ReadCsw \/ WriteCsw
    <3>1. dev' = SendCsw(dev) /\ pc \in {"readCsw", "writeCsw"}
      BY <2>1 DEF ReadCsw, WriteCsw, Goto
    <3>2. ~dev.rd
      BY <3>1 DEF IInv, Core, Phases, Idle, InCommand, CbwSent, Rejected, Declined, Answering, ReadPhase,
         DataPhase, WritePhase, CswQueued, Quiet, Polling, Streams, InTail
    <3> QED
      BY <3>1, <3>2, SendCswFacts DEF IInv, Core
  <2>2. CASE TailLoad \/ TailStore
    <3>1. InTail /\ (dev' = dev \/ dev' = [dev EXCEPT !.flags = reg]) /\ reg = {}
      BY <2>2 DEF TailLoad, TailStore, Goto, InTail, IInv, Core
    <3>2. ~dev.rd
      BY <3>1 DEF IInv, Core, Phases, Idle, InCommand, CbwSent, Rejected, Declined, Answering, ReadPhase,
         DataPhase, WritePhase, CswQueued, Quiet, Polling, Streams, InTail
    <3> QED
      BY <3>1, <3>2 DEF IInv, Core, Devs
  <2>3. CASE Rearm
    <3>1. pc = "rearm" /\ dev' = [dev EXCEPT !.rx = "ACK"]
      BY <2>3 DEF Rearm, Goto
    <3>2. ~dev.rd
      BY <3>1 DEF IInv, Core, Phases, Idle, InCommand, CbwSent, Rejected, Declined, Answering, ReadPhase,
         DataPhase, WritePhase, CswQueued, Quiet, Polling, Streams, InTail
    <3> QED
      BY <3>1, <3>2 DEF IInv, Core, Devs
  <2> QED
    BY <2>1, <2>2, <2>3
<1>3. \/ pc = "readCsw" /\ pc' = "tail"
      \/ pc = "tail" /\ pc' = "tailStore"
      \/ pc = "tailStore" /\ pc' = "pollWrite"
      \/ pc = "writeCsw" /\ pc' = "rearm"
      \/ pc = "rearm" /\ pc' = "pollUnlock"
  BY DEF ReadCsw, TailLoad, TailStore, WriteCsw, Rearm, Goto
<1>4. Sending' /\ Place'
  BY <1>1, <1>2, <1>3 DEF Sending, FirstOut, Place, Streams
<1>5. OutLeft' = OutLeft /\ HostLeft' = HostLeft /\ BusLeft' = BusLeft /\ HaltLeft' <= HaltLeft
  BY <1>1, <1>2 DEF OutLeft, HostLeft, BusLeft, HaltLeft
<1>6. QueueLeft' = 0
  <2>1. pc' \in {"pollWrite", "pollUnlock"} => dev'.flags = {}
    <3>1. pc \in {"tailStore", "rearm"} => dev.flags = {}
      BY DEF IInv, Core, Phases, Idle, InCommand, CbwSent, Rejected, Declined, Answering, ReadPhase,
         DataPhase, OutPhase, WritePhase, CswQueued, Quiet, Polling, Streams, InTail
    <3> QED
      BY <1>2, <1>3, <3>1
  <2> QED
    BY <1>2, <1>3, <2>1 DEF QueueLeft, AtPolls
<1>7. LoopLeft' < LoopLeft /\ LoopLeft' \in Nat
  BY <1>3, LoopIs, LoopNext DEF AtPolls
<1> QED
  BY <1>4, <1>5, <1>6, <1>7, EffortNat, EffortIs, EffortNext DEF HaltLeft

LEMMA WriteStreamFalls ==
  ASSUME IInv, Sending, Place, WriteStream \/ WriteFails
  PROVE  Sending' /\ Place' /\ Effort' < Effort
<1>1. pc = "write" /\ pc' = "writeCsw"
  BY DEF WriteStream, WriteFails, Goto
<1>2. /\ WritePhase /\ ~dev.wr /\ OutPhase /\ cmd.cbw \in Commands /\ dev \in Devs
      /\ sent = 1 /\ host \in {"out", "csw"} /\ (host = "csw" <=> cmd.cbw.len = 1)
  <2>1. WritePhase /\ InCommand
    BY <1>1 DEF IInv, Core, Phases, Idle, InCommand, CbwSent, Rejected, Declined, Answering, ReadPhase,
       DataPhase, WritePhase, CswQueued, Polling, Streams, InTail
  <2> QED
    BY <1>1, <2>1 DEF WritePhase, OutPhase, Polling, Streams, InCommand, Sending, FirstOut, IInv, Core
<1>3. PICK r \in 1 .. dev.left : Streamed(r)
  <2>1. CASE WriteStream
    BY <1>2, <2>1 DEF WriteStream, OutPhase
  <2>2. CASE WriteFails
    <3>1. PICK j \in 0 .. dev.left - 1, k \in 0 .. CHUNK - 1 :
                 Streamed(Least(dev.left, (j + 1) * CHUNK))
      BY <2>2 DEF WriteFails
    <3>2. j + 1 \in Nat \ {0} /\ dev.left \in Nat \ {0}
      BY <1>2 DEF OutPhase
    <3>3. (j + 1) * CHUNK \in Nat \ {0}
      <4>1. \A a, b \in Nat \ {0} : a * b \in Nat \ {0}
        OBVIOUS
      <4> QED
        BY <3>2, <4>1
    <3>4. Least(dev.left, (j + 1) * CHUNK) \in 1 .. dev.left
      BY <3>2, <3>3 DEF Least
    <3> QED
      BY <3>1, <3>4
  <2> QED
    BY <2>1, <2>2
<1>4. /\ sent' = r /\ host' = (IF r = cmd.cbw.len THEN "csw" ELSE "out") /\ irq' = TRUE
      /\ xfer' = xfer /\ xfer = "none" /\ cmd' = cmd
  BY <1>2, <1>3 DEF Streamed, WritePhase
<1>5. dev'.flags = dev.flags /\ dev'.tx = "NAK" /\ ~dev'.rd /\ ~dev.rd /\ ~dev'.wr
  <2> DEFINE e == [dev EXCEPT !.left = 0]
  <2>1. e \in Devs /\ e.flags = dev.flags /\ e.tx = "NAK" /\ ~e.rd /\ ~e.wr /\ ~dev.rd
    BY <1>2 DEF Devs, WritePhase
  <2>2. dev' = e \/ dev' = SetSense(e, "write", "failed")
    BY DEF WriteStream, WriteFails
  <2> HIDE DEF e
  <2> QED
    BY <1>2, <2>1, <2>2, SenseFacts DEF Senses, Status
<1>6. cmd.cbw.len \in Nat /\ r <= cmd.cbw.len /\ r \in Nat /\ r >= 1
  BY <1>2, <1>3 DEF OutPhase
<1>7. Sending' /\ Place'
  BY <1>1, <1>4, <1>5, <1>6 DEF Sending, FirstOut, Place, Streams
<1>8. OutLeft' <= OutLeft /\ HostLeft' <= HostLeft /\ OutLeft' \in Nat /\ HostLeft' \in Nat
  BY <1>2, <1>4, <1>6 DEF OutLeft, HostLeft
<1>9. BusLeft' = BusLeft /\ HaltLeft' = 0 /\ QueueLeft' = 0
  BY <1>1, <1>4, <1>5 DEF BusLeft, HaltLeft, QueueLeft, AtPolls
<1>10. LoopLeft = 3 /\ LoopLeft' = 2
  BY <1>1, LoopIs, LoopNext
<1> QED
  BY <1>7, <1>8, <1>9, <1>10, EffortNat, EffortIs, EffortNext

LEMMA MainFalls ==
  ASSUME IInv, Sending, Place, Main
  PROVE  Sending' /\ Place' /\ (Polls \/ Effort' < Effort)
<1>1. CASE SkipUnlock
  <2>1. /\ pc = "pollUnlock" /\ pc' = "poll" /\ UNCHANGED <<dev, xfer, host, cmd, sent, irq>>
        /\ UNCHANGED <<dev, rxbuf, xfer, irq, reg, volVars, card, hostVars>>
    BY <1>1 DEF SkipUnlock, Goto, hostVars
  <2>2. Polls
    BY <2>1 DEF Polls, AtPolls
  <2>3. Sending' /\ Place'
    BY <2>1 DEF Sending, FirstOut, Place, Streams
  <2> QED
    BY <2>2, <2>3
<1> QED
  BY <1>1, PollReadFalls, PollWriteFalls, ReadStreamFalls, EndFalls, WriteStreamFalls
     DEF Main, Transfer

LEMMA IsrInFalls ==
  ASSUME IInv, Sending, Place, IsrIn
  PROVE  Sending' /\ Place' /\ Effort' < Effort
<1> DEFINE d == [dev EXCEPT !.tx = "NAK", !.txbuf = NoBuffer]
<1>1. /\ xfer = "in" /\ xfer' = "none" /\ dev' = BulkIn(d)
      /\ UNCHANGED <<rxbuf, irq, pc, host, cmd, sent>>
  BY DEF IsrIn, hostVars
<1>2. /\ d \in Devs /\ d.flags = dev.flags /\ d.rd = dev.rd /\ d.wr = dev.wr /\ d.tx = "NAK"
      /\ d.op = dev.op
  <2>1. NoBuffer \in Buffers
    BY DEF NoBuffer, Buffers, NoReply, Reply, Replies, Ops, Senses, Status
  <2> QED
    BY <2>1 DEF IInv, Core, Devs
<1> HIDE DEF d
<1>3. /\ ~dev.rd /\ ~dev.wr
      /\ dev.flags \in {{}, {"CSW"}} \/ (dev.flags = {"CSW", "IN"} /\ dev.op # "READ10")
  BY <1>1 DEF IInv, Core, Phases, Idle, InCommand, CbwSent, Rejected, Declined, Answering, ReadPhase,
     DataPhase, WritePhase, CswQueued, Quiet
<1>4. /\ ~dev'.rd /\ ~dev'.wr /\ dev'.tx # "STALL" /\ "OUT" \notin dev'.flags
  <2>1. dev' \in {d, SendCsw(d), SendResponseData(d)}
    BY <1>1, <1>2, <1>3, BulkInFacts
  <2>2. "OUT" \notin dev.flags
    BY <1>3
  <2> QED
    BY <1>2, <1>3, <2>1, <2>2, SendCswFacts, SendResponseFacts
<1>5. Sending' /\ Place'
  BY <1>1, <1>4 DEF Sending, Place, Streams
<1>6. OutLeft' = OutLeft /\ HostLeft' = HostLeft /\ LoopLeft' = LoopLeft
  BY <1>1 DEF OutLeft, HostLeft, LoopLeft, AtPolls
<1>7. BusLeft = 1 /\ BusLeft' = 0 /\ HaltLeft' = 0 /\ QueueLeft' = 0
  BY <1>1, <1>4 DEF BusLeft, HaltLeft, QueueLeft
<1> QED
  BY <1>5, <1>6, <1>7, EffortNat, EffortIs, EffortNext

LEMMA IsrOutFalls ==
  ASSUME IInv, Sending, Place, IsrOut, ~TailInterrupted
  PROVE  Sending' /\ Place' /\ Effort' < Effort
<1>1. /\ xfer = "out" /\ xfer' = "none" /\ UNCHANGED <<irq, pc, host, cmd, sent>> /\ ~InTail
  BY DEF IsrOut, InTail, hostVars
<1>2. OutLeft' = OutLeft /\ HostLeft' = HostLeft /\ LoopLeft' = LoopLeft /\ BusLeft' = 0 /\ Place'
  BY <1>1 DEF OutLeft, HostLeft, LoopLeft, BusLeft, AtPolls, Place
<1>3. CASE CbwSent /\ InCommand
  <2>1. dev.flags = {} /\ ~dev.rd /\ dev.tx = "NAK" /\ Entered(dev', cmd.cbw) /\ rxbuf.kind = "cbw"
    BY <1>3, CbwTaken DEF CbwSent
  <2>2. ~dev'.wr
    BY <2>1 DEF Entered
  <2>3. Sending'
    BY <1>1, <2>2, <1>3 DEF Sending, FirstOut, CbwSent, Streams, Polling
  <2>4. BusLeft = 8 /\ HaltLeft = 0 /\ QueueLeft = 0
    BY <1>1, <2>1 DEF BusLeft, HaltLeft, QueueLeft
  <2>5. HaltLeft' \in {0, 1} /\ QueueLeft' \in {0, 4, 6}
    BY DEF HaltLeft, QueueLeft
  <2>6. Effort' < Effort
    BY <1>2, <2>4, <2>5, EffortNat, EffortIs, EffortNext
  <2> QED
    BY <1>2, <2>3, <2>6
<1>4. CASE (DataPhase \/ CswQueued) /\ InCommand
  <2>1. /\ rxbuf.kind = "data" /\ ~dev.rd /\ ~dev.wr /\ dev \in Devs
        /\ "OUT" \in dev.flags \/ dev.flags = {}
    BY <1>1, <1>4 DEF DataPhase, OutPhase, CswQueued, Quiet, IInv, Core
  <2>2. /\ dev'.flags = dev.flags /\ dev'.rd = dev.rd /\ dev'.tx = dev.tx
        /\ dev.flags = {} => dev'.wr = dev.wr
    <3> DEFINE d == BulkOut(dev, rxbuf)
    <3>1. d = IF "OUT" \in dev.flags THEN [dev EXCEPT !.wr = TRUE] ELSE dev
      BY <2>1 DEF BulkOut
    <3>2. dev' = [d EXCEPT !.rx = IF d.wr THEN "NAK" ELSE d.rx]
      BY DEF IsrOut
    <3> HIDE DEF d
    <3>3. d \in Devs /\ d.flags = dev.flags /\ d.rd = dev.rd /\ d.tx = dev.tx
          /\ (dev.flags = {} => d.wr = dev.wr)
      BY <2>1, <3>1 DEF Devs
    <3> QED
      BY <3>2, <3>3 DEF Devs
  <2>3. Sending'
    BY <1>1, <2>1, <2>2 DEF Sending, FirstOut
  <2>4. BusLeft = 1 /\ HaltLeft' = HaltLeft /\ QueueLeft' = QueueLeft
    BY <1>1, <2>1, <2>2 DEF BusLeft, HaltLeft, QueueLeft, AtPolls
  <2>5. Effort' < Effort
    BY <1>2, <2>4, EffortNat, EffortIs, EffortNext
  <2> QED
    BY <1>2, <2>3, <2>5
<1> QED
  BY <1>1, <1>3, <1>4 DEF IInv, Core, Phases, Idle, InCommand, Rejected, Declined, Answering,
     ReadPhase, WritePhase

LEMMA SendCbwStarts ==
  ASSUME IInv, Sending, Place, SendCbw
  PROVE  Sending' /\ Place' /\ Starts
<1>1. PICK c \in Commands : /\ cmd' = [tag |-> tag, cbw |-> c]
                            /\ rxbuf' = [kind |-> "cbw", cbw |-> cmd', val |-> "none"]
                            /\ host' = IF c.len = 0 THEN "csw" ELSE c.dir
  BY DEF SendCbw
<1>2. /\ host = "idle" /\ dev.rx = "ACK" /\ xfer = "none" /\ xfer' = "out"
      /\ UNCHANGED <<dev, sent, irq, pc>>
  BY DEF SendCbw, Busless
<1>3. Idle /\ ~Writes
  BY <1>2 DEF IInv, RxDue, Core, Phases, InCommand, CbwSent, Rejected, Declined, Answering, ReadPhase,
     DataPhase, WritePhase, CswQueued
<1>4. /\ cmd'.cbw = c /\ c.dir \in {"in", "out"} /\ c.len \in Nat /\ sent' = 0
      /\ dev'.flags = {} /\ dev'.tx = "NAK" /\ ~dev'.rd /\ (AtPolls \/ InTail)
  BY <1>1, <1>2, <1>3 DEF Idle, Quiet, Place, AtPolls, InTail, Polling, Streams, Writes
<1>5. host' = "out" => sent' \in 0 .. cmd'.cbw.len - 1
  BY <1>1, <1>4
<1>6. Sending' /\ Place'
  <2>1. "OUT" \notin dev'.flags
    BY <1>4
  <2> QED
    BY <1>2, <1>5, <2>1 DEF Sending, Place
<1>7. OutLeft' <= 2 * c.len /\ OutLeft' \in Nat
  BY <1>4 DEF OutLeft
<1>8. HostLeft' \in {0, 2, 4} /\ BusLeft' = 8 /\ HaltLeft' = 0 /\ QueueLeft' = 0
  <2>1. rxbuf'.kind = "cbw" /\ "OUT" \notin dev'.flags
    BY <1>1, <1>4
  <2> QED
    BY <1>2, <1>4, <2>1 DEF HostLeft, BusLeft, HaltLeft, QueueLeft
<1>9. LoopLeft' \in {0, 1, 2}
  BY <1>2, <1>4, LoopNext DEF AtPolls, InTail
<1>10. Effort' <= 2 * cmd'.cbw.len + 14
  BY <1>4, <1>7, <1>8, <1>9, EffortNext
<1>11. host' # "idle"
  BY <1>1, <1>4
<1> QED
  BY <1>2, <1>6, <1>10, <1>11 DEF Starts

LEMMA HostFalls ==
  ASSUME IInv, Sending, Place, HostGoesOn
  PROVE  Sending' /\ Place' /\ Effort' < Effort
<1>1. UNCHANGED <<irq, pc>> /\ Place' /\ LoopLeft' = LoopLeft
  BY DEF HostGoesOn, SendData, TakeData, TakeCsw, ClearHaltOut, ClearHaltIn, ResetRecovery, Busless,
     Place, LoopLeft, AtPolls
<1>2. CASE SendData
  <2>1. /\ host = "out" /\ dev.rx = "ACK" /\ xfer = "none" /\ xfer' = "out" /\ sent' = sent + 1
        /\ rxbuf'.kind = "data" /\ host' = (IF sent' = cmd.cbw.len THEN "csw" ELSE "out")
        /\ UNCHANGED <<dev, cmd>>
    BY <1>2 DEF SendData
  <2>2. /\ cmd.cbw.len \in Nat /\ sent \in 0 .. cmd.cbw.len - 1
        /\ ("OUT" \in dev.flags => sent = 0) /\ ~Writes
    BY <2>1 DEF IInv, RxDue, Core, Phases, Idle, InCommand, CbwSent, Rejected, Declined, Answering, ReadPhase,
       DataPhase, WritePhase, CswQueued, Writes, Sending
  <2>3. Sending'
    BY <2>1, <2>2 DEF Sending, FirstOut
  <2>4. OutLeft' = OutLeft - 2 /\ HostLeft' <= HostLeft /\ HostLeft' \in Nat
    BY <2>1, <2>2 DEF OutLeft, HostLeft
  <2>5. BusLeft = 0 /\ BusLeft' = 1 /\ HaltLeft' = HaltLeft /\ QueueLeft' = QueueLeft
    BY <1>1, <2>1 DEF BusLeft, HaltLeft, QueueLeft, AtPolls
  <2>6. Effort' < Effort
    BY <1>1, <2>4, <2>5, EffortNat, EffortIs, EffortNext
  <2> QED
    BY <1>1, <2>3, <2>6
<1>3. CASE TakeData \/ TakeCsw
  <2>1. /\ host \in {"in", "csw"} /\ host' \in {"csw", "idle"} /\ xfer = "none" /\ xfer' = "in"
        /\ dev.tx = "ACK" /\ dev' = dev /\ (host = "csw" => host' = "idle")
    BY <1>3 DEF TakeData, TakeCsw
  <2>2. "OUT" \notin dev.flags
    BY <2>1 DEF IInv, Core, Phases, Idle, InCommand, CbwSent, Rejected, Declined, Answering, ReadPhase,
       DataPhase, OutPhase, WritePhase, CswQueued
  <2>3. Sending'
    BY <2>1, <2>2 DEF Sending
  <2>4. OutLeft = 0 /\ OutLeft' = 0 /\ HostLeft' <= HostLeft - 2 /\ HostLeft' \in Nat
    BY <2>1 DEF OutLeft, HostLeft
  <2>5. BusLeft = 0 /\ BusLeft' = 1 /\ HaltLeft' = HaltLeft /\ QueueLeft' = QueueLeft
    BY <1>1, <2>1 DEF BusLeft, HaltLeft, QueueLeft, AtPolls
  <2>6. Effort' < Effort
    BY <1>1, <2>4, <2>5, EffortNat, EffortIs, EffortNext
  <2> QED
    BY <1>1, <2>3, <2>6
<1>4. CASE ClearHaltOut \/ ClearHaltIn \/ ResetRecovery
  <2>1. /\ host \in {"in", "csw", "out"} /\ host' \in {"csw", "idle"} /\ xfer = "none" /\ xfer' = "none"
        /\ dev'.tx = "STALL" => dev.tx = "STALL"
        /\ (host = "csw" => host' = "idle" \/ (dev.tx = "STALL" /\ dev'.tx # "STALL"))
        /\ "OUT" \notin dev'.flags /\ ~dev'.rd /\ dev' \in Devs
    <3>1. CASE ClearHaltOut
      <4>1. dev' = [dev EXCEPT !.rx = "ACK"] /\ dev.rx = "STALL" /\ host = "out" /\ host' = "csw"
            /\ xfer = "none" /\ xfer' = xfer /\ cmd.cbw.op # "BAD_SIGNATURE"
        BY <3>1 DEF ClearHaltOut
      <4>2. Declined
        BY <4>1 DEF IInv, Core, Phases, Idle, InCommand, CbwSent, Rejected, Answering, ReadPhase,
           DataPhase, OutPhase, WritePhase, CswQueued, RxDue, RefusesOut, AwaitsReset
      <4> QED
        BY <4>1, <4>2 DEF Declined, Quiet, IInv, Core, Devs
    <3>2. CASE ClearHaltIn
      <4> DEFINE d == [dev EXCEPT !.tx = "NAK"]
      <4>1. dev' = BulkIn(d) /\ dev.tx = "STALL" /\ host \in {"in", "csw"} /\ host' = "csw"
            /\ xfer = "none" /\ xfer' = xfer /\ cmd.cbw.op # "BAD_SIGNATURE"
        BY <3>2 DEF ClearHaltIn
      <4>2. Declined
        BY <4>1 DEF IInv, Core, Phases, Idle, InCommand, CbwSent, Rejected, Answering, ReadPhase,
           DataPhase, OutPhase, WritePhase, CswQueued
      <4>3. d \in Devs /\ d.flags = {"CSW"} /\ ~d.rd /\ ~d.wr
        BY <4>2 DEF Declined, Quiet, IInv, Core, Devs
      <4> HIDE DEF d
      <4> QED
        BY <4>1, <4>3, BulkInFacts, SendCswFacts
    <3>3. CASE ResetRecovery
      <4>1. dev' = [dev EXCEPT !.tx = "NAK", !.rx = "ACK"] /\ host # "idle" /\ host' = "idle"
            /\ xfer = "none" /\ xfer' = xfer /\ cmd.cbw.op = "BAD_SIGNATURE" /\ dev.tx = "STALL"
        BY <3>3 DEF ResetRecovery
      <4>2. Rejected
        BY <4>1 DEF IInv, Core, Phases, Idle, InCommand, CbwSent, Declined, Answering, ReadPhase,
           DataPhase, OutPhase, WritePhase, CswQueued
      <4> QED
        BY <4>1, <4>2 DEF Rejected, Quiet, IInv, Core, Devs
    <3> QED
      BY <1>4, <3>1, <3>2, <3>3
  <2>2. Sending'
    BY <2>1 DEF Sending
  <2>3. OutLeft' = 0 /\ BusLeft' = 0 /\ QueueLeft' = 0
    BY <2>1 DEF OutLeft, BusLeft, QueueLeft
  <2>4. HostLeft' + HaltLeft' < HostLeft + HaltLeft /\ HostLeft' \in Nat /\ HaltLeft' \in Nat
    BY <2>1 DEF HostLeft, HaltLeft
  <2>5. Effort' < Effort
    BY <1>1, <2>3, <2>4, EffortNat, EffortIs, EffortNext
  <2> QED
    BY <1>1, <2>2, <2>5
<1> QED
  BY <1>2, <1>3, <1>4 DEF HostGoesOn

LEMMA StutterSending ==
  ASSUME Sending, Place, UNCHANGED vars
  PROVE  Sending' /\ Place'
BY DEF vars, volVars, hostVars, Sending, FirstOut, Place

LEMMA StepFalls ==
  ASSUME IInv, Sending, Place, Next, ~TailInterrupted
  PROVE  Sending' /\ Place' /\ (Starts \/ Polls \/ Effort' < Effort)
BY IsrInFalls, IsrOutFalls, SendCbwStarts, HostFalls, MainFalls DEF Next, Isr

(* A command takes no more steps than its 2n + 14: the endpoint's answers, *)
(* the flags and the pending data phase never send the interrupt, the main *)
(* loop or the host back to what was done, for any sets of CBWs.           *)
THEOREM CommandBounded == ~TailInterrupted => (Spec => CommandIsBounded)
<1> SUFFICES ASSUME ~TailInterrupted PROVE Spec => CommandIsBounded
  OBVIOUS
<1> DEFINE Inv == IInv /\ Sending /\ Place
<1>1. Init => Inv
  BY InitIInv, InitSending
<1>2. Inv /\ [Next]_vars => Inv'
  BY StepIInv, StepFalls, StutterSending
<1>3. Inv => Effort \in Nat
  BY EffortNat
<1>4. Inv /\ (Effort \in Nat)' /\ [Next]_vars
        => [Starts \/ Polls \/ Effort' \in 0 .. Effort - 1]_vars
  <2> SUFFICES ASSUME Inv, Effort' \in Nat, Next, ~Starts, ~Polls
               PROVE  Effort' \in 0 .. Effort - 1
    OBVIOUS
  <2>1. Effort' < Effort
    BY StepFalls
  <2> QED
    BY <1>3, <2>1
<1> HIDE DEF Inv
<1> QED
  BY <1>1, <1>2, <1>3, <1>4, PTL DEF Spec, CommandIsBounded
=============================================================================
