----------------------------- MODULE VolumeProofs -----------------------------
(***************************************************************************)
(* Bot and Unlock implement BlockVolume, for volumes, chunks and sets of   *)
(* CBWs of any size: every command takes effect once, on the visible       *)
(* volume, and is answered with its own tag, data, status and sense.       *)
(*                                                                         *)
(* To the phases of BotProofs this adds what the fields the interrupt and  *)
(* the main loop leave each other mean for the command in progress.  It    *)
(* holds for a host that asks for the sense only of the command before,    *)
(* with no MODE SENSE after a failure (PoliteSense), and writes within the *)
(* capacity it was told of.                                                *)
(***************************************************************************)
EXTENDS UnlockProofs, WellFoundedInduction

\* NoCmd is neither a command nor an answer.
NoCmdApart == \A t, s, d : NoCmd # [tag |-> t, status |-> s, data |-> d]

\* Between commands: what the host saw last is what the drive remembers.
Settled == recv = <<>> /\ dev.status = (IF seen = NoCmd THEN "passed" ELSE seen.status)

\* A CBW that was not parsed yet, from a host that asks for the sense in time.
InTurn == IF dev.status # "passed" THEN cmd.cbw.op # "MODE_SENSE" ELSE cmd.cbw.op # "REQUEST_SENSE"
Asked == recv = <<>> /\ InTurn

ReadOn ==
  /\ cmd.cbw.op = "READ10" /\ dev.status = "passed"
  /\ host = "in" => /\ recv = <<>> /\ dev.lba = cmd.cbw.lba /\ dev.left = cmd.cbw.n
                    /\ Locked => dev.lba + dev.left <= LOCKED

WriteOn ==
  /\ cmd.cbw.op = "WRITE10"
  /\ pc # "writeCsw" =>
       /\ dev.status = "passed" /\ dev.lba = cmd.cbw.lba /\ dev.left = cmd.cbw.n
       /\ xfer = "out" \/ dev.wr \/ pc = "write" => rxbuf.val = cmd.cbw.data[1]

\* What the host has of the answer, and what is queued of it.
Answered ==
  /\ dev.status # "passed" => recv = <<>>
  /\ dev.tx = "STALL" \/ cmd.cbw.op \in {"UNSUPPORTED", "MODE_SENSE10_PAGE"} => dev.status # "passed"
  /\ cmd.cbw.op \in ShortAnswers =>
       dev.status = "passed" /\ recv = (IF host = "in" THEN <<>> ELSE <<dev.resp>>)
  /\ cmd.cbw.op \notin ShortAnswers \cup {"READ10"} => recv = <<>>
  /\ dev.tx = "ACK" /\ dev.txbuf.kind = "data" =>
       cmd.cbw.op \in ShortAnswers /\ dev.txbuf.val = dev.resp
  /\ dev.tx = "ACK" /\ dev.txbuf.kind = "csw" =>
       dev.txbuf.tag = dev.tag /\ dev.txbuf.status = dev.status

Underway ==
  IF cmd.cbw.op = "BAD_SIGNATURE" THEN dev.status = "phase" /\ dev.flags = {} /\ dev.tx = "STALL"
  ELSE /\ dev.tag = cmd.tag /\ dev.op = cmd.cbw.op
       /\ "IN" \in dev.flags => ReadOn
       /\ "OUT" \in dev.flags => WriteOn
       /\ Answered

Meaning ==
  /\ capacity = (IF Locked THEN LOCKED ELSE HiddenSize)
  /\ cmd = NoCmd => Settled
  /\ cmd # NoCmd => IF Arrived THEN Asked ELSE Underway
----------------------------------------------------------------------------
USE SizeAssumption, ChunkAssumption, CommandAssumption

(* Handlers: what a CBW leaves for its command.                            *)
Declines(c) == Locked /\ c.n # 0 /\ (c.lba >= LOCKED \/ c.n > LOCKED - c.lba)
Num(c) == CASE c.op = "READ_CAPACITY" -> capacity - 1
            [] c.op = "MODE_SENSE" -> capacity
            [] OTHER -> 0

\* The answer's packet, or its status, is queued.
Queues(d, t) ==
  /\ d.txbuf.kind = "data" => d.op \in ShortAnswers /\ d.txbuf.val = d.resp
  /\ d.txbuf.kind = "csw" => d.txbuf.tag = t /\ d.txbuf.status = d.status

Taken(d, d0, t, c) ==
  /\ d.tag = t /\ d.op = c.op
  /\ d.tx = "ACK" => Queues(d, t)
  /\ d.tx = "STALL" => d.status # "passed"
  /\ c.op = "READ10" =>
       IF Declines(c) THEN /\ d.status = "failed" /\ d.sense = "range"
                           /\ d.flags = {"CSW"} /\ d.tx = "STALL"
       ELSE /\ d.status = "passed" /\ (c.n # 0 => d.lba = c.lba /\ d.left = c.n)
            /\ d.flags = (IF c.n = 0 THEN {} ELSE {"CSW", "IN"})
  /\ c.op = "WRITE10" =>
       /\ d.status = "passed" /\ (c.n # 0 => d.lba = c.lba /\ d.left = c.n)
       /\ d.flags = (IF c.n = 0 THEN {} ELSE {"CSW", "OUT"})
  /\ c.op \in ShortAnswers =>
       /\ d.status = (IF c.op = "MODE_SENSE" THEN d0.status ELSE "passed")
       /\ d.flags = {"CSW"} /\ d.tx = "ACK"
       /\ d.resp = Reply(c.op, IF c.op = "REQUEST_SENSE" THEN d0.sense ELSE "none", Num(c))
  /\ c.op \in {"TEST_READY", "VERIFY10"} => d.status = "passed" /\ d.flags = {}
  /\ c.op \in {"UNSUPPORTED", "MODE_SENSE10_PAGE"} =>
       /\ d.status = "failed" /\ d.sense = "illegal" /\ d.flags = {"CSW"}
       /\ c.op = "UNSUPPORTED" \/ DataFlag(c) = {"IN"} => d.tx = "STALL"

\* What each part of a handler makes of d.
Same(e, d) == e.tag = d.tag /\ e.op = d.op /\ e.tx = d.tx /\ e.flags = d.flags
Kept(e, d) == e.tag = d.tag /\ e.op = d.op /\ e.lba = d.lba /\ e.resp = d.resp
SenseSet(e, d, sense, status) ==
  e \in Devs /\ Same(e, d) /\ Kept(e, d) /\ e.left = d.left /\ e.sense = sense /\ e.status = status
Parsed(e, d, c) ==
  e \in Devs /\ Same(e, d) /\ e.lba = c.lba /\ e.left = c.n /\ e.status = "passed"
Copied(e, d, num) ==
  e \in Devs /\ Same(e, d) /\ e.left = 1 /\ e.status = d.status /\ e.resp = Reply(d.op, "none", num)
Halted(e, d) ==
  /\ e \in Devs /\ Kept(e, d) /\ e.sense = d.sense /\ e.status = d.status
  /\ e.flags = d.flags \ {"IN", "OUT"} /\ (d.tx # "ACK" => e.tx # "ACK")
  /\ "IN" \in d.flags => e.tx = "STALL"
Queued(e, d, F) ==
  /\ Kept(e, d) /\ e.sense = d.sense /\ e.status = d.status
  /\ Queues(e, d.tag) /\ e.tx = "ACK" /\ e.flags = F

LEMMA BeginMeans ==
  ASSUME NEW d0 \in Devs, NEW t \in {0, 1}, NEW c \in Commands, d0.flags = {}
  PROVE  LET b == BeginCbw([d0 EXCEPT !.op = c.op], t, c)
         IN /\ b \in Devs /\ b.tag = t /\ b.op = c.op /\ b.left = c.len
            /\ b.flags = {"CSW"} \cup DataFlag(c)
            /\ b.status = d0.status /\ b.sense = d0.sense /\ b.tx = d0.tx
<1> DEFINE e == [d0 EXCEPT !.op = c.op]
           b == BeginCbw(e, t, c)
<1>1. /\ e \in Devs /\ e.op = c.op /\ e.flags = {} /\ e.status = d0.status
      /\ e.sense = d0.sense /\ e.tx = d0.tx
  BY DEF Devs, Ops
<1>2. b \in Devs /\ b.flags = {"CSW"} \cup DataFlag(c)
  BY BeginFacts DEF Begun
<1> HIDE DEF e
<1>3. b = [e EXCEPT !.tag = t, !.left = c.len, !.flags = {"CSW"} \cup DataFlag(c)]
  BY <1>1 DEF BeginCbw
<1>4. /\ b.tag = t /\ b.op = c.op /\ b.left = c.len
      /\ b.status = d0.status /\ b.sense = d0.sense /\ b.tx = d0.tx
  BY <1>1, <1>3 DEF Devs
<1> QED
  BY <1>2, <1>4 DEF e

LEMMA SenseMeans ==
  ASSUME NEW d \in Devs, NEW sense \in Senses, NEW status \in Status
  PROVE  SenseSet(SetSense(d, sense, status), d, sense, status)
BY DEF Devs, SetSense, SenseSet, Same, Kept

LEMMA StallMeans ==
  ASSUME NEW d \in Devs
  PROVE  Halted(StallActiveDataEndpoints(d), d)
BY DEF Devs, StallActiveDataEndpoints, Halted, Kept

LEMMA CswMeans ==
  ASSUME NEW d \in Devs
  PROVE  Queued(SendCsw(d), d, {})
BY DEF Devs, SendCsw, Queued, Kept, Queues

LEMMA ResponseMeans ==
  ASSUME NEW d \in Devs, d.left = 1, d.op \in ShortAnswers
  PROVE  Queued(SendResponseData(d), d, d.flags \ {"IN"})
BY DEF Devs, SendResponseData, Queued, Kept, Queues

\* A read or a write.
LEMMA ParseMeans ==
  ASSUME NEW d \in Devs, NEW c \in Commands, c.op \in {"READ10", "WRITE10"}
  PROVE  Parsed(ParseRw10(d, c), d, c)
<1> DEFINE f == [d EXCEPT !.lba = c.lba, !.left = c.n]
<1>1. c.lba \in Nat /\ c.n \in 0 .. CARD
  OBVIOUS
<1>2. f \in Devs /\ Same(f, d) /\ f.lba = c.lba /\ f.left = c.n
  BY <1>1 DEF Devs, Same
<1>3. ParseRw10(d, c) = SetSense(f, "none", "passed")
  BY DEF ParseRw10, Passed
<1> HIDE DEF f
<1>4. SenseSet(ParseRw10(d, c), f, "none", "passed")
  BY <1>2, <1>3, SenseMeans DEF Senses, Status
<1> QED
  BY <1>2, <1>4 DEF Parsed, SenseSet, Same, Kept

LEMMA CopyMeans ==
  ASSUME NEW d \in Devs, NEW num \in Nat, d.left = 1
  PROVE  Copied(CopyResponse(d, num), d, num)
<1>1. Reply(d.op, "none", num) \in Replies
  BY DEF Reply, Replies, Senses, Devs
<1>2. (IF d.left > 1 THEN 1 ELSE d.left) = 1 /\ 1 \in 0 .. CARD
  OBVIOUS
<1> QED
  BY <1>1, <1>2 DEF CopyResponse, Devs, Copied, Same

LEMMA FlagFacts ==
  ASSUME NEW c \in Commands
  PROVE  /\ DataFlag(c) \in {{}, {"IN"}, {"OUT"}}
         /\ c.len = 0 => DataFlag(c) = {}
         /\ c.len # 0 /\ c.dir = "in" => DataFlag(c) = {"IN"}
         /\ c.len # 0 /\ c.dir = "out" => DataFlag(c) = {"OUT"}
BY DEF DataFlag

LEMMA CbwMeans ==
  ASSUME WellFormed, NEW d0 \in Devs, NEW t \in {0, 1}, NEW c \in Commands, capacity \in 1 .. CARD,
         d0.flags = {}, d0.tx = "NAK"
  PROVE  LET d == Answer(Dispatch(d0, t, c))
         IN IF c.op = "BAD_SIGNATURE"
              THEN d.status = "phase" /\ d.sense = "illegal" /\ d.flags = {} /\ d.tx = "STALL"
              ELSE Taken(d, d0, t, c)
<1> DEFINE e == [d0 EXCEPT !.op = c.op]
           b == BeginCbw(e, t, c)
           D == Dispatch(d0, t, c)
<1>1. /\ b \in Devs /\ b.tag = t /\ b.op = c.op /\ b.left = c.len
      /\ b.flags = {"CSW"} \cup DataFlag(c)
      /\ b.status = d0.status /\ b.sense = d0.sense /\ b.tx = "NAK"
  BY BeginMeans
<1>2. e \in Devs /\ e.op = c.op /\ e.flags = {} /\ e.tx = "NAK"
  BY DEF Devs, Ops
<1>3. /\ "none" \in Senses /\ "illegal" \in Senses /\ "range" \in Senses
      /\ "passed" \in Status /\ "failed" \in Status /\ "phase" \in Status
  BY DEF Senses, Status
<1> HIDE DEF e, b, D
<1> SUFFICES IF c.op = "BAD_SIGNATURE"
               THEN /\ Answer(D).status = "phase" /\ Answer(D).sense = "illegal"
                    /\ Answer(D).flags = {} /\ Answer(D).tx = "STALL"
               ELSE Taken(Answer(D), d0, t, c)
  BY DEF D
\* The three ways on from a dispatched command.
<1>4. ASSUME D \in Devs, D.flags \in {{}, {"CSW"}}, D.status # "passed"
      PROVE  Answer(D) = D
  BY <1>4 DEF Answer
<1>5. ASSUME D.flags = {"CSW"}, D.status = "passed"
      PROVE  Answer(D) = SendCsw(D)
  BY <1>5 DEF Answer
<1>6. ASSUME D.flags = {"CSW", "IN"}, D.op # "READ10"
      PROVE  Answer(D) = SendResponseData(D)
  <2>1. "IN" \in D.flags /\ "OUT" \notin D.flags
    BY <1>6
  <2> QED
    BY <1>6, <2>1 DEF Answer, InPhase
\* A command that is answered with one packet.
<1>7. ASSUME c.op \in ShortAnswers, D \in Devs, D.tag = t, D.op = c.op, D.left = 1,
             D.flags = b.flags, D.status = (IF c.op = "MODE_SENSE" THEN d0.status ELSE "passed"),
             D.resp = Reply(c.op, IF c.op = "REQUEST_SENSE" THEN d0.sense ELSE "none", Num(c))
      PROVE  Taken(Answer(D), d0, t, c)
  <2>1. c.dir = "in" /\ c.len = 1 /\ b.flags = {"CSW", "IN"}
    BY <1>1, <1>7, FlagFacts DEF WellFormed
  <2>2. c.op # "READ10" /\ c.op # "WRITE10" /\ c.op # "BAD_SIGNATURE"
        /\ c.op \notin {"TEST_READY", "VERIFY10", "UNSUPPORTED", "MODE_SENSE10_PAGE"}
    BY <1>7 DEF ShortAnswers
  <2>3. Answer(D) = SendResponseData(D) /\ {"CSW", "IN"} \ {"IN"} = {"CSW"}
    BY <1>6, <1>7, <2>1, <2>2
  <2> QED
    BY <1>7, <2>1, <2>2, <2>3, ResponseMeans DEF Taken, Queued, Kept
\* A refused command.
<1>8. ASSUME c.op \in {"UNSUPPORTED", "MODE_SENSE10_PAGE"} \/ (c.op = "READ10" /\ Declines(c)),
             NEW f \in Devs, D = StallActiveDataEndpoints(f), f.tag = t, f.op = c.op,
             f.flags \ {"IN", "OUT"} = {"CSW"}, f.tx = "NAK", f.status = "failed",
             f.sense = (IF c.op = "READ10" THEN "range" ELSE "illegal"),
             c.op = "UNSUPPORTED" \/ DataFlag(c) = {"IN"} => "IN" \in f.flags
      PROVE  Taken(Answer(D), d0, t, c)
  <2>1. /\ D \in Devs /\ D.tag = t /\ D.op = c.op /\ D.flags = {"CSW"} /\ D.status = "failed"
        /\ D.sense = f.sense /\ D.tx # "ACK" /\ ("IN" \in f.flags => D.tx = "STALL")
    BY <1>8, StallMeans DEF Halted, Kept
  <2>2. Answer(D) = D
    BY <1>4, <2>1
  <2>3. c.op = "READ10" => DataFlag(c) = {"IN"}
    BY <1>8, FlagFacts DEF Declines, WellFormed
  <2> QED
    BY <1>8, <2>1, <2>2, <2>3 DEF Taken, ShortAnswers
<1>9. CASE c.op = "BAD_SIGNATURE"
  <2> DEFINE f == [SetSense(e, "illegal", "phase") EXCEPT !.flags = @ \cup {"IN", "OUT"}]
  <2>1. D = StallActiveDataEndpoints(f)
    BY <1>9 DEF Dispatch, RejectSignature, D, e
  <2>2. f \in Devs /\ f.flags = {"IN", "OUT"} /\ f.status = "phase" /\ f.sense = "illegal"
    BY <1>2 DEF SetSense, Devs, Flags, Senses, Status
  <2> HIDE DEF f
  <2>3. D \in Devs /\ D.flags = {} /\ D.status = "phase" /\ D.sense = "illegal" /\ D.tx = "STALL"
    BY <2>1, <2>2, StallMeans, StallFacts DEF Halted
  <2> QED
    BY <1>4, <1>9, <2>3
<1>10. CASE c.op = "INQUIRY"
  <2> DEFINE f == CopyResponse(b, 0)
  <2>1. D = SetSense(f, "none", "passed") /\ c.len = 1
    BY <1>10 DEF Dispatch, D, b, e, Passed, WellFormed, ShortAnswers
  <2>2. Copied(f, b, 0)
    BY <1>1, <2>1, CopyMeans
  <2> HIDE DEF f
  <2>3. SenseSet(D, f, "none", "passed")
    BY <1>3, <2>1, <2>2, SenseMeans DEF Copied
  <2> QED
    BY <1>1, <1>7, <1>10, <2>2, <2>3 DEF Copied, SenseSet, Same, Kept, Num, ShortAnswers
<1>11. CASE c.op = "READ_CAPACITY"
  <2> DEFINE f == CopyResponse(b, capacity - 1)
  <2>1. D = SetSense(f, "none", "passed") /\ c.len = 1 /\ capacity - 1 \in Nat
    BY <1>11 DEF Dispatch, D, b, e, Passed, WellFormed, ShortAnswers
  <2>2. Copied(f, b, capacity - 1)
    BY <1>1, <2>1, CopyMeans
  <2> HIDE DEF f
  <2>3. SenseSet(D, f, "none", "passed")
    BY <1>3, <2>1, <2>2, SenseMeans DEF Copied
  <2> QED
    BY <1>1, <1>7, <1>11, <2>2, <2>3 DEF Copied, SenseSet, Same, Kept, Num, ShortAnswers
<1>12. CASE c.op = "MODE_SENSE"
  <2>1. D = CopyResponse(b, capacity) /\ c.len = 1 /\ capacity \in Nat
    BY <1>12 DEF Dispatch, D, b, e, WellFormed, ShortAnswers
  <2>2. Copied(D, b, capacity)
    BY <1>1, <2>1, CopyMeans
  <2> QED
    BY <1>1, <1>7, <1>12, <2>1, <2>2 DEF Copied, Same, Num, ShortAnswers
<1>13. CASE c.op = "REQUEST_SENSE"
  <2>1. D = [b EXCEPT !.resp = Reply("REQUEST_SENSE", b.sense, 0), !.status = "passed"] /\ c.len = 1
    BY <1>13 DEF Dispatch, D, b, e, RequestSense, WellFormed, ShortAnswers
  <2>2. Reply("REQUEST_SENSE", b.sense, 0) \in Replies
    BY <1>1 DEF Reply, Replies, Ops, Devs
  <2>3. /\ D \in Devs /\ D.tag = t /\ D.op = c.op /\ D.left = 1 /\ D.flags = b.flags
        /\ D.status = "passed" /\ D.resp = Reply("REQUEST_SENSE", b.sense, 0)
    BY <1>1, <2>1, <2>2 DEF Devs, Status
  <2> QED
    BY <1>1, <1>7, <1>13, <2>3 DEF Num, ShortAnswers
<1>14. CASE c.op \in {"TEST_READY", "VERIFY10"}
  <2>1. D = Passed(b) /\ c.len = 0
    BY <1>14 DEF Dispatch, D, b, e, WellFormed
  <2>2. SenseSet(D, b, "none", "passed")
    BY <1>1, <1>3, <2>1, SenseMeans DEF Passed
  <2>3. D \in Devs /\ D.status = "passed" /\ D.tag = t /\ D.op = c.op /\ D.flags = {"CSW"}
    BY <1>1, <2>1, <2>2, FlagFacts DEF SenseSet, Same
  <2> QED
    BY <1>5, <1>14, <2>3, CswMeans DEF Taken, Queued, Kept, ShortAnswers
<1>15. CASE c.op \in {"READ10", "WRITE10"}
  <2> DEFINE p == ParseRw10(b, c)
             f == SetSense(p, "range", "failed")
  <2>1. /\ p \in Devs /\ p.tag = t /\ p.op = c.op /\ p.lba = c.lba /\ p.left = c.n
        /\ p.status = "passed" /\ p.flags = b.flags /\ p.tx = "NAK"
    BY <1>1, <1>15, ParseMeans DEF Parsed, Same
  <2>2. D = IF c.op = "READ10" THEN Read10(p) ELSE p
    BY <1>15 DEF Dispatch, D, b, e
  <2> HIDE DEF p
  <2>3. c.n = c.len /\ c.n \in Nat /\ (c.op = "READ10" => c.dir = "in") /\ (c.op = "WRITE10" => c.dir = "out")
    BY <1>15 DEF WellFormed
  <2>4. c.op \notin ShortAnswers \cup {"TEST_READY", "VERIFY10", "UNSUPPORTED", "MODE_SENSE10_PAGE"}
    BY <1>15 DEF ShortAnswers
  <2>5. CASE c.op = "READ10" /\ Declines(c)
    <3>1. D = StallActiveDataEndpoints(f)
      BY <2>1, <2>2, <2>5 DEF Read10, AccessesHidden, Declines
    <3>2. SenseSet(f, p, "range", "failed")
      BY <1>3, <2>1, SenseMeans
    <3> HIDE DEF f
    <3>3. f.flags \ {"IN", "OUT"} = {"CSW"} /\ (DataFlag(c) = {"IN"} => "IN" \in f.flags)
      BY <1>1, <2>1, <3>2, FlagFacts DEF SenseSet, Same
    <3> QED
      BY <1>8, <2>1, <2>5, <3>1, <3>2, <3>3 DEF SenseSet, Same
  <2>6. CASE ~(c.op = "READ10" /\ Declines(c))
    <3>1. D = p
      BY <2>1, <2>2, <2>6 DEF Read10, AccessesHidden, Declines
    <3>2. CASE c.n = 0
      <4>1. D.flags = {"CSW"}
        BY <1>1, <2>1, <2>3, <3>1, <3>2, FlagFacts
      <4> QED
        BY <1>5, <1>15, <2>1, <2>4, <2>6, <3>1, <3>2, <4>1, CswMeans DEF Taken, Queued, Kept
    <3>3. CASE c.n # 0 /\ c.op = "READ10"
      <4>1. D.flags = {"CSW", "IN"}
        BY <1>1, <2>1, <2>3, <3>1, <3>3, FlagFacts
      <4>2. Answer(D) = [p EXCEPT !.rd = TRUE]
        <5>1. "IN" \in D.flags /\ "OUT" \notin D.flags /\ D.op = "READ10"
          BY <2>1, <3>1, <3>3, <4>1
        <5> QED
          BY <3>1, <5>1 DEF Answer, InPhase
      <4>3. LET r == [p EXCEPT !.rd = TRUE]
            IN /\ r.tag = t /\ r.op = c.op /\ r.lba = c.lba /\ r.left = c.n /\ r.status = "passed"
               /\ r.flags = p.flags /\ r.tx = "NAK"
        BY <2>1 DEF Devs
      <4> QED
        BY <2>4, <2>6, <3>1, <3>3, <4>1, <4>2, <4>3 DEF Taken
    <3>4. CASE c.n # 0 /\ c.op = "WRITE10"
      <4>1. D.flags = {"CSW", "OUT"}
        BY <1>1, <2>1, <2>3, <3>1, <3>4, FlagFacts
      <4>2. Answer(D) = D
        <5>1. "OUT" \in D.flags
          BY <4>1
        <5> QED
          BY <5>1 DEF Answer
      <4> QED
        BY <2>1, <2>4, <3>1, <3>4, <4>1, <4>2 DEF Taken
    <3> QED
      BY <1>15, <3>2, <3>3, <3>4
  <2> QED
    BY <2>5, <2>6
<1>16. CASE c.op = "MODE_SENSE10_PAGE"
  <2> DEFINE f == SetSense(b, "illegal", "failed")
  <2>1. D = StallActiveDataEndpoints(f)
    BY <1>16 DEF Dispatch, D, b, e
  <2>2. SenseSet(f, b, "illegal", "failed")
    BY <1>1, <1>3, SenseMeans
  <2> HIDE DEF f
  <2>3. f.flags \ {"IN", "OUT"} = {"CSW"} /\ (DataFlag(c) = {"IN"} => "IN" \in f.flags)
    BY <1>1, <2>2, FlagFacts DEF SenseSet, Same
  <2> QED
    BY <1>1, <1>8, <1>16, <2>1, <2>2, <2>3 DEF SenseSet, Same
<1>17. CASE c.op = "UNSUPPORTED"
  <2> DEFINE f == [SetSense(b, "illegal", "failed") EXCEPT !.flags = @ \cup {"IN"}]
  <2>1. D = StallActiveDataEndpoints(f)
    BY <1>17 DEF Dispatch, D, b, e, Unsupported
  <2>2. /\ f \in Devs /\ f.tag = t /\ f.op = c.op /\ f.flags = b.flags \cup {"IN"} /\ f.tx = "NAK"
        /\ f.status = "failed" /\ f.sense = "illegal"
    BY <1>1, <1>3 DEF SetSense, Devs, Flags
  <2> HIDE DEF f
  <2>3. f.flags \ {"IN", "OUT"} = {"CSW"} /\ "IN" \in f.flags
    BY <1>1, <2>2, FlagFacts
  <2> QED
    BY <1>8, <1>17, <2>1, <2>2, <2>3
<1> QED
  BY <1>9, <1>10, <1>11, <1>12, <1>13, <1>14, <1>15, <1>16, <1>17 DEF WellFormed, ShortAnswers
----------------------------------------------------------------------------
(* What the host and the volume see of a step.                             *)
VStep == [Volume!Next]_(Volume!vars)
Outcome(status, data) == [tag |-> cmd.tag, status |-> status, data |-> data]

LEMMA ResultNone ==
  ASSUME ~Performed
  PROVE  Result = NoCmd
BY DEF Result

LEMMA ResultNow ==
  ASSUME Performed', cmd' = cmd, dev'.tag = cmd.tag
  PROVE  /\ dev'.status # "passed" => Result' = Outcome(dev'.status, <<>>)
         /\ dev'.status = "passed" /\ cmd.cbw.op = "READ10" => Result' = Outcome("passed", recv')
         /\ dev'.status = "passed" /\ cmd.cbw.op # "READ10" /\ cmd.cbw.dir = "in" /\ cmd.cbw.len > 0
              => Result' = Outcome("passed", <<dev'.resp>>)
         /\ dev'.status = "passed" /\ cmd.cbw.op # "READ10" /\ ~(cmd.cbw.dir = "in" /\ cmd.cbw.len > 0)
              => Result' = Outcome("passed", <<>>)
BY DEF Result, Outcome

LEMMA ResultKept ==
  ASSUME Performed, Performed', cmd' = cmd, dev'.tag = dev.tag, dev'.status = dev.status,
         dev'.resp = dev.resp, recv' = recv \/ cmd.cbw.op # "READ10"
  PROVE  Result' = Result
BY DEF Result

\* A step of which the volume shows nothing.
LEMMA Unseen ==
  ASSUME UNCHANGED <<card, cmd, seen>>, Locked' = Locked, Result' = Result, Err' = Err
  PROVE  VStep
BY DEF VStep, Volume!vars, Err

\* The volumes as their readers see them.
Disk ==
  [decoy |-> [l \in 0 .. LOCKED - 1 |-> Plain(card[l], FALSE)],
   hidden |-> [l \in 0 .. HiddenSize - 1 |-> Plain(card[LOCKED + l], TRUE)]]

LEMMA DiskExcept ==
  ASSUME NEW d, NEW h, NEW x
  PROVE  /\ [[decoy |-> d, hidden |-> h] EXCEPT !["decoy"] = x] = [decoy |-> x, hidden |-> h]
         /\ [[decoy |-> d, hidden |-> h] EXCEPT !["hidden"] = x] = [decoy |-> d, hidden |-> x]
<1> DEFINE r == [decoy |-> d, hidden |-> h]
           F(a, b) == [v \in {"decoy", "hidden"} |-> IF v = "decoy" THEN a ELSE b]
<1>1. r = F(d, h) /\ [decoy |-> x, hidden |-> h] = F(x, h) /\ [decoy |-> d, hidden |-> x] = F(d, x)
  OBVIOUS
<1>2. [F(d, h) EXCEPT !["decoy"] = x] = F(x, h) /\ [F(d, h) EXCEPT !["hidden"] = x] = F(d, x)
  OBVIOUS
<1> HIDE DEF r, F
<1>3. /\ [r EXCEPT !["decoy"] = x] = [decoy |-> x, hidden |-> h]
      /\ [r EXCEPT !["hidden"] = x] = [decoy |-> d, hidden |-> x]
  BY <1>1, <1>2
<1> QED
  BY <1>3 DEF r

\* The first k packets of c are on the card, and on the visible volume.
Put(c, k) ==
  [p \in DOMAIN card |->
     IF p \in PhysicalLba(c.lba) .. PhysicalLba(c.lba) + k - 1
       THEN Stored(c.data[p - PhysicalLba(c.lba) + 1]) ELSE card[p]]

LEMMA WrittenMeans ==
  ASSUME NEW c, NEW k \in Nat, c.lba \in Nat, Locked /\ k # 0 => c.lba + k <= LOCKED,
         card \in [0 .. CARD - 1 -> [val : Values, enc : BOOLEAN]], Locked' = Locked,
         card' = Put(c, k)
  PROVE  Disk' = Volume!Written(c, k)
<1> DEFINE D == [l \in 0 .. LOCKED - 1 |-> Plain(card[l], FALSE)]
           H == [l \in 0 .. HiddenSize - 1 |-> Plain(card[LOCKED + l], TRUE)]
           W(f) == [l \in DOMAIN f |-> IF l \in c.lba .. c.lba + k - 1
                                         THEN Volume!Stored(c.data[l - c.lba + 1]) ELSE f[l]]
<1>1. \A p \in 0 .. CARD - 1 :
        card'[p] = IF p \in PhysicalLba(c.lba) .. PhysicalLba(c.lba) + k - 1
                     THEN Stored(c.data[p - PhysicalLba(c.lba) + 1]) ELSE card[p]
  BY DEF Put
<1>2. Disk = [decoy |-> D, hidden |-> H]
  BY DEF Disk
<1>3. Disk' = [decoy |-> D', hidden |-> H']
  BY DEF Disk
<1>4. CASE Locked
  <2>1. \A x : Plain(Stored(x), FALSE) = Volume!Stored(x)
    BY <1>4 DEF Plain, Stored, Volume!Stored
  <2>2. ASSUME NEW l \in 0 .. LOCKED - 1
        PROVE  Plain(card[l], FALSE)' = IF l \in c.lba .. c.lba + k - 1
                                          THEN Volume!Stored(c.data[l - c.lba + 1]) ELSE D[l]
    <3>1. l \in 0 .. CARD - 1 /\ PhysicalLba(c.lba) = c.lba
      BY <1>4 DEF PhysicalLba
    <3>2. card'[l] = IF l \in c.lba .. c.lba + k - 1 THEN Stored(c.data[l - c.lba + 1]) ELSE card[l]
      BY <1>1, <3>1
    <3>3. D[l] = Plain(card[l], FALSE)
      OBVIOUS
    <3>4. Plain(card[l], FALSE)' = Plain(card'[l], FALSE)
      BY DEF Plain
    <3> HIDE DEF D
    <3> QED
      BY <2>1, <3>2, <3>3, <3>4
  <2>3. D' = W(D)
    BY <2>2
  <2>4. ASSUME NEW l \in 0 .. HiddenSize - 1
        PROVE  Plain(card[LOCKED + l], TRUE)' = H[l]
    <3>1. LOCKED + l \in 0 .. CARD - 1 /\ PhysicalLba(c.lba) = c.lba
      BY <1>4 DEF PhysicalLba, HiddenSize
    <3>2. LOCKED + l \notin c.lba .. c.lba + k - 1
      BY <1>4, <3>1
    <3>3. card'[LOCKED + l] = card[LOCKED + l]
      BY <1>1, <3>1, <3>2
    <3> QED
      BY <3>3 DEF Plain
  <2>5. H' = H
    BY <2>4
  <2>6. Volume!Written(c, k) = [Disk EXCEPT !["decoy"] = W(Disk.decoy)]
    BY <1>4 DEF Volume!Written, Disk
  <2> HIDE DEF D, H, W
  <2>7. Volume!Written(c, k) = [decoy |-> W(D), hidden |-> H]
    BY <1>2, <2>6, DiskExcept
  <2> QED
    BY <1>3, <2>3, <2>5, <2>7
<1>5. CASE ~Locked
  <2>1. \A x : Plain(Stored(x), TRUE) = Volume!Stored(x)
    BY <1>5 DEF Plain, Stored, Volume!Stored
  <2>2. ASSUME NEW l \in 0 .. HiddenSize - 1
        PROVE  Plain(card[LOCKED + l], TRUE)' = IF l \in c.lba .. c.lba + k - 1
                                          THEN Volume!Stored(c.data[l - c.lba + 1]) ELSE H[l]
    <3>1. LOCKED + l \in 0 .. CARD - 1 /\ PhysicalLba(c.lba) = c.lba + LOCKED
      BY <1>5 DEF PhysicalLba, HiddenSize
    <3>2. LOCKED + l \in PhysicalLba(c.lba) .. PhysicalLba(c.lba) + k - 1 <=> l \in c.lba .. c.lba + k - 1
      BY <3>1
    <3>3. LOCKED + l - PhysicalLba(c.lba) + 1 = l - c.lba + 1
      BY <3>1
    <3>4. card'[LOCKED + l] = IF l \in c.lba .. c.lba + k - 1 THEN Stored(c.data[l - c.lba + 1])
                                ELSE card[LOCKED + l]
      BY <1>1, <3>1, <3>2, <3>3
    <3>5. H[l] = Plain(card[LOCKED + l], TRUE)
      OBVIOUS
    <3>6. Plain(card[LOCKED + l], TRUE)' = Plain(card'[LOCKED + l], TRUE)
      BY DEF Plain
    <3> HIDE DEF H
    <3> QED
      BY <2>1, <3>4, <3>5, <3>6
  <2>3. H' = W(H)
    BY <2>2 DEF HiddenSize
  <2>4. ASSUME NEW l \in 0 .. LOCKED - 1
        PROVE  Plain(card[l], FALSE)' = D[l]
    <3>1. l \in 0 .. CARD - 1 /\ PhysicalLba(c.lba) = c.lba + LOCKED
      BY <1>5 DEF PhysicalLba
    <3>2. l \notin PhysicalLba(c.lba) .. PhysicalLba(c.lba) + k - 1
      BY <3>1
    <3>3. card'[l] = card[l]
      BY <1>1, <3>1, <3>2
    <3> QED
      BY <3>3 DEF Plain
  <2>5. D' = D
    BY <2>4
  <2>6. Volume!Written(c, k) = [Disk EXCEPT !["hidden"] = W(Disk.hidden)]
    BY <1>5 DEF Volume!Written, Disk
  <2> HIDE DEF D, H, W
  <2>7. Volume!Written(c, k) = [decoy |-> D, hidden |-> W(H)]
    BY <1>2, <2>6, DiskExcept
  <2> QED
    BY <1>3, <2>3, <2>5, <2>7
<1> QED
  BY <1>4, <1>5

LEMMA NothingWritten ==
  ASSUME NEW c, c.lba \in Nat, card' = card, Locked' = Locked,
         card \in [0 .. CARD - 1 -> [val : Values, enc : BOOLEAN]]
  PROVE  Disk' = Volume!Written(c, 0)
<1>1. \A p : p \notin PhysicalLba(c.lba) .. PhysicalLba(c.lba) + 0 - 1
  BY DEF PhysicalLba
<1>2. card = Put(c, 0)
  BY <1>1 DEF Put
<1> QED
  BY <1>2, WrittenMeans

----------------------------------------------------------------------------
(* The interrupt parses a CBW.                                             *)
LEMMA CbwEnters ==
  ASSUME IInv, Meaning, IsrOut, ~TailInterrupted, CbwSent, InCommand
  PROVE  /\ dev' = Answer(Dispatch(dev, cmd.tag, cmd.cbw)) /\ xfer' = "none" /\ ~dev'.wr
         /\ dev.flags = {} /\ dev.tx = "NAK" /\ dev \in Devs /\ capacity \in 1 .. CARD
         /\ cmd # NoCmd /\ cmd.cbw \in Commands /\ cmd.tag \in {0, 1}
         /\ Arrived /\ recv = <<>> /\ InTurn
         /\ host = (IF cmd.cbw.len = 0 THEN "csw" ELSE cmd.cbw.dir)
         /\ pc \notin {"readCsw", "writeCsw", "write"}
         /\ UNCHANGED <<pc, volVars, card, hostVars>>
<1>1. xfer = "out" /\ UNCHANGED <<pc, volVars, card, hostVars>>
  BY DEF IsrOut
<1>2. rxbuf.kind = "cbw" /\ cmd # NoCmd
  BY CbwTaken DEF CbwSent
<1>3. Arrived /\ recv = <<>> /\ InTurn
  BY <1>1, <1>2 DEF Arrived, Meaning, Asked
<1> QED
  BY <1>1, <1>2, <1>3, CbwTaken DEF Entered, Polling, Streams

LEMMA CbwStep ==
  ASSUME IInv, Meaning, IsrOut, ~TailInterrupted, CbwSent, InCommand, WellFormed, NoCmdApart
  PROVE  Meaning' /\ VStep
<1> DEFINE c == cmd.cbw
<1>1. /\ dev' = Answer(Dispatch(dev, cmd.tag, c)) /\ xfer' = "none" /\ ~dev'.wr
      /\ dev.flags = {} /\ dev.tx = "NAK" /\ dev \in Devs /\ capacity \in 1 .. CARD
      /\ cmd # NoCmd /\ c \in Commands /\ cmd.tag \in {0, 1}
      /\ Arrived /\ recv = <<>> /\ InTurn
      /\ host = (IF c.len = 0 THEN "csw" ELSE c.dir)
      /\ pc \notin {"readCsw", "writeCsw", "write"}
      /\ UNCHANGED <<pc, pstate, capacity, card, host, cmd, sent, recv, seen>>
  BY CbwEnters DEF volVars, hostVars
<1>0. /\ Err = IF c.op = "REQUEST_SENSE" /\ dev.status # "passed" THEN dev.sense ELSE "none"
      /\ Err' = IF dev'.status = "passed" THEN "none" ELSE dev'.sense
  BY <1>1 DEF Err, Cleared, Arrived
<1>2. Locked' = Locked /\ ~Arrived' /\ Result = NoCmd
  BY <1>1, ResultNone DEF Locked, Arrived, Performed
<1>3. capacity' = (IF Locked' THEN LOCKED ELSE HiddenSize)
  BY <1>1, <1>2 DEF Meaning
<1>4. CASE c.op = "BAD_SIGNATURE"
  <2>1. dev'.status = "phase" /\ dev'.sense = "illegal" /\ dev'.flags = {} /\ dev'.tx = "STALL"
    BY <1>1, <1>4, CbwMeans
  <2>2. Meaning'
    BY <1>1, <1>2, <1>3, <1>4, <2>1 DEF Meaning, Underway
  <2>3. Result' = NoCmd
    BY <1>1, <1>4 DEF Result, Performed
  <2>4. Volume!Malformed /\ Volume!Perform
    BY <1>0, <1>1, <1>2, <1>4, <2>1, <2>3 DEF Volume!Malformed, Volume!Perform
  <2> QED
    BY <2>2, <2>4 DEF VStep, Volume!Next
<1>5. CASE c.op # "BAD_SIGNATURE"
  <2>1. Taken(dev', dev, cmd.tag, c)
    BY <1>1, <1>5, CbwMeans
  <2>2. c.op \in ShortAnswers => c.dir = "in" /\ c.len = 1
    BY <1>1 DEF WellFormed
  <2>3. c.len \in Nat /\ (c.op \in {"READ10", "WRITE10"} => c.n = c.len) /\ c.lba \in Nat
    BY <1>1
  <2>4. Meaning'
    <3>1. Answered'
      BY <1>1, <2>1, <2>2 DEF InTurn, Answered, Taken, Queues, ShortAnswers
    <3>2. c.op \in {"READ10", "WRITE10"} \/ (dev'.flags \in {{}, {"CSW"}})
      BY <1>1, <1>5, <2>1 DEF Taken, WellFormed
    <3>3. "IN" \in dev'.flags => ReadOn'
      <4>1. SUFFICES ASSUME "IN" \in dev'.flags PROVE ReadOn'
        OBVIOUS
      <4>2. c.op = "READ10" /\ ~Declines(c) /\ c.n # 0
        BY <2>1, <3>2, <4>1 DEF Taken
      <4>3. dev'.status = "passed" /\ dev'.lba = c.lba /\ dev'.left = c.n
        BY <2>1, <4>2 DEF Taken
      <4>4. Locked => c.lba + c.n <= LOCKED
        BY <2>3, <4>2 DEF Declines
      <4> QED
        BY <1>1, <1>2, <4>2, <4>3, <4>4 DEF ReadOn
    <3>4. "OUT" \in dev'.flags => WriteOn'
      <4>1. SUFFICES ASSUME "OUT" \in dev'.flags PROVE WriteOn'
        OBVIOUS
      <4>2. c.op = "WRITE10" /\ c.n # 0
        BY <2>1, <3>2, <4>1 DEF Taken
      <4>3. dev'.status = "passed" /\ dev'.lba = c.lba /\ dev'.left = c.n
        BY <2>1, <4>2 DEF Taken
      <4> QED
        BY <1>1, <4>2, <4>3 DEF WriteOn
    <3>5. Underway'
      BY <1>1, <1>5, <2>1, <3>1, <3>3, <3>4 DEF Underway, Taken
    <3> QED
      BY <1>1, <1>2, <1>3, <3>5 DEF Meaning
  <2>5. dev'.tag = cmd.tag /\ dev'.op = c.op
    BY <2>1 DEF Taken
  <2> SUFFICES VStep
    BY <2>4
  <2>6. ASSUME NEW st, NEW data
        PROVE  Outcome(st, data) # NoCmd
    BY DEF NoCmdApart, Outcome
  <2>7. ASSUME dev'.flags \in {{}, {"CSW"}}
        PROVE  /\ dev'.status # "passed" => Result' = Outcome(dev'.status, <<>>)
               /\ dev'.status = "passed" /\ c.op = "READ10" => Result' = Outcome("passed", recv')
               /\ dev'.status = "passed" /\ c.op # "READ10" /\ c.dir = "in" /\ c.len > 0
                    => Result' = Outcome("passed", <<dev'.resp>>)
               /\ dev'.status = "passed" /\ c.op # "READ10" /\ ~(c.dir = "in" /\ c.len > 0)
                    => Result' = Outcome("passed", <<>>)
    <3>1. Performed'
      BY <1>1, <1>2, <1>5, <2>7 DEF Performed, Arrived
    <3> QED
      BY <1>1, <2>5, <3>1, ResultNow
  <2>8. ASSUME Volume!Read \/ Volume!Write \/ Volume!Inquire \/ Volume!RequestSense
                 \/ Volume!Acknowledge \/ Volume!Refuse
        PROVE  VStep
    <3>1. Volume!Perform
      BY <1>1, <1>2, <2>8 DEF Volume!Perform
    <3> QED
      BY <3>1 DEF VStep, Volume!Next
  <2>9. CASE c.op = "READ10"
    <3>1. Err = "none"
      BY <1>0, <2>9
    <3>2. CASE Declines(c)
      <4>1. /\ dev'.status = "failed" /\ dev'.sense = "range" /\ Result' = Outcome("failed", <<>>)
            /\ Locked /\ c.n # 0 /\ ~(c.lba + c.n <= LOCKED)
        BY <2>1, <2>3, <2>7, <2>9, <3>2 DEF Taken, Declines
      <4>2. Volume!Read
        BY <1>0, <1>1, <2>9, <4>1 DEF Volume!Read, Volume!Effect, Volume!InVolume, Volume!Size, Outcome
      <4> QED
        BY <2>8, <4>2
    <3>3. CASE ~Declines(c) /\ c.n = 0
      <4>1. /\ dev'.status = "passed" /\ Result' = Outcome("passed", <<>>)
        BY <1>1, <2>1, <2>7, <2>9, <3>3 DEF Taken
      <4>2. Volume!Read
        BY <1>0, <1>1, <2>9, <3>3, <4>1 DEF Volume!Read, Volume!Effect, Volume!InVolume, Outcome
      <4> QED
        BY <2>8, <4>2
    <3>4. CASE ~Declines(c) /\ c.n # 0
      <4>1. dev'.status = "passed" /\ "IN" \in dev'.flags
        BY <2>1, <2>9, <3>4 DEF Taken
      <4>2. ~Performed'
        BY <1>1, <4>1 DEF Performed
      <4>3. Result' = NoCmd
        BY <4>2 DEF Result
      <4> QED
        BY <1>0, <1>1, <1>2, <3>1, <4>1, <4>3, Unseen
    <3> QED
      BY <3>2, <3>3, <3>4
  <2>10. CASE c.op = "WRITE10"
    <3>1. Err = "none" /\ dev'.status = "passed"
      BY <1>0, <2>1, <2>10 DEF Taken
    <3>2. CASE c.n = 0
      <4>1. Result' = Outcome("passed", <<>>)
        BY <2>1, <2>3, <2>7, <2>10, <3>1, <3>2 DEF Taken
      <4>2. Disk' = Volume!Written(c, 0)
        BY <1>1, <1>2, <2>3, NothingWritten DEF IInv, Core, Others
      <4>3. Volume!Write
        BY <1>0, <2>10, <3>1, <3>2, <4>1, <4>2 DEF Volume!Write, Volume!Effect, Outcome, Disk
      <4> QED
        BY <2>8, <4>3
    <3>3. CASE c.n # 0
      <4>1. "OUT" \in dev'.flags
        BY <2>1, <2>10, <3>3 DEF Taken
      <4>2. ~Performed'
        BY <1>1, <4>1 DEF Performed
      <4>3. Result' = NoCmd
        BY <4>2 DEF Result
      <4> QED
        BY <1>0, <1>1, <1>2, <3>1, <4>3, Unseen
    <3> QED
      BY <3>2, <3>3
  <2>11. CASE c.op \in ShortAnswers
    <3>0. dev'.status = "passed" /\ dev'.flags = {"CSW"}
      BY <1>1, <2>1, <2>11 DEF InTurn, Taken, ShortAnswers
    <3>1. /\ dev'.status = "passed" /\ Result' = Outcome("passed", <<dev'.resp>>)
          /\ dev'.resp = Reply(c.op, IF c.op = "REQUEST_SENSE" THEN dev.sense ELSE "none", Num(c))
      BY <2>1, <2>2, <2>7, <2>11, <3>0 DEF Taken, ShortAnswers
    <3>2. CASE c.op = "REQUEST_SENSE"
      <4>1. dev.status # "passed" /\ Result' = Outcome("passed", <<Reply("REQUEST_SENSE", dev.sense, 0)>>)
        BY <1>1, <3>1, <3>2 DEF InTurn, Num
      <4>2. Volume!RequestSense
        BY <1>0, <1>1, <3>1, <3>2, <4>1 DEF Volume!RequestSense, Volume!Reply, Reply, Outcome
      <4> QED
        BY <2>8, <4>2
    <3>3. CASE c.op # "REQUEST_SENSE"
      <4>1. Result' = Outcome("passed", <<Reply(c.op, "none", Num(c))>>)
        BY <3>1, <3>3
      <4>2. capacity = Volume!Size(IF Locked THEN "decoy" ELSE "hidden")
        BY DEF Meaning, Volume!Size, HiddenSize
      <4>3. Volume!Inquire
        BY <1>0, <1>1, <2>11, <3>1, <3>3, <4>1, <4>2
           DEF Volume!Inquire, Volume!Effect, Volume!Reply, Reply, Num, Outcome, ShortAnswers
      <4> QED
        BY <2>8, <4>3
    <3> QED
      BY <3>2, <3>3
  <2>12. CASE c.op \in {"TEST_READY", "VERIFY10"}
    <3>1. c.len = 0
      BY <1>1, <2>12 DEF WellFormed
    <3>2. dev'.status = "passed" /\ Result' = Outcome("passed", <<>>)
      BY <2>1, <2>7, <2>12, <3>1 DEF Taken
    <3>3. Volume!Acknowledge
      BY <1>0, <1>1, <2>12, <3>2 DEF Volume!Acknowledge, Volume!Effect, Outcome
    <3> QED
      BY <2>8, <3>3
  <2>13. CASE c.op \in {"UNSUPPORTED", "MODE_SENSE10_PAGE"}
    <3>1. dev'.status = "failed" /\ dev'.sense = "illegal" /\ Result' = Outcome("failed", <<>>)
      BY <2>1, <2>7, <2>13 DEF Taken
    <3>2. Volume!Refuse
      BY <1>0, <1>1, <2>13, <3>1 DEF Volume!Refuse, Volume!Effect, Outcome
    <3> QED
      BY <2>8, <3>2
  <2> QED
    BY <1>1, <1>5, <2>9, <2>10, <2>11, <2>12, <2>13 DEF WellFormed
<1> QED
  BY <1>4, <1>5

----------------------------------------------------------------------------
(* Steps of which the host sees no answer and the volume nothing.          *)

\* What a step may leave of the device for the host's command to stay as it is.
DevKept ==
  /\ dev'.tag = dev.tag /\ dev'.op = dev.op /\ dev'.status = dev.status
  /\ dev'.sense = dev.sense /\ dev'.resp = dev.resp

LEMMA LoopMeans ==
  ASSUME Meaning, DevKept, dev'.flags = dev.flags, dev'.lba = dev.lba, dev'.left = dev.left,
         dev'.txbuf = dev.txbuf, dev'.tx = dev.tx, dev'.wr => dev.wr,
         UNCHANGED <<rxbuf, xfer, card, host, cmd, recv, seen, pstate, capacity>>,
         pc \notin {"readCsw", "writeCsw"}, pc' \notin {"readCsw", "writeCsw"},
         pc' = "write" => pc = "write" \/ dev.wr
  PROVE  Meaning' /\ VStep
<1>1. Locked' = Locked /\ Arrived' = Arrived
  BY DEF Locked, Arrived
<1>2. Performed' = Performed
  BY <1>1 DEF Performed
<1>3. Result' = Result
  BY <1>2 DEF Result, DevKept
<1>4. VStep
  BY <1>1, <1>3, Unseen DEF DevKept, Err, Cleared
<1>5. (Settled => Settled') /\ (Asked => Asked')
  BY DEF Settled, Asked, InTurn, DevKept
<1>6. (ReadOn => ReadOn') /\ (WriteOn => WriteOn') /\ (Answered => Answered')
  BY <1>1 DEF ReadOn, WriteOn, Answered, DevKept
<1>7. Underway => Underway'
  BY <1>6 DEF Underway, DevKept
<1> QED
  BY <1>1, <1>4, <1>5, <1>7 DEF Meaning, HiddenSize

LEMMA UnderMeans ==
  ASSUME Meaning, cmd # NoCmd, cmd.cbw.op # "BAD_SIGNATURE", ~Arrived, ~Arrived', DevKept,
         UNCHANGED <<card, cmd, seen, pstate, capacity>>,
         recv' = recv \/ cmd.cbw.op # "READ10",
         Performed' <=> Performed, Answered', "IN" \in dev'.flags => ReadOn',
         "OUT" \in dev'.flags => WriteOn'
  PROVE  Meaning' /\ VStep
<1>1. Locked' = Locked
  BY DEF Locked
<1>2. Result' = Result
  BY DEF Result, DevKept
<1>3. VStep
  BY <1>1, <1>2, Unseen DEF DevKept, Err, Cleared
<1>4. Underway'
  BY DEF Meaning, Underway, DevKept
<1> QED
  BY <1>1, <1>3, <1>4 DEF Meaning, HiddenSize

\* A command that is under way, but was not refused for its signature.
LEMMA UnderwayFacts ==
  ASSUME Meaning, cmd # NoCmd, ~Arrived, ~(dev.flags = {} /\ dev.tx = "STALL")
  PROVE  /\ cmd.cbw.op # "BAD_SIGNATURE" /\ dev.tag = cmd.tag /\ dev.op = cmd.cbw.op
         /\ "IN" \in dev.flags => ReadOn
         /\ "OUT" \in dev.flags => WriteOn
         /\ Answered
BY DEF Meaning, Underway

\* A status is queued.
LEMMA CswAnswered ==
  ASSUME NEW d \in Devs, d.tag = dev.tag, d.op = dev.op, d.status = dev.status, d.sense = dev.sense,
         d.resp = dev.resp, Answered, dev.op = cmd.cbw.op, dev' = SendCsw(d), UNCHANGED <<cmd, recv>>,
         host' = host \/ dev.tx = "STALL"
  PROVE  Answered' /\ DevKept /\ dev'.flags = {} /\ dev'.tx = "ACK"
<1>1. Queued(dev', d, {})
  BY CswMeans
<1>2. DevKept /\ dev'.flags = {} /\ dev'.tx = "ACK"
  BY <1>1 DEF Queued, Kept, DevKept
<1>3. Queues(dev', dev'.tag)
  BY <1>1 DEF Queued, Kept
<1>4. ASSUME cmd.cbw.op \in ShortAnswers PROVE host' = host
  BY <1>4 DEF Answered
<1>5. Answered'
  BY <1>2, <1>3, <1>4 DEF Answered, DevKept, Queues
<1> QED
  BY <1>2, <1>5

----------------------------------------------------------------------------
(* The interrupt.                                                          *)
LEMMA InMeans ==
  ASSUME Core, Meaning, IsrIn
  PROVE  Meaning' /\ VStep
<1> DEFINE d == [dev EXCEPT !.tx = "NAK", !.txbuf = NoBuffer]
<1>1. NoBuffer \in Buffers
  BY DEF NoBuffer, Buffers, NoReply, Reply, Replies, Ops, Senses, Status
<1>2. /\ d \in Devs /\ d.flags = dev.flags /\ d.tx = "NAK" /\ d.op = dev.op /\ d.tag = dev.tag
      /\ d.status = dev.status /\ d.sense = dev.sense /\ d.resp = dev.resp
  BY <1>1 DEF Core, Devs
<1>3. dev' = BulkIn(d)
  BY DEF IsrIn
<1> HIDE DEF d
<1>4. /\ xfer = "in" /\ xfer' = "none"
      /\ UNCHANGED <<rxbuf, pc, pstate, capacity, card, host, cmd, recv, seen>>
  BY DEF IsrIn, volVars, hostVars
<1>5. ~Arrived /\ ~Arrived'
  BY <1>4 DEF Arrived
<1>6. CASE Idle
  <2>1. DevKept /\ cmd = NoCmd /\ cmd' = NoCmd
    BY <1>2, <1>3, <1>4, <1>6, BulkInFacts DEF Idle, DevKept
  <2>2. Result = NoCmd /\ Result' = NoCmd /\ Locked' = Locked
    BY <1>4, <2>1 DEF Result, Performed, Locked
  <2>3. VStep
    BY <1>4, <2>1, <2>2, Unseen DEF DevKept, Err, Cleared
  <2>4. Meaning'
    BY <1>4, <2>1, <2>2 DEF Meaning, Settled, DevKept, HiddenSize
  <2> QED
    BY <2>3, <2>4
<1>7. CASE Answering /\ cmd # NoCmd
  <2>1. dev.op # "READ10" /\ dev.flags \in {{"CSW"}, {"CSW", "IN"}} /\ dev.tx = "ACK"
    BY <1>7 DEF Answering
  <2>2. /\ cmd.cbw.op # "BAD_SIGNATURE" /\ dev.op = cmd.cbw.op
        /\ "IN" \in dev.flags => ReadOn
        /\ Answered
    BY <1>5, <1>7, <2>1, UnderwayFacts
  <2>3. dev.flags = {"CSW"}
    BY <2>1, <2>2 DEF ReadOn
  <2>4. dev' = SendCsw(d)
    BY <1>2, <1>3, <2>3, BulkInFacts
  <2>5. Answered' /\ DevKept /\ dev'.flags = {}
    BY <1>2, <1>4, <2>2, <2>4, CswAnswered
  <2>6. Performed /\ Performed'
    BY <1>4, <1>5, <1>7, <2>2, <2>3, <2>5 DEF Performed, Arrived
  <2> QED
    BY <1>4, <1>5, <1>7, <2>2, <2>5, <2>6, UnderMeans
<1> QED
  BY <1>4, <1>6, <1>7 DEF Core, Phases, InCommand, CbwSent, Rejected, Declined, ReadPhase,
     DataPhase, WritePhase, CswQueued

LEMMA OutMeans ==
  ASSUME IInv, Meaning, IsrOut, ~TailInterrupted, WellFormed, NoCmdApart
  PROVE  Meaning' /\ VStep
<1> DEFINE d == BulkOut(dev, rxbuf)
<1>1. dev' = [d EXCEPT !.rx = IF d.wr THEN "NAK" ELSE d.rx]
  BY DEF IsrOut
<1>2. /\ xfer = "out" /\ xfer' = "none" /\ rxbuf' = (IF d.wr THEN rxbuf ELSE NoPacket)
      /\ UNCHANGED <<pc, pstate, capacity, card, host, cmd, recv, seen>> /\ dev \in Devs
  BY DEF IsrOut, volVars, hostVars, IInv, Core
<1> HIDE DEF d
<1>3. ~Arrived'
  BY <1>2 DEF Arrived
<1>4. CASE CbwSent /\ InCommand
  BY <1>4, CbwStep
<1>5. CASE DataPhase /\ InCommand
  <2>1. "OUT" \in dev.flags /\ dev.flags = {"CSW", "OUT"} /\ Polling /\ rxbuf.kind = "data" /\ cmd # NoCmd
        /\ dev.tx = "NAK"
    BY <1>2, <1>5 DEF DataPhase, OutPhase, InCommand
  <2>2. d = [dev EXCEPT !.wr = TRUE]
    BY <2>1 DEF d, BulkOut
  <2>3. d.wr
    BY <1>2, <2>2 DEF Devs
  <2>4. /\ DevKept /\ dev'.flags = dev.flags /\ dev'.lba = dev.lba /\ dev'.left = dev.left
        /\ dev'.tx = dev.tx /\ dev'.txbuf = dev.txbuf /\ rxbuf' = rxbuf
    BY <1>1, <1>2, <2>2, <2>3 DEF Devs, DevKept
  <2>5. ~Arrived /\ pc \notin {"readCsw", "writeCsw"}
    BY <2>1 DEF Arrived, Polling, Streams
  <2>6. cmd.cbw.op # "BAD_SIGNATURE" /\ WriteOn /\ Answered
    BY <2>1, <2>5, UnderwayFacts
  <2>7. WriteOn' /\ Answered' /\ "IN" \notin dev'.flags
    BY <1>2, <2>1, <2>4, <2>5, <2>6 DEF WriteOn, Answered, DevKept
  <2>8. ~Performed /\ ~Performed'
    BY <1>2, <2>1, <2>4, <2>5 DEF Performed
  <2> QED
    BY <1>2, <1>3, <2>1, <2>4, <2>5, <2>6, <2>7, <2>8, UnderMeans
<1>6. CASE CswQueued /\ InCommand
  <2>1. /\ dev.flags = {} /\ rxbuf.kind = "data" /\ ~dev.wr /\ dev.tx = "ACK" /\ cmd # NoCmd
    BY <1>2, <1>6 DEF CswQueued, InCommand, Quiet
  <2>2. d = dev
    BY <2>1 DEF d, BulkOut
  <2>3. dev' = dev
    BY <1>1, <1>2, <2>1, <2>2 DEF Devs
  <2>4. ~Arrived
    BY <2>1 DEF Arrived
  <2>5. cmd.cbw.op # "BAD_SIGNATURE" /\ Answered
    BY <2>1, <2>4, UnderwayFacts
  <2>6. Answered' /\ DevKept
    BY <1>2, <2>3, <2>5 DEF Answered, DevKept
  <2>7. Performed' <=> Performed
    BY <1>2, <1>3, <2>3, <2>4 DEF Performed, Arrived
  <2> QED
    BY <1>2, <1>3, <2>1, <2>3, <2>4, <2>5, <2>6, <2>7, UnderMeans
<1> QED
  BY <1>2, <1>4, <1>5, <1>6 DEF IInv, Core, Phases, Idle, InCommand, Rejected, Declined, Answering,
     ReadPhase, WritePhase

----------------------------------------------------------------------------
(* The host.                                                               *)
LEMMA AcceptMeans ==
  ASSUME IInv, Meaning, SendCbw, PoliteSense
  PROVE  Meaning' /\ VStep
<1>1. PICK c \in Commands : /\ IF seen # NoCmd /\ seen.status # "passed"
                                 THEN c.op # "MODE_SENSE" ELSE c.op # "REQUEST_SENSE"
                            /\ cmd' = [tag |-> tag, cbw |-> c]
                            /\ rxbuf' = [kind |-> "cbw", cbw |-> cmd', val |-> "none"]
  BY DEF SendCbw
<1>2. /\ host = "idle" /\ xfer' = "out"
      /\ UNCHANGED <<dev, pstate, capacity, card, recv, seen>>
  BY DEF SendCbw, Busless, volVars
<1>3. cmd = NoCmd
  BY <1>2 DEF IInv, Core, Phases, Idle, InCommand, CbwSent, Rejected, Declined, Answering, ReadPhase,
     DataPhase, WritePhase, CswQueued
<1>4. cmd' # NoCmd /\ cmd'.cbw = c
  BY <1>1 DEF IInv, Core, Others
<1>5. Arrived'
  BY <1>1, <1>2 DEF Arrived
<1>6. Result = NoCmd /\ Result' = NoCmd /\ Locked' = Locked
  BY <1>2, <1>3, <1>5 DEF Result, Performed, Arrived, Locked
<1>7. Asked'
  BY <1>1, <1>2, <1>3, <1>4 DEF Meaning, Settled, Asked, InTurn
<1>8. Meaning'
  BY <1>2, <1>4, <1>5, <1>6, <1>7 DEF Meaning, HiddenSize
<1>9. Err' = IF cmd'.cbw.op = "REQUEST_SENSE" THEN Err ELSE "none"
  <2>1. ~Arrived
    BY DEF SendCbw, Arrived
  <2> QED
    BY <1>2, <1>4, <1>5, <2>1 DEF Err, Cleared
<1>10. Volume!Accept
  BY <1>2, <1>3, <1>4, <1>6, <1>9 DEF Volume!Accept
<1> QED
  BY <1>8, <1>10 DEF VStep, Volume!Next

LEMMA SendDataMeans ==
  ASSUME IInv, Meaning, SendData
  PROVE  Meaning' /\ VStep
<1>1. /\ host = "out" /\ dev.rx = "ACK" /\ xfer = "none" /\ xfer' = "out"
      /\ rxbuf' = [kind |-> "data", cbw |-> NoCmd, val |-> cmd.cbw.data[sent + 1]]
      /\ host' \in {"csw", "out"}
      /\ UNCHANGED <<dev, cmd, recv, seen, pc, pstate, capacity, card>>
  BY DEF SendData, Busless, volVars
<1>2. ~Writes /\ ~RefusesOut /\ ~AwaitsReset
  BY <1>1 DEF IInv, RxDue
<1>3. ~Arrived /\ ~Arrived' /\ DevKept
  BY <1>1 DEF Arrived, DevKept
<1>4. (DataPhase \/ CswQueued) /\ InCommand
  BY <1>1, <1>2 DEF IInv, Core, Phases, Idle, InCommand, CbwSent, Rejected, Declined,
     Answering, ReadPhase, WritePhase, RefusesOut, AwaitsReset, Writes
<1>5. cmd # NoCmd /\ ~(dev.flags = {} /\ dev.tx = "STALL")
  BY <1>4 DEF InCommand, DataPhase, OutPhase, CswQueued
<1>6. /\ cmd.cbw.op # "BAD_SIGNATURE" /\ dev.op = cmd.cbw.op
      /\ "OUT" \in dev.flags => WriteOn
      /\ Answered
  BY <1>3, <1>5, UnderwayFacts
<1>7. Answered'
  BY <1>1, <1>6 DEF Answered
<1>8. "IN" \notin dev.flags
  BY <1>4 DEF DataPhase, OutPhase, CswQueued
<1>9. ASSUME "OUT" \in dev'.flags
      PROVE  WriteOn'
  <2>1. "OUT" \in dev.flags /\ DataPhase /\ sent = 0
    BY <1>1, <1>4, <1>9 DEF CswQueued, DataPhase
  <2>2. rxbuf'.val = cmd.cbw.data[1]
    BY <1>1, <2>1
  <2>3. pc # "writeCsw"
    BY <2>1 DEF DataPhase, Polling, Streams
  <2> QED
    BY <1>1, <1>6, <2>1, <2>2, <2>3 DEF WriteOn
<1>10. Performed' <=> Performed
  BY <1>1, <1>3 DEF Performed, Arrived
<1> QED
  BY <1>1, <1>3, <1>5, <1>6, <1>7, <1>8, <1>9, <1>10, UnderMeans

LEMMA TakeDataMeans ==
  ASSUME Core, Meaning, TakeData
  PROVE  Meaning' /\ VStep
<1>1. /\ host = "in" /\ dev.tx = "ACK" /\ xfer = "none" /\ dev.txbuf.kind = "data"
      /\ host' = "csw" /\ xfer' = "in" /\ recv' = Append(recv, dev.txbuf.val)
      /\ UNCHANGED <<dev, rxbuf, cmd, seen, pc, pstate, capacity, card>>
  BY DEF TakeData, Busless, volVars
<1>2. ~Arrived /\ ~Arrived' /\ DevKept
  BY <1>1 DEF Arrived, DevKept
<1>3. Answering /\ InCommand
  BY <1>1 DEF Core, Phases, Idle, InCommand, CbwSent, Rejected, Declined,
     ReadPhase, DataPhase, OutPhase, WritePhase, CswQueued
<1>4. cmd # NoCmd /\ dev.op # "READ10"
  BY <1>3 DEF InCommand, Answering
<1>5. /\ cmd.cbw.op # "BAD_SIGNATURE" /\ dev.op = cmd.cbw.op
      /\ "IN" \in dev.flags => ReadOn
      /\ Answered
  BY <1>1, <1>2, <1>4, UnderwayFacts
<1>6. "IN" \notin dev.flags /\ "OUT" \notin dev.flags
  BY <1>3, <1>4, <1>5 DEF Answering, ReadOn
<1>7. Answered'
  <2>1. recv = <<>> /\ dev.status = "passed" /\ cmd.cbw.op \in ShortAnswers
        /\ dev.txbuf.val = dev.resp
    BY <1>1, <1>5 DEF Answered
  <2>2. Append(<<>>, dev.resp) = <<dev.resp>>
    OBVIOUS
  <2>3. recv' = <<dev.resp>>
    BY <1>1, <2>1, <2>2
  <2> QED
    BY <1>1, <1>5, <2>1, <2>3 DEF Answered, ShortAnswers
<1>8. Performed' <=> Performed
  BY <1>1, <1>2 DEF Performed, Arrived
<1> QED
  BY <1>1, <1>2, <1>4, <1>5, <1>6, <1>7, <1>8, UnderMeans

LEMMA CompleteMeans ==
  ASSUME Core, Meaning, TakeCsw, WellFormed, NoCmdApart
  PROVE  Meaning' /\ VStep
<1> DEFINE c == cmd.cbw
<1>1. /\ host \in {"in", "csw"} /\ dev.tx = "ACK" /\ xfer = "none" /\ dev.txbuf.kind = "csw"
      /\ seen' = [tag |-> dev.txbuf.tag, status |-> dev.txbuf.status, data |-> recv]
      /\ cmd' = NoCmd /\ recv' = <<>>
      /\ UNCHANGED <<dev, pstate, capacity, card>>
  BY DEF TakeCsw, Busless, volVars
<1>2. CswQueued /\ InCommand
  BY <1>1 DEF Core, Phases, Idle, InCommand, CbwSent, Rejected, Declined,
     Answering, ReadPhase, DataPhase, OutPhase, WritePhase
<1>3. ~Arrived /\ cmd # NoCmd /\ dev.flags = {} /\ c \in Commands /\ host # "in"
  BY <1>1, <1>2 DEF Arrived, CswQueued, InCommand
<1>4. c.op # "BAD_SIGNATURE" /\ dev.tag = cmd.tag /\ Answered
  BY <1>1, <1>3, UnderwayFacts
<1>5. dev.txbuf.tag = dev.tag /\ dev.txbuf.status = dev.status
  BY <1>1, <1>4 DEF Answered
<1>6. Performed
  BY <1>3, <1>4 DEF Performed, Arrived
<1>7. recv = CASE dev.status # "passed" -> <<>>
               [] dev.status = "passed" /\ c.op = "READ10" -> recv
               [] OTHER -> IF c.dir = "in" /\ c.len > 0 THEN <<dev.resp>> ELSE <<>>
  <2>1. CASE c.op \in ShortAnswers
    <3>1. recv = <<dev.resp>> /\ dev.status = "passed" /\ c.op # "READ10" /\ c.dir = "in" /\ c.len > 0
      BY <1>3, <1>4, <2>1 DEF Answered, WellFormed, ShortAnswers
    <3> QED
      BY <3>1
  <2>2. CASE c.op \notin ShortAnswers \cup {"READ10"}
    <3>1. recv = <<>>
      BY <1>4, <2>2 DEF Answered
    <3>2. c.op \in {"WRITE10", "TEST_READY", "VERIFY10", "UNSUPPORTED", "MODE_SENSE10_PAGE"}
      BY <1>3, <1>4, <2>2 DEF WellFormed
    <3>3. dev.status # "passed" \/ ~(c.dir = "in" /\ c.len > 0)
      BY <1>3, <1>4, <3>2 DEF Answered, WellFormed
    <3> QED
      BY <2>2, <3>1, <3>3
  <2>3. CASE c.op = "READ10"
    BY <1>4, <2>3 DEF Answered
  <2> QED
    BY <2>1, <2>2, <2>3
<1>8. seen' = Result
  <2> HIDE <1>7
  <2>1. Result = [tag |-> dev.tag, status |-> dev.status, data |-> recv]
    BY <1>6, <1>7 DEF Result
  <2> QED
    BY <1>1, <1>5, <2>1
<1>9. seen' # NoCmd
  BY <1>1 DEF NoCmdApart
<1>10. Result' = NoCmd /\ Locked' = Locked
  BY <1>1 DEF Result, Performed, Locked
<1>11. Settled'
  BY <1>1, <1>5, <1>9 DEF Settled
<1>12. Meaning'
  BY <1>1, <1>10, <1>11 DEF Meaning, HiddenSize
<1>13. Err' = Err
  BY <1>1, <1>3 DEF Err, Cleared
<1>14. Volume!Complete
  BY <1>1, <1>3, <1>8, <1>9, <1>10, <1>13 DEF Volume!Complete
<1> QED
  BY <1>12, <1>14 DEF VStep, Volume!Next

LEMMA ClearOutMeans ==
  ASSUME IInv, Meaning, ClearHaltOut
  PROVE  Meaning' /\ VStep
<1>1. /\ host = "out" /\ dev.rx = "STALL" /\ xfer = "none" /\ cmd.cbw.op # "BAD_SIGNATURE"
      /\ dev' = [dev EXCEPT !.rx = "ACK"] /\ host' = "csw"
      /\ UNCHANGED <<rxbuf, xfer, cmd, recv, seen, pc, pstate, capacity, card>>
  BY DEF ClearHaltOut, Busless, volVars
<1>2. /\ DevKept /\ dev'.flags = dev.flags /\ dev'.tx = dev.tx /\ dev'.txbuf = dev.txbuf
  BY <1>1 DEF IInv, Core, Devs, DevKept
<1>3. ~Writes /\ (RefusesOut \/ AwaitsReset)
  BY <1>1 DEF IInv, RxDue
<1>4. Declined /\ InCommand
  BY <1>1, <1>3 DEF IInv, Core, Phases, Idle, InCommand, CbwSent, Rejected, Answering, ReadPhase,
     DataPhase, OutPhase, WritePhase, CswQueued, RefusesOut, AwaitsReset
<1>5. ~Arrived /\ ~Arrived' /\ cmd # NoCmd /\ dev.flags = {"CSW"}
  BY <1>1, <1>4 DEF Arrived, InCommand, Declined
<1>6. Answered
  BY <1>5, UnderwayFacts
<1>7. Answered' /\ "IN" \notin dev'.flags /\ "OUT" \notin dev'.flags
  BY <1>1, <1>2, <1>5, <1>6 DEF Answered, DevKept
<1>8. Performed' <=> Performed
  BY <1>1, <1>2, <1>5 DEF Performed, Arrived
<1> QED
  BY <1>1, <1>2, <1>5, <1>7, <1>8, UnderMeans

LEMMA ClearInMeans ==
  ASSUME IInv, Meaning, ClearHaltIn
  PROVE  Meaning' /\ VStep
<1> DEFINE d == [dev EXCEPT !.tx = "NAK"]
<1>1. /\ host \in {"in", "csw"} /\ dev.tx = "STALL" /\ xfer = "none" /\ cmd.cbw.op # "BAD_SIGNATURE"
      /\ dev' = BulkIn(d) /\ host' = "csw"
      /\ UNCHANGED <<rxbuf, xfer, cmd, recv, seen, pc, pstate, capacity, card>>
  BY DEF ClearHaltIn, Busless, volVars
<1>2. /\ d \in Devs /\ d.flags = dev.flags /\ d.op = dev.op /\ d.tag = dev.tag
      /\ d.status = dev.status /\ d.sense = dev.sense /\ d.resp = dev.resp
  BY <1>1 DEF IInv, Core, Devs
<1> HIDE DEF d
<1>3. Declined /\ InCommand
  BY <1>1 DEF IInv, Core, Phases, Idle, InCommand, CbwSent, Rejected, Answering, ReadPhase,
     DataPhase, OutPhase, WritePhase, CswQueued
<1>4. ~Arrived /\ ~Arrived' /\ cmd # NoCmd /\ dev.flags = {"CSW"}
  BY <1>1, <1>3 DEF Arrived, InCommand, Declined
<1>5. dev.op = cmd.cbw.op /\ Answered
  BY <1>4, UnderwayFacts
<1>6. dev' = SendCsw(d)
  BY <1>1, <1>2, <1>4, BulkInFacts
<1>7. Answered' /\ DevKept /\ dev'.flags = {}
  BY <1>1, <1>2, <1>5, <1>6, CswAnswered
<1>8. Performed' <=> Performed
  BY <1>1, <1>4, <1>7 DEF Performed, Arrived
<1> QED
  BY <1>1, <1>4, <1>7, <1>8, UnderMeans

LEMMA DiscardMeans ==
  ASSUME IInv, Meaning, ResetRecovery, NoCmdApart
  PROVE  Meaning' /\ VStep
<1>1. /\ host # "idle" /\ dev.tx = "STALL" /\ cmd.cbw.op = "BAD_SIGNATURE" /\ xfer = "none"
      /\ dev' = [dev EXCEPT !.tx = "NAK", !.rx = "ACK"]
      /\ seen' = [tag |-> cmd.tag, status |-> "phase", data |-> <<>>]
      /\ cmd' = NoCmd /\ recv' = <<>>
      /\ UNCHANGED <<pstate, capacity, card>>
  BY DEF ResetRecovery, Busless, volVars
<1>2. DevKept
  BY <1>1 DEF IInv, Core, Devs, DevKept
<1>3. cmd # NoCmd
  BY <1>1 DEF IInv, Core, Phases, Idle, InCommand
<1>4. dev.status = "phase"
  BY <1>1, <1>3 DEF Meaning, Underway, Arrived
<1>5. seen' # NoCmd
  BY <1>1 DEF NoCmdApart
<1>6. Result = NoCmd /\ Result' = NoCmd /\ Locked' = Locked
  BY <1>1 DEF Result, Performed, Locked
<1>7. Meaning'
  BY <1>1, <1>2, <1>4, <1>5, <1>6 DEF Meaning, Settled, HiddenSize, DevKept
<1>8. Err' = Err
  BY <1>1, <1>2 DEF Err, Cleared, Arrived, DevKept
<1>9. Volume!Discard
  BY <1>1, <1>2, <1>3, <1>6, <1>8 DEF Volume!Discard, DevKept
<1> QED
  BY <1>7, <1>9 DEF VStep, Volume!Next

----------------------------------------------------------------------------
(* The main loop.                                                          *)
LEMMA PollMeans ==
  ASSUME Core, Meaning, PollRead \/ PollWrite
  PROVE  Meaning' /\ VStep
<1>1. /\ UNCHANGED <<rxbuf, xfer, card, host, cmd, recv, seen, pstate, capacity>>
      /\ pc \in {"poll", "pollWrite"} /\ pc' \in {"read", "pollWrite", "write", "pollUnlock"}
      /\ pc' = "write" => dev.wr
      /\ dev' = [dev EXCEPT !.rd = FALSE] \/ dev' = [dev EXCEPT !.wr = FALSE]
  BY DEF PollRead, PollWrite, Goto, volVars, hostVars
<1>2. /\ DevKept /\ dev'.flags = dev.flags /\ dev'.lba = dev.lba /\ dev'.left = dev.left
      /\ dev'.txbuf = dev.txbuf /\ dev'.tx = dev.tx /\ (dev'.wr => dev.wr)
  BY <1>1 DEF Core, Devs, DevKept
<1> QED
  BY <1>1, <1>2, LoopMeans

LEMMA TailMeans ==
  ASSUME IInv, Meaning, TailLoad \/ TailStore
  PROVE  Meaning' /\ VStep
<1>1. /\ UNCHANGED <<rxbuf, xfer, card, host, cmd, recv, seen, pstate, capacity>>
      /\ pc \in {"tail", "tailStore"} /\ pc' \in {"tailStore", "pollWrite"}
      /\ dev' = dev \/ dev' = [dev EXCEPT !.flags = reg]
  BY DEF TailLoad, TailStore, Goto, volVars, hostVars
<1>2. dev.flags = {} /\ reg = {} /\ dev \in Devs
  BY <1>1, TailFlags DEF InTail, IInv, Core
<1>3. dev' = dev
  BY <1>1, <1>2 DEF Devs
<1> QED
  BY <1>1, <1>3, LoopMeans DEF DevKept

LEMMA RearmMeans ==
  ASSUME Core, Meaning, Rearm \/ SkipUnlock
  PROVE  Meaning' /\ VStep
<1>1. /\ UNCHANGED <<rxbuf, xfer, card, host, cmd, recv, seen, pstate, capacity>>
      /\ pc \in {"rearm", "pollUnlock"} /\ pc' \in {"pollUnlock", "poll"}
      /\ dev' = dev \/ dev' = [dev EXCEPT !.rx = "ACK"]
  BY DEF Rearm, SkipUnlock, Goto, volVars, hostVars
<1>2. /\ DevKept /\ dev'.flags = dev.flags /\ dev'.lba = dev.lba /\ dev'.left = dev.left
      /\ dev'.txbuf = dev.txbuf /\ dev'.tx = dev.tx /\ (dev'.wr => dev.wr)
  BY <1>1 DEF Core, Devs, DevKept
<1> QED
  BY <1>1, <1>2, LoopMeans

LEMMA ReadMeans ==
  ASSUME IInv, Meaning, ReadStream
  PROVE  Meaning' /\ VStep
<1> DEFINE c == cmd.cbw
           S == [i \in 1 .. dev.left |-> SectorAt(dev.lba + i - 1)]
<1>1. /\ pc = "read" /\ pc' = "readCsw" /\ host = "in" /\ host' = "csw"
      /\ PhysicalLba(dev.lba) + dev.left <= CARD
      /\ recv' = S
      /\ dev' = [dev EXCEPT !.left = 0, !.lba = @ + dev.left, !.tx = "NAK"]
      /\ UNCHANGED <<rxbuf, xfer, cmd, seen, pstate, capacity, card>>
  BY DEF ReadStream, Goto, volVars
<1> HIDE DEF S
<1>2. ReadPhase /\ InCommand
  BY <1>1 DEF IInv, Core, Phases, Idle, InCommand, CbwSent, Rejected, Declined, Answering, ReadPhase,
     DataPhase, WritePhase, CswQueued, Polling, Streams, InTail
<1>3. xfer = "none" /\ cmd # NoCmd /\ dev.flags = {"CSW", "IN"} /\ c \in Commands
  BY <1>2 DEF ReadPhase, InCommand
<1>4. ~Arrived /\ ~Arrived'
  BY <1>1, <1>3 DEF Arrived
<1>5. c.op # "BAD_SIGNATURE" /\ dev.tag = cmd.tag /\ ReadOn /\ dev.op = c.op
  BY <1>3, <1>4, UnderwayFacts
<1>6. /\ c.op = "READ10" /\ dev.status = "passed" /\ dev.lba = c.lba /\ dev.left = c.n
      /\ Locked => dev.lba + dev.left <= LOCKED
  BY <1>1, <1>5 DEF ReadOn
<1>7. DevKept /\ dev'.flags = dev.flags /\ dev'.tx = "NAK"
  BY <1>1 DEF IInv, Core, Devs, DevKept
<1>8. Locked' = Locked /\ Result = NoCmd
  BY <1>1, <1>3 DEF Locked, Result, Performed
<1>9. Performed'
  BY <1>1, <1>3, <1>4, <1>5 DEF Performed, Arrived
<1>10. Result' = Outcome("passed", S)
  BY <1>1, <1>5, <1>6, <1>7, <1>9, ResultNow DEF DevKept
<1>11. dev.lba \in Nat /\ dev.left \in 0 .. CARD
  BY DEF IInv, Core, Devs
<1>12. S = [i \in 1 .. c.n |-> Volume!Reply("sector",
                                 Disk[IF Locked THEN "decoy" ELSE "hidden"][c.lba + i - 1], 0)]
  <2>1. ASSUME NEW i \in 1 .. c.n
        PROVE  SectorAt(c.lba + i - 1) = Volume!Reply("sector",
                                 Disk[IF Locked THEN "decoy" ELSE "hidden"][c.lba + i - 1], 0)
    <3> DEFINE l == c.lba + i - 1
    <3>1. l \in Nat
      BY <1>6, <1>11
    <3>2. CASE Locked
      <4>1. l \in 0 .. LOCKED - 1
        BY <1>6, <1>11, <3>2
      <4>2. Disk["decoy"][l] = Plain(card[l], FALSE)
        BY <4>1 DEF Disk
      <4>3. SectorAt(l) = Reply("sector", Plain(card[l], FALSE), 0)
        BY <3>2 DEF SectorAt, PhysicalLba
      <4> QED
        BY <3>2, <4>2, <4>3 DEF Reply, Volume!Reply
    <3>3. CASE ~Locked
      <4>1. l \in 0 .. HiddenSize - 1
        BY <1>1, <1>6, <1>11, <3>3 DEF PhysicalLba, HiddenSize
      <4>2. Disk["hidden"][l] = Plain(card[LOCKED + l], TRUE)
        BY <4>1 DEF Disk
      <4>3. SectorAt(l) = Reply("sector", Plain(card[LOCKED + l], TRUE), 0)
        <5>1. l + LOCKED = LOCKED + l
          BY <3>1
        <5> QED
          BY <3>3, <5>1 DEF SectorAt, PhysicalLba
      <4> QED
        BY <3>3, <4>2, <4>3 DEF Reply, Volume!Reply
    <3> QED
      BY <3>2, <3>3
  <2> QED
    BY <1>6, <2>1 DEF S
<1>13. Volume!InVolume(c)
  BY <1>1, <1>6, <1>11 DEF Volume!InVolume, Volume!Size, PhysicalLba
<1>14. Volume!Read
  <2>1. Err' = "none"
    BY <1>6, <1>7 DEF Err, DevKept
  <2> QED
    BY <1>1, <1>6, <1>7, <1>10, <1>12, <1>13, <2>1 DEF Volume!Read, Volume!Effect, Outcome, Disk, DevKept
<1>15. Volume!Perform
  BY <1>1, <1>3, <1>8, <1>14 DEF Volume!Perform
<1>16. Meaning'
  <2>1. Answered'
    BY <1>1, <1>6, <1>7 DEF Answered, DevKept, ShortAnswers
  <2>2. ReadOn' /\ "OUT" \notin dev'.flags
    BY <1>1, <1>3, <1>6, <1>7 DEF ReadOn, DevKept
  <2>3. Underway'
    BY <1>1, <1>5, <1>7, <2>1, <2>2 DEF Underway, DevKept
  <2> QED
    BY <1>1, <1>3, <1>4, <1>8, <2>3 DEF Meaning, HiddenSize
<1> QED
  BY <1>15, <1>16 DEF VStep, Volume!Next

LEMMA CswMeansKept ==
  ASSUME IInv, Meaning, ReadCsw \/ WriteCsw
  PROVE  Meaning' /\ VStep
<1>1. /\ pc \in {"readCsw", "writeCsw"} /\ pc' \in {"tail", "rearm"} /\ dev' = SendCsw(dev)
      /\ UNCHANGED <<rxbuf, xfer, host, cmd, recv, seen, pstate, capacity, card>>
  BY DEF ReadCsw, WriteCsw, Goto, volVars, hostVars
<1>2. (ReadPhase \/ WritePhase) /\ InCommand /\ dev \in Devs
  BY <1>1 DEF IInv, Core, Phases, Idle, InCommand, CbwSent, Rejected, Declined, Answering, ReadPhase,
     DataPhase, WritePhase, CswQueued, Polling, Streams, InTail
<1>3. ~Arrived /\ ~Arrived' /\ cmd # NoCmd /\ "CSW" \in dev.flags
  BY <1>1, <1>2 DEF ReadPhase, WritePhase, InCommand, Arrived
<1>4. cmd.cbw.op # "BAD_SIGNATURE" /\ dev.op = cmd.cbw.op /\ Answered
  BY <1>3, UnderwayFacts
<1>5. Answered' /\ DevKept /\ dev'.flags = {}
  BY <1>1, <1>2, <1>4, CswAnswered
<1>6. Performed /\ Performed'
  BY <1>1, <1>3, <1>4, <1>5 DEF Performed, Arrived
<1> QED
  BY <1>1, <1>3, <1>4, <1>5, <1>6, UnderMeans

LEMMA WriteMeans ==
  ASSUME IInv, Meaning, WriteStream \/ WriteFails, WellFormed, WritesWithinCapacity
  PROVE  Meaning' /\ VStep
<1> DEFINE c == cmd.cbw
<1>1. PICK r : Streamed(r)
  BY DEF WriteStream, WriteFails
<1>2. /\ pstate' = Snooped(r) /\ host' \in {"csw", "out"} /\ rxbuf' = NoPacket
      /\ UNCHANGED <<xfer, capacity, cmd, recv, seen>>
  BY <1>1 DEF Streamed
<1>3. pc = "write" /\ pc' = "writeCsw"
  BY DEF WriteStream, WriteFails, Goto
<1>4. WritePhase /\ InCommand /\ ~dev.wr
  BY <1>3 DEF IInv, Core, Phases, Idle, InCommand, CbwSent, Rejected, Declined, Answering, ReadPhase,
     DataPhase, WritePhase, CswQueued, Polling, Streams, InTail
<1>5. /\ xfer = "none" /\ dev.flags = {"CSW", "OUT"} /\ cmd # NoCmd /\ c \in Commands /\ dev \in Devs
      /\ dev.tx = "NAK"
  BY <1>4 DEF WritePhase, InCommand, IInv, Core
<1>6. ~Arrived /\ ~Arrived'
  BY <1>2, <1>5 DEF Arrived
<1>7. c.op # "BAD_SIGNATURE" /\ dev.tag = cmd.tag /\ dev.op = c.op /\ WriteOn /\ Answered
  BY <1>5, <1>6, UnderwayFacts
<1>8. /\ c.op = "WRITE10" /\ dev.status = "passed" /\ dev.lba = c.lba /\ dev.left = c.n
      /\ rxbuf.val = c.data[1] /\ c.n = c.len /\ c.dir = "out" /\ c.lba \in Nat /\ c.n \in 0 .. CARD
  BY <1>3, <1>5, <1>7 DEF WriteOn, WellFormed
<1>9. \A x : OnCard(x) = Put(c, x)
  <2>1. \A i : Packet(i) = c.data[i]
    BY <1>8 DEF Packet
  <2> QED
    BY <1>8, <2>1 DEF OnCard, Put
<1>10. Locked' = Locked
  BY <1>2 DEF Locked, Snooped
<1>11. Locked => c.lba + c.n <= LOCKED
  BY <1>5, <1>8 DEF Meaning, WritesWithinCapacity
<1>12. ASSUME NEW k \in 0 .. c.n, card' = OnCard(k)
       PROVE  Disk' = Volume!Written(c, k)
  <2>1. k \in Nat /\ (Locked => c.lba + k <= LOCKED)
    BY <1>8, <1>11
  <2>2. card \in [0 .. CARD - 1 -> [val : Values, enc : BOOLEAN]]
    BY DEF IInv, Core, Others
  <2>3. card' = Put(c, k)
    BY <1>9, <1>12
  <2> QED
    BY <1>8, <1>10, <2>1, <2>2, <2>3, WrittenMeans
<1>13. Performed' /\ Result = NoCmd
  BY <1>2, <1>3, <1>5, <1>6, <1>7 DEF Performed, Arrived, Result
<1>14. ASSUME /\ dev'.tag = dev.tag /\ dev'.op = dev.op /\ dev'.flags = dev.flags /\ dev'.tx = dev.tx,
              Volume!Write
       PROVE  Meaning' /\ VStep
  <2>1. Volume!Perform
    BY <1>2, <1>5, <1>10, <1>13, <1>14 DEF Volume!Perform
  <2>2. Answered'
    BY <1>2, <1>5, <1>7, <1>8, <1>14 DEF Answered, ShortAnswers
  <2>3. WriteOn' /\ "IN" \notin dev'.flags
    BY <1>2, <1>3, <1>5, <1>8, <1>14 DEF WriteOn
  <2>4. Underway'
    BY <1>2, <1>7, <1>14, <2>2, <2>3 DEF Underway
  <2>5. Meaning'
    BY <1>2, <1>5, <1>6, <1>10, <2>4 DEF Meaning, HiddenSize
  <2> QED
    BY <2>1, <2>5 DEF VStep, Volume!Next
<1>15. CASE WriteStream
  <2>1. /\ card' = OnCard(c.n) /\ c.n \in 0 .. c.n /\ dev' = [dev EXCEPT !.left = 0]
    BY <1>8, <1>15 DEF WriteStream
  <2>2. /\ dev'.tag = dev.tag /\ dev'.op = dev.op /\ dev'.flags = dev.flags /\ dev'.tx = dev.tx
        /\ dev'.status = "passed"
    BY <1>5, <1>8, <2>1 DEF Devs
  <2>3. Result' = Outcome("passed", <<>>)
    BY <1>2, <1>7, <1>8, <1>13, <2>2, ResultNow
  <2>4. Disk' = Volume!Written(c, c.n)
    BY <1>12, <2>1
  <2>5. Volume!Write
    BY <1>8, <2>2, <2>3, <2>4 DEF Volume!Write, Volume!Effect, Outcome, Disk, Err
  <2> QED
    BY <1>14, <2>2, <2>5
<1>16. CASE WriteFails
  <2>1. PICK j \in 0 .. dev.left - 1, m \in 0 .. CHUNK - 1 :
               /\ j * CHUNK + m < dev.left /\ card' = OnCard(j * CHUNK + m)
               /\ dev' = SetSense([dev EXCEPT !.left = 0], "write", "failed")
    BY <1>16 DEF WriteFails
  <2> DEFINE k == j * CHUNK + m
  <2>2. k \in 0 .. c.n - 1 /\ k \in 0 .. c.n
    <3>1. j * CHUNK \in Nat /\ m \in Nat /\ dev.left \in Nat
      BY <1>5 DEF Devs
    <3> QED
      BY <1>8, <2>1, <3>1
  <2>3. /\ dev'.tag = dev.tag /\ dev'.op = dev.op /\ dev'.flags = dev.flags /\ dev'.tx = dev.tx
        /\ dev'.status = "failed" /\ dev'.sense = "write"
    BY <1>5, <2>1 DEF Devs, SetSense
  <2> HIDE DEF k
  <2>4. Result' = Outcome("failed", <<>>)
    BY <1>2, <1>7, <1>13, <2>3, ResultNow
  <2>5. Disk' = Volume!Written(c, k)
    BY <1>12, <2>1, <2>2 DEF k
  <2>6. Volume!Write
    <3>1. Err' = "write"
      BY <1>6, <2>3 DEF Err, Cleared
    <3> QED
      BY <1>8, <2>2, <2>4, <2>5, <3>1 DEF Volume!Write, Volume!Effect, Outcome, Disk
  <2> QED
    BY <1>14, <2>3, <2>6
<1> QED
  BY <1>15, <1>16

----------------------------------------------------------------------------
(* Bot.                                                                    *)
LEMMA InitMeans ==
  ASSUME Init
  PROVE  Meaning /\ Volume!Init
<1>1. Meaning
  BY DEF Init, Meaning, Settled, Locked, HiddenSize
<1>2. cmd = NoCmd /\ Result = NoCmd /\ seen = NoCmd /\ Err = "none"
  BY DEF Init, Result, Performed, Err
<1>3. DOMAIN Disk = {"decoy", "hidden"}
  BY DEF Disk
<1>4. ASSUME NEW v \in {"decoy", "hidden"}
      PROVE  Disk[v] \in [0 .. Volume!Size(v) - 1 -> {"zero", "garbled"}]
  <2>1. \A p \in 0 .. CARD - 1 :
          Plain(card[p], FALSE) \in {"zero", "garbled"} /\ Plain(card[p], TRUE) \in {"zero", "garbled"}
    BY DEF Init, Plain
  <2>2. [l \in 0 .. LOCKED - 1 |-> Plain(card[l], FALSE)] \in [0 .. LOCKED - 1 -> {"zero", "garbled"}]
    <3>1. \A l \in 0 .. LOCKED - 1 : l \in 0 .. CARD - 1
      OBVIOUS
    <3> QED
      BY <2>1, <3>1
  <2>3. [l \in 0 .. HiddenSize - 1 |-> Plain(card[LOCKED + l], TRUE)]
          \in [0 .. CARD - LOCKED - 1 -> {"zero", "garbled"}]
    <3>1. \A l \in 0 .. HiddenSize - 1 : LOCKED + l \in 0 .. CARD - 1
      BY DEF HiddenSize
    <3> QED
      BY <2>1, <3>1 DEF HiddenSize
  <2>4. CASE v = "decoy"
    BY <2>2, <2>4 DEF Disk, Volume!Size
  <2>5. CASE v = "hidden"
    BY <2>3, <2>5 DEF Disk, Volume!Size
  <2> QED
    BY <2>4, <2>5
<1> QED
  BY <1>1, <1>2, <1>3, <1>4 DEF Volume!Init, Disk

LEMMA TransferMeans ==
  ASSUME IInv, Meaning, Transfer, WellFormed, WritesWithinCapacity
  PROVE  Meaning' /\ VStep
BY PollMeans, ReadMeans, CswMeansKept, TailMeans, WriteMeans, RearmMeans DEF Transfer, IInv

LEMMA HostMeans ==
  ASSUME IInv, Meaning, HostGoesOn, WellFormed, NoCmdApart
  PROVE  Meaning' /\ VStep
BY SendDataMeans, TakeDataMeans, CompleteMeans, ClearOutMeans, ClearInMeans, DiscardMeans
   DEF HostGoesOn, IInv

LEMMA StillMeans ==
  ASSUME Meaning, UNCHANGED vars
  PROVE  Meaning' /\ VStep
<1>1. UNCHANGED <<dev, rxbuf, xfer, pc, card, host, cmd, recv, seen, pstate, capacity>>
  BY DEF vars, hostVars, volVars
<1>2. Locked' = Locked /\ Result' = Result /\ Err' = Err
  BY <1>1 DEF Locked, Result, Performed, Err, Cleared, Arrived
<1>3. Meaning'
  BY <1>1, <1>2 DEF Meaning, Settled, Asked, InTurn, Underway, ReadOn, WriteOn, Answered, Arrived, HiddenSize
<1> QED
  BY <1>1, <1>2, <1>3, Unseen

LEMMA StepMeans ==
  ASSUME IInv, Meaning, [Next]_vars, WritesWithinCapacity, ~TailInterrupted, PoliteSense, WellFormed,
         NoCmdApart
  PROVE  Meaning' /\ VStep
<1>1. CASE Isr
  BY <1>1, InMeans, OutMeans DEF Isr, IInv
<1>2. CASE SendCbw \/ HostGoesOn
  BY <1>2, AcceptMeans, HostMeans
<1>3. CASE Main
  BY <1>3, TransferMeans, RearmMeans DEF Main, IInv
<1> QED
  BY <1>1, <1>2, <1>3, StillMeans DEF Next

(* Every command takes effect once, on the right sectors of the visible    *)
(* volume, and is answered with its own tag, data, status and sense:       *)
(* interrupt and main loop together do what bot.c promises the host, with  *)
(* the flags, endpoints and buffers they share hidden.                     *)
THEOREM BotImplementsVolume ==
  ~TailInterrupted /\ PoliteSense /\ WellFormed /\ NoCmdApart =>
    (Spec /\ []WritesWithinCapacity => ImplementsVolume)
<1> SUFFICES ASSUME ~TailInterrupted, PoliteSense, WellFormed, NoCmdApart
             PROVE  Spec /\ []WritesWithinCapacity => ImplementsVolume
  OBVIOUS
<1>1. Init => IInv /\ Meaning /\ Volume!Init
  BY InitIInv, InitMeans
<1>2. IInv /\ Meaning /\ WritesWithinCapacity /\ [Next]_vars
        => IInv' /\ Meaning' /\ [Volume!Next]_(Volume!vars)
  BY StepIInv, StepMeans DEF VStep
<1> QED
  BY <1>1, <1>2, PTL DEF Spec, ImplementsVolume, Volume!Spec

----------------------------------------------------------------------------
(* Unlock.                                                                 *)
USE DirAssumption
USE DEF Attached, Detached, Closed, Certain, Switching

LEMMA Greatest ==
  ASSUME NEW N \in Nat, NEW L \in SUBSET (1 .. N), L # {}
  PROVE  \E i \in L : \A j \in L : j <= i
<1> DEFINE T == {N - i : i \in L}
           R == OpToRel(<, Nat)
<1>1. T \subseteq Nat /\ T # {}
  <2>1. \A i \in L : N - i \in Nat
    OBVIOUS
  <2> HIDE DEF R
  <2> QED
    BY <2>1
<1>2. IsWellFoundedOn(R, Nat)
  BY NatLessThanWellFounded
<1> HIDE DEF R
<1>3. PICK x \in T : \A y \in T : ~(<<y, x>> \in R)
  <2> HIDE DEF T
  <2> QED
    BY <1>1, <1>2, WFMin
<1>4. \A y \in T : ~(y < x)
  <2>1. \A y \in Nat, z \in Nat : y < z => <<y, z>> \in R
    BY DEF R, OpToRel
  <2> QED
    BY <1>1, <1>3, <2>1
<1>5. PICK i \in L : x = N - i
  OBVIOUS
<1>6. ASSUME NEW j \in L PROVE j <= i
  <2>1. ~(N - j < N - i)
    BY <1>4, <1>5
  <2> QED
    BY <2>1
<1> QED
  BY <1>6

\* A password line is on a sector of the decoy volume.
LEMMA SnoopedLba ==
  ASSUME UIInv, Meaning, UTypeOK, Writing, WellFormed, WritesWithinCapacity
  PROVE  pwLba' \in 0 .. LOCKED - 1 /\ pwLen' \in {"zero", "some"} /\ pwAge' \in 0 .. TIMEOUT
<1>1. CASE ~(Locked /\ Lines # {})
  BY <1>1 DEF Writing, SnoopLine, pwVars, UTypeOK
<1>2. CASE Locked /\ Lines # {}
  <2>1. pc = "write"
    BY DEF Writing, WriteStream, WriteFails, Goto
  <2>2. IInv
    BY <2>1, OpenIInv
  <2>3. WritePhase /\ InCommand
    BY <2>1, <2>2 DEF IInv, Core, Phases, Idle, InCommand, CbwSent, Rejected, Declined, Answering,
       ReadPhase, DataPhase, WritePhase, CswQueued, Polling, Streams, InTail
  <2>4. /\ ~Arrived /\ dev.flags = {"CSW", "OUT"} /\ cmd # NoCmd /\ cmd.cbw \in Commands
        /\ dev.lba \in Nat /\ dev.left \in 0 .. CARD
    BY <2>2, <2>3 DEF WritePhase, InCommand, Arrived, IInv, Core, Devs
  <2>5. WriteOn
    BY <2>4, UnderwayFacts
  <2>6. Locked => dev.lba + dev.left <= LOCKED
    BY <2>1, <2>4, <2>5 DEF WriteOn, Meaning, WritesWithinCapacity
  <2>7. sent' \in 0 .. dev.left
    <3>1. CASE WriteStream
      BY <2>4, <3>1 DEF WriteStream, Streamed
    <3>2. CASE WriteFails
      <4>1. PICK j \in 0 .. dev.left - 1 : sent' = Least(dev.left, (j + 1) * CHUNK)
        BY <3>2 DEF WriteFails, Streamed
      <4>2. (j + 1) * CHUNK \in Nat
        BY <2>4
      <4> QED
        BY <2>4, <4>1, <4>2 DEF Least
    <3> QED
      BY <3>1, <3>2 DEF Writing
  <2>8. Lines \in SUBSET (1 .. sent')
    BY DEF Lines
  <2>9. LastLine \in Lines
    <3>1. \E i \in Lines : \A j \in Lines : j <= i
      <4> HIDE DEF Lines
      <4>1. sent' \in Nat
        BY <2>4, <2>7
      <4> QED
        BY <1>2, <2>8, <4>1, Greatest
    <3> QED
      BY <3>1 DEF LastLine
  <2>10. LastLine \in 1 .. dev.left
    BY <2>4, <2>7, <2>8, <2>9
  <2>11. dev.lba + LastLine - 1 \in 0 .. LOCKED - 1
    BY <1>2, <2>4, <2>6, <2>10
  <2>12. pwLba' = dev.lba + LastLine - 1 /\ pwAge' = 0 /\ pwLen' \in {"zero", "some"}
    BY <1>2 DEF Writing, SnoopLine
  <2> QED
    BY <2>11, <2>12, TimeoutAssumption
<1> QED
  BY <1>1, <1>2

\* A step between commands that keeps the medium and the error.
LEMMA RestMeans ==
  ASSUME Meaning, cmd = NoCmd, cmd' = NoCmd, UNCHANGED <<card, recv, seen, pstate, capacity>>,
         dev'.status = dev.status, dev'.sense = dev.sense
  PROVE  Meaning' /\ VStep
<1>1. Locked' = Locked /\ Result = NoCmd /\ Result' = NoCmd
  BY DEF Locked, Result, Performed
<1>2. VStep
  BY <1>1, Unseen DEF Err, Cleared
<1> QED
  BY <1>1, <1>2 DEF Meaning, Settled, HiddenSize

LEMMA BusMeans ==
  ASSUME UIInv, Meaning, IsrTransfer \/ HostStarts \/ HostContinues, ~TailInterrupted, PoliteSense,
         WellFormed, NoCmdApart
  PROVE  Meaning' /\ VStep
<1>1. Isr \/ SendCbw \/ HostGoesOn
  BY DEF IsrTransfer, HostStarts, HostContinues
<1>2. CASE pc \notin Closed
  <2>1. IInv
    BY <1>2, OpenIInv
  <2> QED
    BY <1>1, <2>1, InMeans, OutMeans, AcceptMeans, HostMeans DEF Isr, IInv
<1>3. CASE pc \in Closed
  <2>1. ~irq /\ dev.rx = "NAK"
    BY <1>3 DEF UIInv, Interrupt, Endpoint
  <2>2. TakeData \/ TakeCsw
    BY <1>1, <2>1 DEF Isr, IsrIn, IsrOut, SendCbw, HostGoesOn, SendData, ClearHaltOut, ClearHaltIn,
       ResetRecovery
  <2> QED
    BY <2>2, TakeDataMeans, CompleteMeans DEF UIInv
<1> QED
  BY <1>2, <1>3

LEMMA StreamMeans ==
  ASSUME UIInv, Meaning, OtherTransfer \/ Reading \/ Writing \/ RearmWrite, WellFormed,
         WritesWithinCapacity
  PROVE  Meaning' /\ VStep
<1>1. Transfer
  BY DEF OtherTransfer, Reading, Writing, RearmWrite, Transfer
<1>2. pc \notin Closed
  BY <1>1 DEF Transfer, PollRead, ReadStream, ReadCsw, TailLoad, TailStore, PollWrite, WriteStream,
     WriteFails, WriteCsw, Rearm, Goto
<1> QED
  BY <1>1, <1>2, OpenIInv, TransferMeans

\* The steps of a try with the host attached.
LEMMA LookMeans ==
  ASSUME UIInv, Meaning,
         PollUnlock \/ IrqOff \/ Nak \/ Idle1 \/ Find \/ Timeout \/ Idle2 \/ Decide \/ Resume
  PROVE  Meaning' /\ VStep
<1>1. /\ UNCHANGED <<rxbuf, xfer, card, host, cmd, recv, seen, pstate, capacity>>
      /\ pc \notin {"readCsw", "writeCsw"} /\ pc' \notin {"readCsw", "writeCsw", "write"}
  BY DEF PollUnlock, IrqOff, Nak, Idle1, Find, Timeout, Idle2, Decide, Resume, Goto, Keeps, hostVars,
     volVars
<1>2. \E x : dev' = dev \/ dev' = [dev EXCEPT !.rx = x]
  BY DEF PollUnlock, IrqOff, Nak, Idle1, Find, Timeout, Idle2, Decide, Resume
<1>3. /\ DevKept /\ dev'.flags = dev.flags /\ dev'.lba = dev.lba /\ dev'.left = dev.left
      /\ dev'.txbuf = dev.txbuf /\ dev'.tx = dev.tx /\ (dev'.wr => dev.wr)
  BY <1>2 DEF UIInv, Core, Devs, DevKept
<1> QED
  BY <1>1, <1>3, LoopMeans

LEMMA DetachMeans ==
  ASSUME UIInv, Meaning, Detach \/ Attach
  PROVE  Meaning' /\ VStep
<1>1. /\ pc \in {"detach", "attach"} /\ UNCHANGED <<card, recv, seen, pstate, capacity>>
      /\ cmd' \in {NoCmd, cmd}
      /\ dev' = [dev EXCEPT !.tx = "NAK", !.rx = "NAK"] \/ dev' = [dev EXCEPT !.rx = "ACK"]
  BY DEF Detach, Attach, Goto, Keeps, volVars
<1>2. cmd = NoCmd
  BY <1>1, SureOfIdle DEF Idle
<1>3. dev'.status = dev.status /\ dev'.sense = dev.sense
  BY <1>1 DEF UIInv, Core, Devs
<1> QED
  BY <1>1, <1>2, <1>3, RestMeans

LEMMA DeriveMeans ==
  ASSUME UIInv, Meaning, Derive
  PROVE  Meaning' /\ VStep
<1>1. /\ pc = "derive" /\ pstate' = "UNLOCKED" /\ capacity' = HiddenSize
      /\ dev' = [dev EXCEPT !.flags = {}, !.rd = FALSE, !.wr = FALSE]
      /\ UNCHANGED <<card, cmd, recv, seen>>
  BY DEF Derive, Goto, Keeps
<1>2. cmd = NoCmd /\ pstate = "PENDING"
  BY <1>1, SureOfIdle DEF Idle, UIInv, Derivation
<1>3. dev'.status = dev.status /\ dev'.sense = dev.sense
  BY <1>1 DEF UIInv, Core, Devs
<1>4. Locked /\ ~Locked' /\ Result = NoCmd /\ Result' = NoCmd
  BY <1>1, <1>2 DEF Locked, Result, Performed
<1>5. Meaning'
  BY <1>1, <1>2, <1>3, <1>4 DEF Meaning, Settled, HiddenSize
<1>6. Err' = Err
  BY <1>1, <1>2, <1>3 DEF Err, Cleared
<1>7. Volume!Switch
  BY <1>1, <1>2, <1>3, <1>4, <1>6 DEF Volume!Switch
<1> QED
  BY <1>5, <1>7 DEF VStep, Volume!Next

\* Deleting the file blanks sectors of the decoy volume only.
LEMMA DeleteMeans ==
  ASSUME UIInv, Meaning, Delete, pwLba \in 0 .. LOCKED - 1
  PROVE  Meaning' /\ VStep
<1>1. PICK S \in SUBSET {pwLba, DIR} : card' = Blanked(S)
  BY DEF Delete
<1>2. /\ pc = "delete" /\ UNCHANGED <<dev, cmd, recv, seen, pstate, capacity>>
  BY DEF Delete, Goto, Keeps, volVars
<1>3. cmd = NoCmd /\ pstate = "PENDING"
  BY <1>2, SureOfIdle DEF Idle, UIInv, Derivation
<1>4. Locked /\ Locked' /\ Result = NoCmd /\ Result' = NoCmd
  BY <1>2, <1>3 DEF Locked, Result, Performed
<1>5. Meaning'
  BY <1>2, <1>3, <1>4 DEF Meaning, Settled, HiddenSize
<1>6. card \in [0 .. CARD - 1 -> [val : Values, enc : BOOLEAN]]
  BY DEF UIInv, Core, Others
<1>7. \A p \in 0 .. CARD - 1 :
        card'[p] = IF p \in S THEN [card[p] EXCEPT !.val = "zero"] ELSE card[p]
  BY <1>1, <1>6 DEF Blanked
<1>8. ASSUME NEW l \in 0 .. HiddenSize - 1
      PROVE  card'[LOCKED + l] = card[LOCKED + l]
  <2>1. LOCKED + l \in 0 .. CARD - 1
    BY DEF HiddenSize
  <2>2. LOCKED + l # pwLba /\ LOCKED + l # DIR
    OBVIOUS
  <2>3. LOCKED + l \notin S
    BY <2>2
  <2> QED
    BY <1>7, <2>1, <2>3
<1>9. ASSUME NEW l \in 0 .. LOCKED - 1
      PROVE  Plain(card'[l], FALSE) \in {Plain(card[l], FALSE), "zero"}
  <2>1. l \in 0 .. CARD - 1 /\ card[l] \in [val : Values, enc : BOOLEAN]
    BY <1>6
  <2>2. CASE l \notin S
    BY <1>7, <2>1, <2>2
  <2>3. CASE l \in S
    <3>1. card'[l] = [card[l] EXCEPT !.val = "zero"]
      BY <1>7, <2>1, <2>3
    <3>2. card'[l].enc = card[l].enc /\ card'[l].val = "zero"
      BY <2>1, <3>1
    <3> QED
      BY <3>2 DEF Plain
  <2> QED
    BY <2>2, <2>3
<1>10. Disk'.hidden = Disk.hidden
  <2>1. \A l \in 0 .. HiddenSize - 1 : Plain(card[LOCKED + l], TRUE)' = Plain(card[LOCKED + l], TRUE)
    BY <1>8 DEF Plain
  <2> QED
    BY <2>1 DEF Disk, HiddenSize
<1>11. \A l \in DOMAIN Disk.decoy : Disk'.decoy[l] \in {Disk.decoy[l], "zero"}
  BY <1>9 DEF Disk, Plain
<1>12. Volume!Tidy
  <2>1. Err' = Err
    BY <1>2, <1>3 DEF Err, Cleared
  <2> QED
    BY <1>2, <1>3, <1>4, <1>10, <1>11, <2>1 DEF Volume!Tidy, Disk
<1> QED
  BY <1>5, <1>12 DEF VStep, Volume!Next

LEMMA OtherMeans ==
  ASSUME Meaning, IsrSetup \/ SetupArrives \/ Tick \/ UNCHANGED allVars
  PROVE  Meaning' /\ VStep
BY StillMeans DEF IsrSetup, SetupArrives, Tick, allVars

LEMMA StepUMeans ==
  ASSUME UIInv, Meaning, pwLba \in 0 .. LOCKED - 1, [UNext]_allVars, WritesWithinCapacity,
         ~TailInterrupted, PoliteSense, WellFormed, NoCmdApart
  PROVE  Meaning' /\ VStep
BY BusMeans, OtherMeans, StreamMeans, LookMeans, DetachMeans, DeleteMeans, DeriveMeans
   DEF UNext, UMain, TryUnlock

(* The types of Unlock: a password line is never on a hidden sector, and   *)
(* rx_control is restored to a value the endpoint had.                     *)
LEMMA PasswordKept ==
  ASSUME UTypeOK, [UNext]_allVars, ~Writing
  PROVE  pwLba' \in 0 .. LOCKED - 1 /\ pwLen' \in {"zero", "some"} /\ pwAge' \in 0 .. TIMEOUT
<1>1. CASE Tick
  BY <1>1, TimeoutAssumption DEF Tick, Older, UTypeOK, pwVars
<1>2. CASE ~Tick
  BY <1>2 DEF UTypeOK, UNext, IsrTransfer, HostStarts, HostContinues, IsrSetup, SetupArrives, allVars,
     pwVars, clocks, UMain, OtherTransfer, Reading, RearmWrite, PollUnlock, TryUnlock, IrqOff, Nak,
     Idle1, Find, Timeout, Idle2, Detach, Delete, Decide, Derive, Attach, Resume
<1> QED
  BY <1>1, <1>2

LEMMA ClocksKept ==
  ASSUME UTypeOK, [UNext]_allVars
  PROVE  sinceWrite' \in 0 .. 1 /\ sinceCheck' \in 0 .. 1 /\ setup' \in BOOLEAN
<1>1. CASE Tick
  BY <1>1 DEF Tick, Older, UTypeOK
<1>2. CASE Reading \/ Writing \/ RearmWrite \/ PollUnlock
  <2>1. sinceWrite \in 0 .. 1 /\ sinceCheck \in 0 .. 1 /\ setup \in BOOLEAN /\ 0 \in 0 .. 1
    BY DEF UTypeOK
  <2>2. sinceWrite' \in {0, sinceWrite} /\ sinceCheck' \in {0, sinceCheck}
    BY <1>2 DEF Reading, Writing, RearmWrite, PollUnlock, clocks
  <2>3. setup' \in {FALSE, setup}
    BY <1>2 DEF Reading, Writing, RearmWrite, PollUnlock
  <2> QED
    BY <2>1, <2>2, <2>3
<1>3. CASE IsrSetup \/ SetupArrives \/ Detach
  BY <1>3 DEF UTypeOK, IsrSetup, SetupArrives, Detach, clocks
<1>4. CASE IsrTransfer \/ HostStarts \/ HostContinues \/ OtherTransfer \/ UNCHANGED allVars
  BY <1>4 DEF UTypeOK, IsrTransfer, HostStarts, HostContinues, OtherTransfer, allVars, clocks
<1>5. CASE \/ IrqOff \/ Nak \/ Idle1 \/ Find \/ Timeout \/ Idle2
           \/ Delete \/ Decide \/ Derive \/ Attach \/ Resume
  BY <1>5 DEF UTypeOK, clocks, IrqOff, Nak, Idle1, Find, Timeout, Idle2, Delete, Decide, Derive,
     Attach, Resume
<1> QED
  BY <1>1, <1>2, <1>3, <1>4, <1>5 DEF UNext, UMain, TryUnlock

LEMMA LocalsKept ==
  ASSUME UIInv, UTypeOK, [UNext]_allVars
  PROVE  /\ path' \in BOOLEAN /\ timedOut' \in BOOLEAN /\ deleted' \in BOOLEAN
         /\ rxSaved' \in {"ACK", "NAK", "STALL"}
<1>1. dev.rx \in {"ACK", "NAK", "STALL"}
  BY DEF UIInv, Core, Devs
<1>2. FileListed \in BOOLEAN /\ TimeoutReached \in BOOLEAN
  BY DEF FileListed, TimeoutReached
<1>3. CASE Nak \/ Find \/ Timeout \/ Detach \/ Delete \/ Attach \/ Resume
  BY <1>1, <1>2, <1>3 DEF UTypeOK, Nak, Find, Timeout, Detach, Delete, Attach, Resume, Returns
<1>4. CASE ~(Nak \/ Find \/ Timeout \/ Detach \/ Delete \/ Attach \/ Resume)
  BY <1>4 DEF UTypeOK, UNext, IsrTransfer, HostStarts, HostContinues, IsrSetup, SetupArrives, Tick,
     allVars, tryVars, UMain, OtherTransfer, Reading, Writing, RearmWrite, PollUnlock, TryUnlock,
     IrqOff, Idle1, Idle2, Decide, Derive
<1> QED
  BY <1>3, <1>4

LEMMA StepTypes ==
  ASSUME UIInv, UIInv', Meaning, UTypeOK, [UNext]_allVars, WritesWithinCapacity, WellFormed
  PROVE  UTypeOK'
<1>1. pwLba' \in 0 .. LOCKED - 1 /\ pwLen' \in {"zero", "some"} /\ pwAge' \in 0 .. TIMEOUT
  BY SnoopedLba, PasswordKept
<1>2. derived' \in 0 .. 1
  BY DEF UIInv, Derivation
<1> QED
  BY <1>1, <1>2, ClocksKept, LocalsKept DEF UTypeOK

\* What Unlock keeps in all: its own phases and types, and the meaning of the
\* transport's fields.
Known == UIInv /\ Meaning /\ UTypeOK

LEMMA InitKnown ==
  ASSUME UInit
  PROVE  Known /\ Volume!Init
<1>1. UIInv /\ Meaning /\ Volume!Init
  BY InitUIInv, InitMeans DEF UInit
<1>2. 0 \in 0 .. LOCKED - 1 /\ TIMEOUT \in 0 .. TIMEOUT
  BY TimeoutAssumption
<1>3. UTypeOK
  <2>1. /\ pwLen \in {"zero", "some"} /\ pwLba \in 0 .. LOCKED - 1
        /\ pwAge \in 0 .. TIMEOUT /\ sinceWrite \in 0 .. 1 /\ sinceCheck \in 0 .. 1
        /\ rxSaved \in {"ACK", "NAK", "STALL"} /\ derived \in 0 .. 1
    BY <1>2 DEF UInit
  <2>2. setup \in BOOLEAN /\ path \in BOOLEAN /\ timedOut \in BOOLEAN /\ deleted \in BOOLEAN
    BY DEF UInit
  <2> QED
    BY <2>1, <2>2 DEF UTypeOK
<1> QED
  BY <1>1, <1>3 DEF Known

LEMMA StepKnown ==
  ASSUME Known, [UNext]_allVars, WritesWithinCapacity, ~TailInterrupted, PoliteSense, WellFormed,
         NoCmdApart
  PROVE  Known' /\ VStep
<1>1. UIInv'
  BY StepUIInv DEF Known
<1>2. Meaning' /\ VStep
  BY StepUMeans DEF Known, UTypeOK
<1>3. UTypeOK'
  BY <1>1, StepTypes DEF Known
<1> QED
  BY <1>1, <1>2, <1>3 DEF Known

(* The switch of volumes, in every interleaving with the host and through  *)
(* every failure of the card, is the switch BlockVolume promises: between  *)
(* commands, and deleting the file touches the decoy volume alone.         *)
THEOREM UnlockImplementsVolume ==
  ~TailInterrupted /\ PoliteSense /\ WellFormed /\ NoCmdApart =>
    (USpec /\ []WritesWithinCapacity => ImplementsVolume)
<1> SUFFICES ASSUME ~TailInterrupted, PoliteSense, WellFormed, NoCmdApart
             PROVE  USpec /\ []WritesWithinCapacity => ImplementsVolume
  OBVIOUS
<1>1. UInit => Known /\ Volume!Init
  BY InitKnown
<1>2. Known /\ WritesWithinCapacity /\ [UNext]_allVars => Known' /\ [Volume!Next]_(Volume!vars)
  BY StepKnown DEF VStep
<1> QED
  BY <1>1, <1>2, PTL DEF USpec, ImplementsVolume, Volume!Spec

(* The sector a password line was typed into is one of the decoy volume,   *)
(* the clocks stop at their bounds, and the keys are derived at most once. *)
THEOREM UnlockTypesHold ==
  ~TailInterrupted /\ PoliteSense /\ WellFormed /\ NoCmdApart =>
    (USpec /\ []WritesWithinCapacity => []UTypeOK)
<1> SUFFICES ASSUME ~TailInterrupted, PoliteSense, WellFormed, NoCmdApart
             PROVE  USpec /\ []WritesWithinCapacity => []UTypeOK
  OBVIOUS
<1>1. UInit => Known
  BY InitKnown
<1>2. Known /\ WritesWithinCapacity /\ [UNext]_allVars => Known'
  BY StepKnown
<1>3. Known => UTypeOK
  BY DEF Known
<1> QED
  BY <1>1, <1>2, <1>3, PTL DEF USpec

----------------------------------------------------------------------------
(* Nobody is stuck.  What a command in progress waits for; unlike Meaning, *)
(* this holds for a host that asks for no sense, or for it at any time.    *)
ReadPlace ==
  /\ cmd.cbw.op = "READ10" /\ dev.lba = cmd.cbw.lba /\ dev.left = cmd.cbw.len
  /\ Locked => dev.lba + dev.left <= LOCKED
Course ==
  /\ capacity = (IF Locked THEN LOCKED ELSE HiddenSize)
  /\ dev.flags = {"CSW"} => \/ dev.tx = "STALL"
                            \/ dev.tx = "ACK" /\ (host = "in" \/ xfer = "in")
  /\ "IN" \in dev.flags => dev.tx = "NAK" /\ (host = "in" => ReadPlace)

LEMMA CourseKept ==
  ASSUME Course, Locked' = Locked, capacity' = capacity, UNCHANGED <<host, xfer, cmd>>,
         dev'.flags = dev.flags, dev'.tx = dev.tx, dev'.lba = dev.lba, dev'.left = dev.left
  PROVE  Course'
BY DEF Course, ReadPlace, HiddenSize

\* Nothing is asked of a command whose status is queued or that is written.
LEMMA CourseFree ==
  ASSUME Course, Locked' = Locked, capacity' = capacity, dev'.flags \in {{}, {"CSW", "OUT"}}
  PROVE  Course'
BY DEF Course, HiddenSize

LEMMA IsrInCourse ==
  ASSUME IInv, Course, IsrIn
  PROVE  Course'
<1> DEFINE d == [dev EXCEPT !.tx = "NAK", !.txbuf = NoBuffer]
<1>1. /\ xfer = "in" /\ dev' = BulkIn(d) /\ Locked' = Locked /\ capacity' = capacity
  BY DEF IsrIn, volVars, Locked
<1>2. d \in Devs /\ d.flags = dev.flags
  <2>1. NoBuffer \in Buffers
    BY DEF NoBuffer, Buffers, NoReply, Reply, Replies, Ops, Senses, Status
  <2> QED
    BY <2>1 DEF IInv, Core, Devs
<1> HIDE DEF d
<1>3. dev.flags \in {{}, {"CSW"}}
  BY <1>1 DEF IInv, Core, Phases, Idle, InCommand, CbwSent, Rejected, Declined, Answering, ReadPhase,
     DataPhase, WritePhase, CswQueued, Course
<1>4. dev'.flags = {}
  BY <1>1, <1>2, <1>3, BulkInFacts, SendCswFacts
<1> QED
  BY <1>1, <1>4, CourseFree

LEMMA IsrOutCourse ==
  ASSUME IInv, Course, IsrOut, ~TailInterrupted, WellFormed, PagesHaveData
  PROVE  Course'
<1>1. /\ xfer = "out" /\ UNCHANGED <<host, cmd>> /\ Locked' = Locked /\ capacity' = capacity
  BY DEF IsrOut, volVars, hostVars, Locked
<1>2. CASE CbwSent /\ InCommand
  <2> DEFINE c == cmd.cbw
  <2>1. /\ dev' = Answer(Dispatch(dev, cmd.tag, c)) /\ Entered(dev', c)
        /\ dev \in Devs /\ dev.flags = {} /\ dev.tx = "NAK"
        /\ c \in Commands /\ cmd.tag \in {0, 1} /\ capacity \in 1 .. CARD
        /\ host = (IF c.len = 0 THEN "csw" ELSE c.dir)
    BY <1>2, CbwTaken
  <2>2. CASE c.op = "BAD_SIGNATURE"
    <3>1. dev'.flags = {}
      BY <2>1, <2>2, CbwMeans
    <3> QED
      BY <1>1, <3>1, CourseFree
  <2>3. CASE c.op # "BAD_SIGNATURE"
    <3>1. Taken(dev', dev, cmd.tag, c)
      BY <2>1, <2>3, CbwMeans
    <3>2. ASSUME dev'.flags = {"CSW"}
          PROVE  dev'.tx = "STALL" \/ (dev'.tx = "ACK" /\ host = "in")
      <4>1. c.op \in ShortAnswers \cup {"READ10", "UNSUPPORTED", "MODE_SENSE10_PAGE"}
        <5>1. dev'.flags # {} /\ dev'.flags # {"CSW", "OUT"}
          BY <3>2
        <5>2. c.op \notin {"TEST_READY", "VERIFY10"} /\ c.op # "WRITE10"
          BY <3>1, <5>1 DEF Taken
        <5> QED
          BY <2>1, <2>3, <5>2 DEF WellFormed
      <4>2. CASE c.op \in ShortAnswers
        BY <2>1, <3>1, <4>2 DEF Taken, WellFormed
      <4>3. CASE c.op = "READ10"
        BY <3>1, <3>2, <4>3 DEF Taken
      <4>4. CASE c.op \in {"UNSUPPORTED", "MODE_SENSE10_PAGE"}
        BY <2>1, <3>1, <4>4, FlagFacts DEF Taken, PagesHaveData
      <4> QED
        BY <4>1, <4>2, <4>3, <4>4
    <3>3. ASSUME "IN" \in dev'.flags
          PROVE  dev'.tx = "NAK" /\ ReadPlace'
      <4>1. c.op = "READ10" /\ ~Declines(c) /\ c.n # 0
        BY <2>1, <2>3, <3>1, <3>3 DEF Taken, WellFormed
      <4>2. /\ dev'.op = "READ10" /\ dev'.lba = c.lba /\ dev'.left = c.len
            /\ c.n = c.len /\ c.len \in Nat /\ c.lba \in Nat
        BY <2>1, <3>1, <4>1 DEF Taken
      <4>3. dev'.tx = "NAK"
        BY <2>1, <3>3, <4>2 DEF Entered
      <4> QED
        BY <1>1, <4>1, <4>2, <4>3 DEF ReadPlace, Declines
    <3> QED
      BY <1>1, <3>2, <3>3 DEF Course, HiddenSize
  <2> QED
    BY <2>2, <2>3
<1>3. CASE (DataPhase \/ CswQueued) /\ InCommand
  <2>1. dev.flags \in {{}, {"CSW", "OUT"}} /\ rxbuf.kind = "data" /\ dev \in Devs
    BY <1>1, <1>3 DEF DataPhase, OutPhase, CswQueued, IInv, Core
  <2> DEFINE d == BulkOut(dev, rxbuf)
  <2>2. d = dev \/ d = [dev EXCEPT !.wr = TRUE]
    BY <2>1 DEF BulkOut
  <2>3. dev' = [d EXCEPT !.rx = IF d.wr THEN "NAK" ELSE d.rx]
    BY DEF IsrOut
  <2> HIDE DEF d
  <2>4. d \in Devs /\ d.flags = dev.flags
    BY <2>1, <2>2 DEF Devs
  <2>5. dev'.flags = dev.flags
    BY <2>3, <2>4 DEF Devs
  <2> QED
    BY <1>1, <2>1, <2>5, CourseFree
<1> QED
  BY <1>1, <1>2, <1>3 DEF IInv, Core, Phases, Idle, InCommand, Rejected, Declined, Answering,
     ReadPhase, WritePhase

LEMMA HostCourse ==
  ASSUME Core, Course, SendCbw \/ HostGoesOn
  PROVE  Course'
<1>1. Locked' = Locked /\ capacity' = capacity
  BY DEF SendCbw, HostGoesOn, SendData, TakeData, TakeCsw, ClearHaltOut, ClearHaltIn, ResetRecovery,
     Busless, volVars, Locked
<1>2. CASE SendCbw
  <2>1. dev'.flags = {}
    BY <1>2 DEF SendCbw, Core, Phases, Idle, InCommand, CbwSent, Rejected, Declined, Answering,
       ReadPhase, DataPhase, WritePhase, CswQueued
  <2> QED
    BY <1>1, <2>1, CourseFree
<1>3. CASE SendData \/ TakeData \/ TakeCsw
  BY <1>1, <1>3 DEF SendData, TakeData, TakeCsw, Course, HiddenSize
<1>4. CASE ClearHaltOut
  <2>1. /\ dev'.flags = dev.flags /\ dev'.tx = dev.tx /\ xfer = "none" /\ host = "out" /\ host' = "csw"
    BY <1>4 DEF ClearHaltOut, Core, Devs
  <2> QED
    BY <1>1, <2>1 DEF Course, HiddenSize
<1>5. CASE ClearHaltIn \/ ResetRecovery
  <2>1. Declined \/ Rejected
    BY <1>5 DEF ClearHaltIn, ResetRecovery, Core, Phases, Idle, InCommand, CbwSent, Answering,
       ReadPhase, DataPhase, OutPhase, WritePhase, CswQueued
  <2> DEFINE d == [dev EXCEPT !.tx = "NAK"]
  <2>2. d \in Devs /\ d.flags = dev.flags
    BY DEF Core, Devs
  <2>3. CASE ClearHaltIn
    <3>1. dev' = BulkIn(d) /\ d.flags = {"CSW"}
      BY <2>1, <2>2, <2>3 DEF ClearHaltIn, Declined, Rejected
    <3> HIDE DEF d
    <3>2. dev'.flags = {}
      BY <2>2, <3>1, BulkInFacts, SendCswFacts
    <3> QED
      BY <1>1, <3>2, CourseFree
  <2>4. CASE ResetRecovery
    <3>1. dev'.flags = {}
      BY <2>1, <2>4 DEF ResetRecovery, Declined, Rejected, Core, Devs
    <3> QED
      BY <1>1, <3>1, CourseFree
  <2> QED
    BY <1>5, <2>3, <2>4
<1> QED
  BY <1>2, <1>3, <1>4, <1>5 DEF HostGoesOn

LEMMA TransferCourse ==
  ASSUME IInv, Course, Transfer
  PROVE  Course'
<1>1. CASE PollRead \/ PollWrite \/ Rearm
  <2>1. /\ dev'.flags = dev.flags /\ dev'.tx = dev.tx /\ dev'.lba = dev.lba /\ dev'.left = dev.left
        /\ UNCHANGED <<volVars, host, xfer, cmd>>
    BY <1>1 DEF PollRead, PollWrite, Rearm, IInv, Core, Devs, hostVars
  <2> QED
    BY <2>1, CourseKept DEF volVars, Locked
<1>2. CASE ReadStream
  <2>1. /\ dev'.flags = {"CSW", "IN"} /\ dev'.tx = "NAK" /\ host' = "csw"
        /\ Locked' = Locked /\ capacity' = capacity
    BY <1>2 DEF ReadStream, Goto, IInv, Core, Phases, Idle, InCommand, CbwSent, Rejected, Declined,
       Answering, ReadPhase, DataPhase, WritePhase, CswQueued, Polling, InTail, Streams, Devs,
       volVars, Locked
  <2> QED
    BY <2>1 DEF Course, HiddenSize
<1>3. CASE ReadCsw \/ WriteCsw
  <2>1. dev'.flags = {} /\ Locked' = Locked /\ capacity' = capacity
    BY <1>3, SendCswFacts DEF ReadCsw, WriteCsw, IInv, Core, volVars, Locked
  <2> QED
    BY <2>1, CourseFree
<1>4. CASE TailLoad \/ TailStore
  <2>1. dev'.flags = {} /\ Locked' = Locked /\ capacity' = capacity
    BY <1>4, TailFlags DEF TailLoad, TailStore, Goto, InTail, IInv, Core, Devs, volVars, Locked
  <2> QED
    BY <2>1, CourseFree
<1>5. CASE WriteStream \/ WriteFails
  <2>1. dev.flags = {"CSW", "OUT"} /\ dev \in Devs
    BY <1>5 DEF WriteStream, WriteFails, Goto, IInv, Core, Phases, Idle, InCommand, CbwSent, Rejected,
       Declined, Answering, ReadPhase, DataPhase, WritePhase, CswQueued, Polling, InTail, Streams
  <2>2. dev'.flags = dev.flags
    BY <1>5, <2>1 DEF WriteStream, WriteFails, SetSense, Devs
  <2>3. Locked' = Locked /\ capacity' = capacity
    BY <1>5 DEF WriteStream, WriteFails, Streamed, Snooped, Locked
  <2> QED
    BY <2>1, <2>2, <2>3, CourseFree
<1> QED
  BY <1>1, <1>2, <1>3, <1>4, <1>5 DEF Transfer

LEMMA StepCourse ==
  ASSUME IInv, Course, [Next]_vars, ~TailInterrupted, WellFormed, PagesHaveData
  PROVE  Course'
<1>1. CASE SkipUnlock \/ UNCHANGED vars
  BY <1>1, CourseKept DEF SkipUnlock, vars, volVars, hostVars, Locked
<1> QED
  BY <1>1, IsrInCourse, IsrOutCourse, HostCourse, TransferCourse DEF Next, Isr, Main, IInv

LEMMA InitCourse ==
  ASSUME Init
  PROVE  Course
BY DEF Init, Course, Locked

(* What each phase waits for.                                              *)
LEMMA SomebodyMoves ==
  ASSUME Core, Course, ReadsWithinCapacity, AtPolls => irq /\ dev.rx = RxDue
  PROVE  NobodyStuck
<1> SUFFICES ASSUME host \in {"out", "in", "csw"}, ~MainMoves
             PROVE  IF xfer = "none" THEN HostMoves ELSE irq
  BY DEF NobodyStuck
<1>1. pc \in {"read", "write"} \/ AtPolls
  BY DEF MainMoves
<1>2. InCommand /\ dev \in Devs /\ cmd.cbw \in Commands
  BY DEF Core, Phases, Idle, InCommand
<1>3. ~InTail /\ pc \notin {"readCsw", "writeCsw", "rearm"}
  BY DEF MainMoves, InTail, AtPolls
<1>4. CASE ReadPhase
  <2>1. pc = "read" /\ host = "in" /\ ReadPlace /\ cmd # NoCmd
    BY <1>1, <1>2, <1>3, <1>4 DEF ReadPhase, MainMoves, Polling, Streams, AtPolls, Course, InCommand
  <2>2. ReadPlace /\ capacity = (IF Locked THEN LOCKED ELSE HiddenSize)
    BY <2>1 DEF Course
  <2>3. PhysicalLba(dev.lba) + dev.left <= CARD
    <3>1. dev.lba \in Nat /\ dev.left \in Nat
      BY <1>2 DEF Devs
    <3>2. CASE Locked
      BY <2>2, <3>1, <3>2 DEF ReadPlace, PhysicalLba
    <3>3. CASE ~Locked
      BY <2>1, <2>2, <3>1, <3>3 DEF ReadPlace, PhysicalLba, ReadsWithinCapacity, HiddenSize
    <3> QED
      BY <3>2, <3>3
  <2> QED
    BY <2>1, <2>3 DEF MainMoves
<1>5. CASE WritePhase
  BY <1>1, <1>2, <1>3, <1>5 DEF WritePhase, OutPhase, MainMoves, Polling, Streams, AtPolls
<1>6. ASSUME ~ReadPhase, ~WritePhase
      PROVE  pc \notin {"read", "write"} /\ AtPolls /\ irq /\ Quiet
  BY <1>1, <1>2, <1>6 DEF InCommand, CbwSent, Rejected, Declined, Answering, DataPhase, CswQueued,
     Polling, InTail, Streams, Quiet
<1>7. CASE ~ReadPhase /\ ~WritePhase /\ xfer = "none"
  <2>1. irq /\ dev.rx = (IF RefusesOut \/ AwaitsReset THEN "STALL" ELSE "ACK")
    BY <1>3, <1>6, <1>7 DEF RxDue, Writes, Quiet
  <2>2. CASE Rejected
    BY <2>1, <2>2 DEF Rejected, HostMoves
  <2>3. CASE Declined
    BY <1>7, <2>1, <2>3 DEF Declined, HostMoves, RefusesOut, Course
  <2>4. CASE Answering
    BY <1>7, <2>4 DEF Answering, HostMoves, Course
  <2>5. CASE DataPhase
    BY <1>7, <2>1, <2>5 DEF DataPhase, OutPhase, HostMoves, RefusesOut, AwaitsReset
  <2>6. CASE CswQueued
    BY <1>7, <2>1, <2>6 DEF CswQueued, HostMoves, RefusesOut, AwaitsReset
  <2> QED
    BY <1>2, <1>7, <2>2, <2>3, <2>4, <2>5, <2>6 DEF InCommand, CbwSent
<1> QED
  BY <1>4, <1>5, <1>6, <1>7

(* The interrupt, the main loop and the host never wait for each other in  *)
(* a circle: in every interleaving, after stalls, declined commands and    *)
(* failed writes, somebody's next step is enabled.  The hypotheses are the *)
(* two ways in which the firmware can leave a host waiting.                *)
THEOREM BotNeverStuck ==
  ~TailInterrupted /\ WellFormed /\ PagesHaveData =>
    (Spec /\ []ReadsWithinCapacity => []NobodyStuck)
<1> SUFFICES ASSUME ~TailInterrupted, WellFormed, PagesHaveData
             PROVE  Spec /\ []ReadsWithinCapacity => []NobodyStuck
  OBVIOUS
<1> DEFINE Inv == IInv /\ Sending /\ Place /\ Course
<1>1. Init => Inv
  BY InitIInv, InitSending, InitCourse
<1>2. Inv /\ [Next]_vars => Inv'
  BY StepIInv, StepFalls, StutterSending, StepCourse
<1>3. Inv /\ ReadsWithinCapacity => NobodyStuck
  BY SomebodyMoves DEF IInv, Place, AtPolls
<1> HIDE DEF Inv
<1> QED
  BY <1>1, <1>2, <1>3, PTL DEF Spec

LEMMA TryCourse ==
  ASSUME UIInv, Course, TryUnlock \/ PollUnlock
  PROVE  Course'
<1>1. CASE PollUnlock \/ IrqOff \/ Idle1 \/ Find \/ Timeout \/ Idle2 \/ Delete \/ Decide
  <2>1. UNCHANGED <<dev, host, xfer, cmd, volVars>>
    BY <1>1 DEF PollUnlock, IrqOff, Idle1, Find, Timeout, Idle2, Delete, Decide, hostVars, Keeps
  <2> QED
    BY <2>1, CourseKept DEF volVars, Locked
<1>2. CASE Nak \/ Resume
  <2>1. /\ dev'.flags = dev.flags /\ dev'.tx = dev.tx /\ dev'.lba = dev.lba /\ dev'.left = dev.left
        /\ UNCHANGED <<volVars, host, xfer, cmd>>
    BY <1>2 DEF Nak, Resume, UIInv, Core, Devs, Keeps
  <2> QED
    BY <2>1, CourseKept DEF volVars, Locked
<1>3. CASE Detach \/ Attach
  <2>1. dev.flags = {} /\ dev \in Devs
    BY <1>3, SureOfIdle DEF Detach, Attach, Goto, Idle, UIInv, Core
  <2>2. dev'.flags = {} /\ Locked' = Locked /\ capacity' = capacity
    BY <1>3, <2>1 DEF Detach, Attach, Devs, volVars, Locked
  <2> QED
    BY <2>2, CourseFree
<1>4. CASE Derive
  <2>1. dev'.flags = {} /\ ~Locked' /\ capacity' = HiddenSize
    BY <1>4 DEF Derive, UIInv, Core, Devs, Locked
  <2> QED
    BY <2>1 DEF Course, HiddenSize
<1> QED
  BY <1>1, <1>2, <1>3, <1>4 DEF TryUnlock

LEMMA StepUCourse ==
  ASSUME UIInv, Course, [UNext]_allVars, ~TailInterrupted, WellFormed, PagesHaveData
  PROVE  Course'
<1>1. CASE IsrTransfer
  <2>1. irq /\ Isr
    BY <1>1 DEF IsrTransfer, Isr, IsrIn, IsrOut
  <2>2. IInv
    BY <2>1, OpenIInv DEF UIInv, Interrupt
  <2> QED
    BY <2>1, <2>2, IsrInCourse, IsrOutCourse DEF Isr
<1>2. CASE HostStarts \/ HostContinues
  BY <1>2, HostCourse DEF HostStarts, HostContinues, UIInv
<1>3. CASE OtherTransfer \/ Reading \/ Writing \/ RearmWrite
  <2>1. Transfer
    BY <1>3 DEF OtherTransfer, Reading, Writing, RearmWrite, Transfer
  <2>2. pc \notin Closed
    BY <2>1 DEF Transfer, PollRead, ReadStream, ReadCsw, TailLoad, TailStore, PollWrite, WriteStream,
       WriteFails, WriteCsw, Rearm, Goto
  <2> QED
    BY <2>1, <2>2, OpenIInv, TransferCourse
<1>4. CASE IsrSetup \/ SetupArrives \/ Tick \/ UNCHANGED allVars
  <2>1. UNCHANGED vars
    BY <1>4 DEF IsrSetup, SetupArrives, Tick, allVars
  <2> QED
    BY <2>1, CourseKept DEF vars, volVars, hostVars, Locked
<1> QED
  BY <1>1, <1>2, <1>3, <1>4, TryCourse DEF UNext, UMain

(* Nor do they while the volumes are switched: the try gives the endpoint  *)
(* and the interrupt back, to a command that came in between as well.      *)
THEOREM UnlockNeverStuck ==
  ~TailInterrupted /\ WellFormed /\ PagesHaveData =>
    (USpec /\ []ReadsWithinCapacity => []NobodyStuck)
<1> SUFFICES ASSUME ~TailInterrupted, WellFormed, PagesHaveData
             PROVE  USpec /\ []ReadsWithinCapacity => []NobodyStuck
  OBVIOUS
<1> DEFINE Inv == UIInv /\ Course
<1>1. UInit => Inv
  BY InitUIInv, InitCourse DEF UInit
<1>2. Inv /\ [UNext]_allVars => Inv'
  BY StepUIInv, StepUCourse
<1>3. Inv /\ ReadsWithinCapacity => NobodyStuck
  BY SomebodyMoves DEF UIInv, Interrupt, Endpoint, AtPolls
<1> HIDE DEF Inv
<1> QED
  BY <1>1, <1>2, <1>3, PTL DEF USpec

----------------------------------------------------------------------------
(* What goes to the card.  An OUT data phase that is not stalled is that   *)
(* of a WRITE(10).                                                         *)
OutIsWrite == "OUT" \in dev.flags => cmd.cbw.op = "WRITE10"

LEMMA IsrOutIsWrite ==
  ASSUME IInv, OutIsWrite, Isr, ~TailInterrupted, WellFormed
  PROVE  OutIsWrite'
<1>1. CASE IsrIn
  <2> DEFINE d == [dev EXCEPT !.tx = "NAK", !.txbuf = NoBuffer]
  <2>1. xfer = "in" /\ dev' = BulkIn(d)
    BY <1>1 DEF IsrIn
  <2>2. d \in Devs /\ d.flags = dev.flags /\ d.op = dev.op
    <3>1. NoBuffer \in Buffers
      BY DEF NoBuffer, Buffers, NoReply, Reply, Replies, Ops, Senses, Status
    <3> QED
      BY <3>1 DEF IInv, Core, Devs
  <2> HIDE DEF d
  <2>3. \/ d.flags \in {{}, {"CSW"}}
        \/ d.flags = {"CSW", "IN"} /\ d.op # "READ10"
    BY <2>1, <2>2 DEF IInv, Core, Phases, Idle, InCommand, CbwSent, Rejected, Declined, Answering,
       ReadPhase, DataPhase, WritePhase, CswQueued
  <2>4. "OUT" \notin dev'.flags
    BY <2>1, <2>2, <2>3, BulkInFacts, SendCswFacts, SendResponseFacts
  <2> QED
    BY <2>4 DEF OutIsWrite
<1>2. CASE IsrOut /\ CbwSent /\ InCommand
  <2> DEFINE c == cmd.cbw
  <2>1. /\ dev' = Answer(Dispatch(dev, cmd.tag, c)) /\ dev \in Devs
        /\ dev.flags = {} /\ dev.tx = "NAK"
        /\ c \in Commands /\ cmd.tag \in {0, 1} /\ capacity \in 1 .. CARD
    BY <1>2, CbwTaken
  <2>2. cmd' = cmd
    BY <1>2 DEF IsrOut, hostVars
  <2>3. CASE c.op = "BAD_SIGNATURE"
    <3>1. "OUT" \notin dev'.flags
      BY <2>1, <2>3, CbwMeans
    <3> QED
      BY <3>1 DEF OutIsWrite
  <2>4. CASE c.op # "BAD_SIGNATURE"
    <3>1. Taken(dev', dev, cmd.tag, c)
      BY <2>1, <2>4, CbwMeans
    <3>2. "OUT" \in dev'.flags => c.op \notin ShortAnswers \cup {"READ10", "TEST_READY", "VERIFY10",
                                     "UNSUPPORTED", "MODE_SENSE10_PAGE"}
      BY <3>1 DEF Taken
    <3>3. "OUT" \in dev'.flags => c.op = "WRITE10"
      BY <2>1, <2>4, <3>2 DEF WellFormed
    <3> QED
      BY <2>2, <3>3 DEF OutIsWrite
  <2> QED
    BY <2>3, <2>4
<1>3. CASE IsrOut /\ ~(CbwSent /\ InCommand)
  <2>1. /\ cmd' = cmd /\ dev \in Devs /\ rxbuf.kind = "data"
    BY <1>3 DEF IsrOut, hostVars, IInv, Core, Phases, Idle, InCommand, Rejected, Declined, Answering,
       ReadPhase, WritePhase, DataPhase, CswQueued
  <2> DEFINE d == BulkOut(dev, rxbuf)
  <2>2. d = dev \/ d = [dev EXCEPT !.wr = TRUE]
    BY <2>1 DEF BulkOut
  <2>3. dev' = [d EXCEPT !.rx = IF d.wr THEN "NAK" ELSE d.rx]
    BY <1>3 DEF IsrOut
  <2> HIDE DEF d
  <2>4. d \in Devs /\ d.flags = dev.flags
    BY <2>1, <2>2 DEF Devs
  <2>5. dev'.flags = dev.flags
    BY <2>3, <2>4 DEF Devs
  <2> QED
    BY <2>1, <2>5 DEF OutIsWrite
<1> QED
  BY <1>1, <1>2, <1>3 DEF Isr

LEMMA HostOutIsWrite ==
  ASSUME IInv, OutIsWrite, SendCbw \/ HostGoesOn
  PROVE  OutIsWrite'
<1>1. CASE SendData \/ TakeData \/ ClearHaltOut
  BY <1>1 DEF SendData, TakeData, ClearHaltOut, OutIsWrite, IInv, Core, Devs
<1>2. CASE SendCbw \/ TakeCsw
  <2>1. dev'.flags = {}
    BY <1>2 DEF SendCbw, TakeCsw, IInv, Core, Phases, Idle, InCommand, CbwSent, Rejected, Declined,
       Answering, ReadPhase, DataPhase, OutPhase, WritePhase, CswQueued
  <2> QED
    BY <2>1 DEF OutIsWrite
<1>3. CASE ClearHaltIn \/ ResetRecovery
  <2>1. dev.flags \in {{}, {"CSW"}}
    BY <1>3 DEF ClearHaltIn, ResetRecovery, IInv, Core, Phases, Idle, InCommand, CbwSent, Rejected,
       Declined, Answering, ReadPhase, DataPhase, OutPhase, WritePhase, CswQueued
  <2> DEFINE d == [dev EXCEPT !.tx = "NAK"]
  <2>2. d \in Devs /\ d.flags = dev.flags
    BY DEF IInv, Core, Devs
  <2>3. dev' = BulkIn(d) \/ dev' = [dev EXCEPT !.tx = "NAK", !.rx = "ACK"]
    BY <1>3 DEF ClearHaltIn, ResetRecovery
  <2> HIDE DEF d
  <2>4. BulkIn(d).flags = {}
    BY <2>1, <2>2, BulkInFacts, SendCswFacts
  <2>5. dev'.flags \in {{}, {"CSW"}}
    BY <2>1, <2>3, <2>4 DEF IInv, Core, Devs
  <2> QED
    BY <2>5 DEF OutIsWrite
<1> QED
  BY <1>1, <1>2, <1>3 DEF HostGoesOn

LEMMA LoopOutIsWrite ==
  ASSUME IInv, OutIsWrite, Main \/ UNCHANGED vars
  PROVE  OutIsWrite'
<1>1. cmd' = cmd
  BY DEF Main, Transfer, PollRead, ReadStream, ReadCsw, TailLoad, TailStore, PollWrite, WriteStream,
     WriteFails, WriteCsw, Rearm, SkipUnlock, Streamed, hostVars, vars
<1>2. CASE ReadCsw \/ WriteCsw
  BY <1>2, SendCswFacts DEF ReadCsw, WriteCsw, IInv, Core, OutIsWrite
<1>3. CASE TailStore
  BY <1>3 DEF TailStore, IInv, Core, Devs, OutIsWrite
<1>4. CASE \/ PollRead \/ ReadStream \/ TailLoad \/ PollWrite \/ WriteStream \/ WriteFails \/ Rearm
           \/ SkipUnlock \/ UNCHANGED vars
  <2>1. dev'.flags = dev.flags
    BY <1>4 DEF PollRead, ReadStream, TailLoad, PollWrite, WriteStream, WriteFails, SetSense, Rearm,
       SkipUnlock, vars, IInv, Core, Devs
  <2> QED
    BY <1>1, <2>1 DEF OutIsWrite
<1> QED
  BY <1>2, <1>3, <1>4 DEF Main, Transfer

(* bot_handle_bulk_out marks a write for every OUT data phase, whatever    *)
(* the opcode.  The data phases of refused commands are stalled, so only   *)
(* data sent with VERIFY(10) can do harm (BotVerify.cfg): without it, only *)
(* WRITE(10) changes the medium.                                           *)
THEOREM OnlyWritesReachTheCard ==
  ~TailInterrupted /\ WellFormed => (Spec => OnlyWritesChangeTheCard)
<1> SUFFICES ASSUME ~TailInterrupted, WellFormed PROVE Spec => OnlyWritesChangeTheCard
  OBVIOUS
<1> DEFINE Inv == IInv /\ OutIsWrite
<1>1. Init => Inv
  BY InitIInv DEF Init, OutIsWrite
<1>2. Inv /\ [Next]_vars => Inv'
  BY StepIInv, IsrOutIsWrite, HostOutIsWrite, LoopOutIsWrite DEF Next
<1>3. Inv /\ [Next]_vars => [card' # card => cmd.cbw.op = "WRITE10"]_vars
  <2> SUFFICES ASSUME Inv, Next, card' # card
               PROVE  cmd.cbw.op = "WRITE10"
    OBVIOUS
  <2>1. WriteStream \/ WriteFails
    BY DEF Next, Isr, IsrIn, IsrOut, SendCbw, HostGoesOn, SendData, TakeData, TakeCsw, ClearHaltOut,
       ClearHaltIn, ResetRecovery, Busless, Main, Transfer, PollRead, ReadStream, ReadCsw, TailLoad,
       TailStore, PollWrite, WriteCsw, Rearm, SkipUnlock
  <2>2. dev.flags = {"CSW", "OUT"}
    BY <2>1 DEF WriteStream, WriteFails, Goto, IInv, Core, Phases, Idle, InCommand, CbwSent, Rejected,
       Declined, Answering, ReadPhase, DataPhase, WritePhase, CswQueued, Polling, InTail, Streams
  <2> QED
    BY <2>2 DEF OutIsWrite
<1> HIDE DEF Inv
<1> QED
  BY <1>1, <1>2, <1>3, PTL DEF Spec, OnlyWritesChangeTheCard
=============================================================================
