----------------------------- MODULE UnlockProofs -----------------------------
(***************************************************************************)
(* Proofs about Unlock, for any timeout and root directory: from the       *)
(* phases of BotProofs, whose places where the main loop polls include the *)
(* whole try, and from what the try itself keeps: while it runs with the   *)
(* interrupt off and the endpoint NAKing, the host can take what is queued *)
(* for it and can start nothing.                                           *)
(***************************************************************************)
EXTENDS Unlock, BotProofs

\* The places of a try: the endpoint answers NAK, the host is attached or not.
Attached == {"idle1", "find", "timeout", "idle2", "detach", "resume"}
Detached == {"delete", "decide", "derive", "attach"}
Closed == Attached \cup Detached
Certain == {"find", "timeout", "idle2", "detach"}
Switching == {"irqOff", "nak"} \cup Attached \cup {"delete", "decide", "derive"}

Endpoint ==
  /\ dev.rx = (IF pc \in Closed THEN "NAK" ELSE RxDue)
  /\ pc \in Attached => rxSaved = RxDue
Interrupt == irq <=> pc \notin {"read", "write", "nak"} \cup Closed
Detachment == host = "gone" <=> pc \in Detached
Idleness == pc \in Certain \cup Detached => UsbIsIdle
Derivation ==
  /\ derived \in {0, 1} /\ (pstate = "UNLOCKED" <=> derived = 1)
  /\ pc \in Switching => pstate = "PENDING"
File ==
  /\ pc = "derive" => deleted \/ timedOut
  /\ pc \in {"decide", "derive"} /\ deleted => ~FileListed

(* The inductive invariant.                                                *)
UIInv == Core /\ Endpoint /\ Interrupt /\ Detachment /\ Idleness /\ Derivation /\ File

----------------------------------------------------------------------------
USE SizeAssumption, CommandAssumption, DirAssumption
USE DEF Attached, Detached, Closed, Certain, Switching

LEMMA OpenIInv ==
  ASSUME UIInv, pc \notin Closed
  PROVE  IInv /\ host # "gone"
BY DEF UIInv, Endpoint, Detachment, IInv

\* A step between places outside a try, whose transport part is known.
LEMMA OpenStep ==
  ASSUME UIInv, IInv', pc' \notin Closed, host' # "gone", Interrupt', Derivation'
  PROVE  UIInv'
BY DEF UIInv, IInv, Endpoint, Detachment, Idleness, File

(* Steps of the interrupt and the host.                                    *)
LEMMA BusFrame ==
  ASSUME Isr \/ SendCbw \/ HostGoesOn, Core
  PROVE  UNCHANGED <<pc, irq, pstate, card>> /\ (host # "gone" => host' # "gone")
<1>1. CASE Isr
  BY <1>1 DEF Isr, IsrIn, IsrOut, volVars, hostVars
<1>2. CASE SendCbw
  BY <1>2 DEF SendCbw, Busless, volVars
<1>3. CASE HostGoesOn
  BY <1>3 DEF HostGoesOn, SendData, TakeData, TakeCsw, ClearHaltOut, ClearHaltIn, ResetRecovery,
     Busless, volVars
<1> QED
  BY <1>1, <1>2, <1>3

LEMMA BusStep ==
  ASSUME UIInv, IsrTransfer \/ HostStarts \/ HostContinues, ~TailInterrupted
  PROVE  UIInv'
<1>1. /\ Isr \/ SendCbw \/ HostGoesOn
      /\ UNCHANGED <<pwLba, rxSaved, timedOut, deleted, derived>>
  BY DEF IsrTransfer, HostStarts, HostContinues, tryVars, pwVars
<1>2. UNCHANGED <<pc, irq, pstate, card>> /\ (host # "gone" => host' # "gone")
  BY <1>1, BusFrame DEF UIInv
<1>3. Interrupt' /\ Derivation' /\ File'
  BY <1>1, <1>2 DEF UIInv, Interrupt, Derivation, File, FileListed
<1>4. CASE pc \notin Closed
  <2>1. IInv /\ host # "gone"
    BY <1>4, OpenIInv
  <2>2. IInv'
    BY <1>1, <2>1, IsrStep, SendCbwStep, HostStep
  <2> QED
    BY <1>2, <1>3, <1>4, <2>1, <2>2, OpenStep
<1>5. CASE pc \in Closed
  <2>1. ~irq /\ dev.rx = "NAK"
    BY <1>5 DEF UIInv, Interrupt, Endpoint
  <2>2. TakeData \/ TakeCsw
    BY <1>1, <2>1 DEF Isr, IsrIn, IsrOut, SendCbw, HostGoesOn, SendData, ClearHaltOut, ClearHaltIn,
       ResetRecovery
  <2>3. dev.tx = "ACK" /\ host # "gone"
    BY <2>2 DEF TakeData, TakeCsw
  <2>4. pc \in {"idle1", "resume"}
    BY <1>5, <2>3 DEF UIInv, Idleness, Detachment, UsbIsIdle
  <2>5. Core' /\ dev' = dev /\ RxDue' = RxDue
    BY <2>2, TakeDataStep, TakeCswStep DEF UIInv
  <2>6. Endpoint' /\ Detachment' /\ Idleness'
    BY <1>1, <1>2, <2>3, <2>4, <2>5 DEF UIInv, Endpoint, Detachment, Idleness
  <2> QED
    BY <1>3, <2>5, <2>6 DEF UIInv
<1> QED
  BY <1>4, <1>5

(* Time, and control requests.                                             *)
LEMMA OtherStep ==
  ASSUME UIInv, IsrSetup \/ SetupArrives \/ Tick \/ UNCHANGED allVars
  PROVE  UIInv'
<1>1. UNCHANGED vars /\ UNCHANGED <<pwLba, rxSaved, timedOut, deleted, derived>>
  BY DEF IsrSetup, SetupArrives, Tick, allVars, pwVars, tryVars
<1>2. Core' /\ RxDue' = RxDue
  BY <1>1 DEF UIInv, vars, volVars, hostVars, Core, Others, Phases, Idle, InCommand, CbwSent, Rejected,
     Declined, Answering, ReadPhase, DataPhase, OutPhase, WritePhase, CswQueued, Quiet, Polling, InTail,
     RxDue, Writes, RefusesOut, AwaitsReset
<1>3. UNCHANGED <<dev, xfer, irq, pc, pstate, card, host>>
  BY <1>1 DEF vars, volVars, hostVars
<1> QED
  BY <1>1, <1>2, <1>3
     DEF UIInv, Endpoint, Interrupt, Detachment, Idleness, Derivation, File, FileListed, UsbIsIdle

(* The data phases.                                                        *)
LEMMA StreamStep ==
  ASSUME UIInv, OtherTransfer \/ Reading \/ Writing \/ RearmWrite
  PROVE  UIInv'
<1>1. Transfer /\ derived' = derived
  BY DEF OtherTransfer, Reading, Writing, RearmWrite, Transfer, tryVars
<1>2. pc \notin Closed /\ pc' \notin Closed \cup Switching
  BY <1>1 DEF Transfer, PollRead, ReadStream, ReadCsw, TailLoad, TailStore, PollWrite, WriteStream,
     WriteFails, WriteCsw, Rearm, Goto
<1>3. IInv /\ host # "gone"
  BY <1>2, OpenIInv
<1>4. IInv'
  BY <1>1, <1>3, TransferStep
<1>5. host' # "gone"
  BY <1>1, <1>3 DEF Transfer, PollRead, ReadStream, ReadCsw, TailLoad, TailStore, PollWrite, WriteStream,
     WriteFails, WriteCsw, Rearm, Streamed, hostVars
<1>6. Interrupt'
  <2>1. CASE PollRead \/ PollWrite
    BY <2>1 DEF PollRead, PollWrite, Goto, Interrupt
  <2>2. CASE ReadStream \/ WriteStream \/ WriteFails
    BY <2>2 DEF ReadStream, WriteStream, WriteFails, Streamed, Goto, Interrupt
  <2>3. CASE ReadCsw \/ TailLoad \/ TailStore \/ WriteCsw \/ Rearm
    BY <2>3 DEF ReadCsw, TailLoad, TailStore, WriteCsw, Rearm, Goto, UIInv, Interrupt
  <2> QED
    BY <1>1, <2>1, <2>2, <2>3 DEF Transfer
<1>7. pstate' = "UNLOCKED" <=> pstate = "UNLOCKED"
  BY <1>1 DEF Transfer, PollRead, ReadStream, ReadCsw, TailLoad, TailStore, PollWrite, WriteStream,
     WriteFails, WriteCsw, Rearm, Streamed, Snooped, Locked, volVars
<1>8. Derivation'
  BY <1>1, <1>2, <1>7 DEF UIInv, Derivation
<1> QED
  BY <1>2, <1>4, <1>5, <1>6, <1>8, OpenStep

----------------------------------------------------------------------------
(* Steps of a try.                                                         *)

\* A step of the main loop that only moves on, within a try or into one.
LEMMA PlainStep ==
  ASSUME Core, pc \notin Streams, pc' \notin Streams,
         UNCHANGED <<dev, xfer, volVars, card, host>>, Keeps, irq' \in BOOLEAN
  PROVE  /\ Core' /\ RxDue' = RxDue
         /\ UNCHANGED <<dev, xfer, pstate, card, host>> /\ UsbIsIdle' = UsbIsIdle
<1>1. UNCHANGED <<dev, xfer, host, rxbuf, reg, cmd, sent, tag, pstate, capacity, card>>
  BY DEF Keeps, volVars
<1>2. dev' \in Devs /\ Others' /\ reg' = {}
  BY <1>1 DEF Core, Others
<1>3. UsbIsIdle' = UsbIsIdle
  BY <1>1 DEF UsbIsIdle
<1> QED
  BY <1>1, <1>2, <1>3, PollingStep

LEMMA PollUnlockStep ==
  ASSUME UIInv, PollUnlock
  PROVE  UIInv'
<1>1. /\ pc = "pollUnlock" /\ pc' \in {"irqOff", "poll"} /\ irq' = irq
      /\ pc' = "irqOff" => pstate = "PENDING"
      /\ UNCHANGED <<dev, xfer, volVars, card, host>> /\ Keeps /\ derived' = derived
  BY DEF PollUnlock, Goto, TryDue, hostVars, Keeps, tryVars
<1>2. /\ Core' /\ RxDue' = RxDue
      /\ UNCHANGED <<dev, xfer, pstate, card, host>> /\ UsbIsIdle' = UsbIsIdle
  BY <1>1, PlainStep DEF UIInv, Core, Others, Streams
<1> QED
  BY <1>1, <1>2 DEF UIInv, Endpoint, Interrupt, Detachment, Idleness, Derivation, File

LEMMA IrqOffStep ==
  ASSUME UIInv, IrqOff
  PROVE  UIInv'
<1>1. /\ pc = "irqOff" /\ pc' = "nak" /\ irq' = FALSE
      /\ UNCHANGED <<dev, xfer, volVars, card, host>> /\ Keeps /\ derived' = derived
  BY DEF IrqOff, Goto, tryVars
<1>2. /\ Core' /\ RxDue' = RxDue
      /\ UNCHANGED <<dev, xfer, pstate, card, host>> /\ UsbIsIdle' = UsbIsIdle
  BY <1>1, PlainStep DEF UIInv, Streams
<1> QED
  BY <1>1, <1>2 DEF UIInv, Endpoint, Interrupt, Detachment, Idleness, Derivation, File

LEMMA NakStep ==
  ASSUME UIInv, Nak
  PROVE  UIInv'
<1>1. /\ pc = "nak" /\ pc' = "idle1" /\ rxSaved' = dev.rx /\ dev' = [dev EXCEPT !.rx = "NAK"]
      /\ UNCHANGED <<xfer, irq, volVars, card, host>> /\ Keeps /\ derived' = derived
  BY DEF Nak, Goto
<1>2. /\ dev' \in Devs /\ dev'.rx = "NAK" /\ dev'.flags = dev.flags /\ dev'.tx = dev.tx
      /\ dev'.rd = dev.rd /\ dev'.wr = dev.wr /\ dev'.left = dev.left /\ dev'.op = dev.op
      /\ dev'.txbuf = dev.txbuf
  BY <1>1 DEF UIInv, Core, Devs
<1>3. Others' /\ reg' = {}
  BY <1>1 DEF UIInv, Core, Others, Keeps, volVars
<1>4. Core' /\ RxDue' = RxDue
  BY <1>1, <1>2, <1>3, PollingStep DEF UIInv, Streams, Keeps
<1>5. dev.rx = RxDue
  BY <1>1 DEF UIInv, Endpoint
<1> QED
  BY <1>1, <1>2, <1>4, <1>5
     DEF UIInv, Endpoint, Interrupt, Detachment, Idleness, Derivation, File, volVars

\* The steps that look, decide and change nothing of the transport.
LEMMA LookStep ==
  ASSUME UIInv, Idle1 \/ Find \/ Timeout \/ Idle2
  PROVE  UIInv'
<1>1. /\ pc \in Attached /\ pc' \in Attached /\ irq' = irq
      /\ pc' \in Certain => UsbIsIdle
      /\ UNCHANGED <<dev, xfer, volVars, card, host>> /\ Keeps
      /\ UNCHANGED <<rxSaved, derived>>
  BY DEF UIInv, Idleness, Idle1, Find, Timeout, Idle2, Goto, UsbIdle, tryVars
<1>2. /\ Core' /\ RxDue' = RxDue
      /\ UNCHANGED <<dev, xfer, pstate, card, host>> /\ UsbIsIdle' = UsbIsIdle
  BY <1>1, PlainStep DEF UIInv, Streams, Core, Others
<1> QED
  BY <1>1, <1>2 DEF UIInv, Endpoint, Interrupt, Detachment, Idleness, Derivation, File

\* Where the host is cut off the drive is idle, and so it stays.
LEMMA SureOfIdle ==
  ASSUME UIInv, pc \in Certain \cup Detached
  PROVE  Idle /\ UsbIsIdle
<1>1. dev.flags = {} /\ dev.tx = "NAK" /\ xfer = "none" /\ UsbIsIdle
  BY DEF UIInv, Idleness, UsbIsIdle
<1>2. ~InCommand
  BY <1>1 DEF InCommand, CbwSent, Rejected, Declined, Answering, ReadPhase,
     DataPhase, OutPhase, WritePhase, CswQueued
<1> QED
  BY <1>1, <1>2 DEF UIInv, Core, Phases

LEMMA DetachStep ==
  ASSUME UIInv, Detach
  PROVE  UIInv'
<1>1. /\ pc = "detach" /\ pc' \in {"delete", "decide"} /\ host' = "gone" /\ cmd' = NoCmd
      /\ xfer' = "none" /\ deleted' = FALSE /\ dev' = [dev EXCEPT !.tx = "NAK", !.rx = "NAK"]
      /\ UNCHANGED <<irq, reg, pstate, capacity, card, sent, tag, derived>>
  BY DEF Detach, Goto, volVars
<1>2. Idle /\ UsbIsIdle
  BY <1>1, SureOfIdle
<1>3. /\ dev' \in Devs /\ dev'.rx = "NAK" /\ dev'.tx = "NAK" /\ dev'.flags = dev.flags
      /\ dev'.rd = dev.rd /\ dev'.wr = dev.wr
  BY <1>1 DEF UIInv, Core, Devs
<1>4. Others' /\ reg' = {}
  BY <1>1 DEF UIInv, Core, Others
<1>5. Idle' /\ UsbIsIdle'
  BY <1>1, <1>2, <1>3 DEF Idle, UsbIsIdle, Quiet, Polling, Streams
<1> QED
  BY <1>1, <1>3, <1>4, <1>5
     DEF UIInv, Core, Phases, Endpoint, Interrupt, Detachment, Idleness, Derivation, File

\* Blanking the root directory takes the file off the medium.
LEMMA BlankedFacts ==
  ASSUME Others, NEW S
  PROVE  /\ Blanked(S) \in [0 .. CARD - 1 -> [val : Values, enc : BOOLEAN]]
         /\ DIR \in S => Blanked(S)[DIR].val = "zero"
<1>1. DOMAIN card = 0 .. CARD - 1 /\ DIR \in 0 .. CARD - 1
  BY DEF Others
<1>2. ASSUME NEW p \in 0 .. CARD - 1
      PROVE  /\ [card[p] EXCEPT !.val = "zero"] \in [val : Values, enc : BOOLEAN]
             /\ [card[p] EXCEPT !.val = "zero"].val = "zero"
             /\ card[p] \in [val : Values, enc : BOOLEAN]
  <2>1. card[p] \in [val : Values, enc : BOOLEAN] /\ "zero" \in Values
    BY DEF Others, Values
  <2> QED
    BY <2>1
<1> QED
  BY <1>1, <1>2 DEF Blanked

LEMMA DeleteStep ==
  ASSUME UIInv, Delete
  PROVE  UIInv'
<1>1. /\ pc = "delete" /\ pc' = "decide" /\ UNCHANGED <<dev, xfer, irq, volVars, host>> /\ Keeps
      /\ derived' = derived
  BY DEF Delete, Goto
<1>2. \E S : card' = Blanked(S)
  BY DEF Delete
<1>3. deleted' => card'[DIR].val = "zero"
  <2>1. DIR \in {pwLba, DIR}
    OBVIOUS
  <2> QED
    BY <2>1, BlankedFacts DEF Delete, UIInv, Core
<1>4. Others' /\ reg' = {}
  BY <1>1, <1>2, BlankedFacts DEF UIInv, Core, Others, Keeps, volVars
<1>5. Core' /\ RxDue' = RxDue
  BY <1>1, <1>4, PollingStep DEF UIInv, Core, Streams, Keeps
<1>6. UsbIsIdle'
  BY <1>1, SureOfIdle DEF UsbIsIdle
<1>7. deleted' => ~FileListed'
  BY <1>3 DEF FileListed
<1> QED
  BY <1>1, <1>5, <1>6, <1>7
     DEF UIInv, Endpoint, Interrupt, Detachment, Idleness, Derivation, File, volVars

LEMMA DecideStep ==
  ASSUME UIInv, Decide
  PROVE  UIInv'
<1>1. /\ pc = "decide" /\ pc' = (IF deleted \/ timedOut THEN "derive" ELSE "attach") /\ irq' = irq
      /\ UNCHANGED <<dev, xfer, volVars, card, host>> /\ Keeps
      /\ UNCHANGED <<pwLba, timedOut, deleted, derived>>
  BY DEF Decide, Goto, tryVars, pwVars
<1>2. /\ Core' /\ RxDue' = RxDue
      /\ UNCHANGED <<dev, xfer, pstate, card, host>> /\ UsbIsIdle' = UsbIsIdle
  BY <1>1, PlainStep DEF UIInv, Streams, Core, Others
<1> QED
  BY <1>1, <1>2 DEF UIInv, Endpoint, Interrupt, Detachment, Idleness, Derivation, File, FileListed

LEMMA DeriveStep ==
  ASSUME UIInv, Derive
  PROVE  UIInv'
<1>1. /\ pc = "derive" /\ pc' = "attach" /\ derived' = derived + 1 /\ pstate' = "UNLOCKED"
      /\ capacity' = HiddenSize /\ dev' = [dev EXCEPT !.flags = {}, !.rd = FALSE, !.wr = FALSE]
      /\ UNCHANGED <<xfer, irq, card, host, rxbuf, reg, cmd, sent, tag>>
  BY DEF Derive, Goto, Keeps
<1>2. Idle /\ UsbIsIdle
  BY <1>1, SureOfIdle
<1>3. /\ dev' \in Devs /\ dev'.rx = dev.rx /\ dev'.tx = dev.tx /\ dev'.flags = {}
      /\ ~dev'.rd /\ ~dev'.wr
  BY <1>1 DEF UIInv, Core, Devs, Flags
<1>4. Others' /\ reg' = {}
  BY <1>1 DEF UIInv, Core, Others, HiddenSize
<1>5. Idle' /\ UsbIsIdle'
  BY <1>1, <1>2, <1>3 DEF Idle, UsbIsIdle, Quiet, Polling, Streams
<1>6. derived = 0
  BY <1>1 DEF UIInv, Derivation
<1> QED
  BY <1>1, <1>3, <1>4, <1>5, <1>6
     DEF UIInv, Core, Phases, Endpoint, Interrupt, Detachment, Idleness, Derivation, File

LEMMA AttachStep ==
  ASSUME UIInv, Attach
  PROVE  UIInv'
<1>1. /\ pc = "attach" /\ pc' = "poll" /\ irq' = TRUE /\ host' = "idle"
      /\ dev' = [dev EXCEPT !.rx = "ACK"] /\ derived' = derived
      /\ UNCHANGED <<xfer, pstate, capacity, card, rxbuf, reg, cmd, sent, tag>>
  BY DEF Attach, Goto, Returns, Keeps, volVars
<1>2. Idle /\ UsbIsIdle
  BY <1>1, SureOfIdle
<1>3. /\ dev' \in Devs /\ dev'.rx = "ACK" /\ dev'.tx = dev.tx /\ dev'.flags = dev.flags
      /\ dev'.rd = dev.rd /\ dev'.wr = dev.wr
  BY <1>1 DEF UIInv, Core, Devs
<1>4. Others' /\ reg' = {}
  BY <1>1 DEF UIInv, Core, Others
<1>5. Idle' /\ RxDue' = "ACK"
  BY <1>1, <1>2, <1>3
     DEF Idle, UsbIsIdle, Quiet, Polling, Streams, RxDue, Writes, RefusesOut, AwaitsReset
<1> QED
  BY <1>1, <1>3, <1>4, <1>5
     DEF UIInv, Core, Phases, Endpoint, Interrupt, Detachment, Idleness, Derivation, File

LEMMA ResumeStep ==
  ASSUME UIInv, Resume
  PROVE  UIInv'
<1>1. /\ pc = "resume" /\ pc' = "poll" /\ irq' = TRUE /\ dev' = [dev EXCEPT !.rx = rxSaved]
      /\ UNCHANGED <<xfer, volVars, card, host>> /\ Keeps /\ derived' = derived
  BY DEF Resume, Goto, Returns
<1>2. rxSaved = RxDue
  BY <1>1 DEF UIInv, Endpoint
<1>3. rxSaved \in {"ACK", "NAK", "STALL"}
  BY <1>2 DEF RxDue
<1>4. /\ dev' \in Devs /\ dev'.rx = rxSaved /\ dev'.flags = dev.flags /\ dev'.tx = dev.tx
      /\ dev'.rd = dev.rd /\ dev'.wr = dev.wr /\ dev'.left = dev.left /\ dev'.op = dev.op
      /\ dev'.txbuf = dev.txbuf
  BY <1>1, <1>3 DEF UIInv, Core, Devs
<1>5. Others' /\ reg' = {}
  BY <1>1 DEF UIInv, Core, Others, Keeps, volVars
<1>6. Core' /\ RxDue' = RxDue
  BY <1>1, <1>4, <1>5, PollingStep DEF UIInv, Streams, Keeps
<1> QED
  BY <1>1, <1>2, <1>4, <1>6
     DEF UIInv, Endpoint, Interrupt, Detachment, Idleness, Derivation, File, volVars

LEMMA StepUIInv ==
  ASSUME UIInv, [UNext]_allVars, ~TailInterrupted
  PROVE  UIInv'
BY BusStep, OtherStep, StreamStep, PollUnlockStep, IrqOffStep, NakStep, LookStep, DetachStep,
   DeleteStep, DecideStep, DeriveStep, AttachStep, ResumeStep DEF UNext, UMain, TryUnlock

LEMMA InitUIInv ==
  ASSUME UInit
  PROVE  UIInv
<1>1. IInv
  BY InitIInv DEF UInit
<1> QED
  BY <1>1 DEF UInit, Init, IInv, UIInv, Endpoint, Interrupt, Detachment, Idleness, Derivation, File

THEOREM AlwaysUIInv == ~TailInterrupted => (USpec => []UIInv)
<1> SUFFICES ASSUME ~TailInterrupted PROVE USpec => []UIInv
  OBVIOUS
<1>1. UInit => UIInv
  BY InitUIInv
<1>2. UIInv /\ [UNext]_allVars => UIInv'
  BY StepUIInv
<1> QED
  BY <1>1, <1>2, PTL DEF USpec

(* Whatever a try meets, it leaves the interrupt on, the host attached and *)
(* endpoint 1 listening.                                                   *)
THEOREM UsbAlwaysGivenBack == ~TailInterrupted => (USpec => []UsbGivenBack)
<1>1. UIInv => UsbGivenBack
  BY DEF UIInv, Endpoint, Interrupt, Detachment, UsbGivenBack, RxDue, Writes
<1> QED
  BY <1>1, AlwaysUIInv, PTL

(* The salt is incremented at most once, and by what unlocks the drive.    *)
THEOREM OneDerivation == ~TailInterrupted => (USpec => []KeysDerivedOnce)
<1>1. UIInv => KeysDerivedOnce
  BY DEF UIInv, Derivation, KeysDerivedOnce
<1> QED
  BY <1>1, AlwaysUIInv, PTL

(* The host is not cut off in a command, however its packets and the steps *)
(* of the try from the last look at the flags to the detach interleave.    *)
THEOREM NoCommandCutOff == ~TailInterrupted => (USpec => DetachBetweenCommands)
<1> SUFFICES ASSUME ~TailInterrupted PROVE USpec => DetachBetweenCommands
  OBVIOUS
<1>1. ASSUME UIInv, UIInv', [UNext]_allVars, host' = "gone", host # "gone"
      PROVE  cmd = NoCmd
  <2>1. Detach
    <3>1. ~(IsrTransfer \/ HostStarts \/ HostContinues)
      BY <1>1, BusFrame DEF IsrTransfer, HostStarts, HostContinues, UIInv
    <3>2. pc' \in Detached /\ pc \notin Detached
      BY <1>1 DEF UIInv, Detachment
    <3> QED
      BY <1>1, <3>1, <3>2 DEF UNext, IsrSetup, SetupArrives, Tick, allVars, vars, UMain, OtherTransfer,
         Reading, Writing, RearmWrite, PollRead, ReadCsw, TailLoad, TailStore, PollWrite, WriteCsw,
         ReadStream, WriteStream, WriteFails, Rearm, PollUnlock, TryUnlock, IrqOff, Nak, Idle1, Find,
         Timeout, Idle2, Delete, Decide, Derive, Attach, Resume, Goto
  <2>2. Idle
    BY <1>1, <2>1, SureOfIdle DEF Detach, Goto
  <2> QED
    BY <2>2 DEF Idle
<1>2. UIInv /\ UIInv' /\ [UNext]_allVars => [host' = "gone" /\ host # "gone" => cmd = NoCmd]_allVars
  BY <1>1
<1> QED
  BY <1>2, AlwaysUIInv, PTL DEF USpec, DetachBetweenCommands

(* Only a derivation unlocks, and it comes after the timeout or with the   *)
(* password's file off the medium.                                         *)
THEOREM FileGoneOrTimedOut == ~TailInterrupted => (USpec => FileGoneOrTimeout)
<1> SUFFICES ASSUME ~TailInterrupted PROVE USpec => FileGoneOrTimeout
  OBVIOUS
<1>1. ASSUME UIInv, UIInv', [UNext]_allVars, pstate' = "UNLOCKED", pstate # "UNLOCKED"
      PROVE  timedOut \/ ~FileListed
  <2>1. derived = 0 /\ derived' = 1
    BY <1>1 DEF UIInv, Derivation
  <2>2. Derive
    BY <1>1, <2>1 DEF UNext, IsrTransfer, HostStarts, HostContinues, IsrSetup, SetupArrives, Tick,
       allVars, tryVars, UMain, OtherTransfer, Reading, Writing, RearmWrite, PollUnlock, TryUnlock,
       IrqOff, Nak, Idle1, Find, Timeout, Idle2, Detach, Delete, Decide, Attach, Resume, Returns
  <2> QED
    BY <1>1, <2>2 DEF Derive, Goto, UIInv, File
<1>2. UIInv /\ UIInv' /\ [UNext]_allVars
        => [pstate' = "UNLOCKED" /\ pstate # "UNLOCKED" => timedOut \/ ~FileListed]_allVars
  BY <1>1
<1> QED
  BY <1>2, AlwaysUIInv, PTL DEF USpec, FileGoneOrTimeout
=============================================================================
