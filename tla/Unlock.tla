------------------------------- MODULE Unlock -------------------------------
(***************************************************************************)
(* The switch from the decoy to the hidden volume: bot_poll's last part    *)
(* and phantomdrive_try_unlock, on top of the transport of Bot.  The main  *)
(* loop keeps the interrupt off and the endpoint NAKing while it looks for *)
(* the file the password was typed into, detaches from the host, deletes   *)
(* the file, derives the keys and comes back with the other volume.        *)
(* Control requests and bus resets may arrive at any step of it, card      *)
(* accesses may fail, and time passes in units of UNLOCK_IDLE_MS.          *)
(***************************************************************************)
EXTENDS Bot

CONSTANTS TIMEOUT,      \* UNLOCK_TIMEOUT_MS in those units, 6 in the firmware
          DIR           \* sector of the root directory

ASSUME TimeoutAssumption == TIMEOUT \in Nat \ {0}
ASSUME DirAssumption == DIR \in 0 .. LOCKED - 1

VARIABLES
  pwLen,        \* pending_pw_len: "zero" or "some"
  pwLba,        \* pending_pw_lba
  pwAge,        \* units since pending_pw_started_ms, up to TIMEOUT
  sinceWrite,   \* units since last_write_ms, up to 1
  sinceCheck,   \* units since last_check_ms, up to 1
  setup,        \* RB_USB_IF_SETUOACT or RB_USB_IF_BUSRST is set
  rxSaved,      \* rx_control
  path,         \* unlock_file_find returned a path
  timedOut,     \* timed_out
  deleted,      \* deleted
  derived       \* calls of phantomdrive_crypto_unlock, each increments the salt

clocks == <<pwAge, sinceWrite, sinceCheck>>
tryVars == <<rxSaved, path, timedOut, deleted, derived>>
pwVars == <<pwLen, pwLba>>
allVars == <<vars, pwVars, clocks, setup, tryVars>>

UInit ==
  /\ Init
  /\ pstate = "LOCKED"
  /\ pwLen = "zero" /\ pwLba = 0
  /\ pwAge = TIMEOUT /\ sinceWrite = 1 /\ sinceCheck = 1
  /\ setup = FALSE
  /\ rxSaved = "ACK" /\ path = FALSE /\ timedOut = FALSE /\ deleted = FALSE /\ derived = 0

----------------------------------------------------------------------------
(* The transport, and what it tells the unlock logic.                      *)

\* The last password line of the write just streamed: an empty one forgets
\* the pending password but leaves phantomdrive_state as it is.
Lines == {i \in 1 .. sent' : Packet(i) \in {"pw", "empty"}}
LastLine == CHOOSE i \in Lines : \A j \in Lines : j <= i
SnoopLine ==
  IF Locked /\ Lines # {}
    THEN /\ pwLen' = IF Packet(LastLine) = "pw" THEN "some" ELSE "zero"
         /\ pwLba' = dev.lba + LastLine - 1
         /\ pwAge' = 0
    ELSE UNCHANGED <<pwVars, pwAge>>

Writing ==
  /\ WriteStream \/ WriteFails
  /\ SnoopLine
  /\ setup' \in {FALSE, setup}
  /\ UNCHANGED <<sinceWrite, sinceCheck, tryVars>>

RearmWrite ==
  /\ Rearm
  /\ sinceWrite' = 0
  /\ UNCHANGED <<pwVars, pwAge, sinceCheck, setup, tryVars>>

\* Both streams throw away a control request that arrives meanwhile.
Reading ==
  /\ ReadStream
  /\ setup' \in {FALSE, setup}
  /\ UNCHANGED <<pwVars, clocks, tryVars>>

OtherTransfer ==
  /\ PollRead \/ ReadCsw \/ TailLoad \/ TailStore \/ PollWrite \/ WriteCsw
  /\ UNCHANGED <<pwVars, clocks, setup, tryVars>>

HostStarts == SendCbw /\ UNCHANGED <<pwVars, clocks, setup, tryVars>>
HostContinues == HostGoesOn /\ UNCHANGED <<pwVars, clocks, setup, tryVars>>

\* A control request or a bus reset, and the interrupt that deals with it: at
\* once, unless the main loop keeps it off.
SetupArrives ==
  /\ host # "gone" /\ ~irq /\ ~setup
  /\ setup' = TRUE
  /\ UNCHANGED <<vars, pwVars, clocks, tryVars>>

IsrSetup ==
  /\ irq /\ setup
  /\ setup' = FALSE
  /\ UNCHANGED <<vars, pwVars, clocks, tryVars>>

IsrTransfer == Isr /\ UNCHANGED <<pwVars, clocks, setup, tryVars>>

Older(age, bound) == IF age < bound THEN age + 1 ELSE age
\* The clocks are only read while a password is pending.
Tick ==
  /\ pstate = "PENDING"
  /\ pwAge' = Older(pwAge, TIMEOUT)
  /\ sinceWrite' = Older(sinceWrite, 1)
  /\ sinceCheck' = Older(sinceCheck, 1)
  /\ clocks' # clocks
  /\ UNCHANGED <<vars, pwVars, setup, tryVars>>

----------------------------------------------------------------------------
(* bot_poll's last part and phantomdrive_try_unlock.                       *)
Keeps == UNCHANGED <<rxbuf, reg, cmd, sent, recv, seen, tag>>

TimeoutReached == pwAge = TIMEOUT

\* Not pending, or too soon after a write or the last try; otherwise a try,
\* which returns at once if the password was forgotten.
TryDue ==
  /\ pstate = "PENDING"
  /\ TimeoutReached \/ (sinceWrite = 1 /\ sinceCheck = 1)

PollUnlock ==
  /\ Goto("pollUnlock", IF TryDue /\ pwLen # "zero" THEN "irqOff" ELSE "poll")
  /\ sinceCheck' = IF TryDue THEN 0 ELSE sinceCheck
  /\ UNCHANGED <<dev, rxbuf, xfer, irq, reg, volVars, card, hostVars>>
  /\ UNCHANGED <<pwVars, pwAge, sinceWrite, setup, tryVars>>

IrqOff ==
  /\ Goto("irqOff", "nak")
  /\ irq' = FALSE
  /\ UNCHANGED <<dev, xfer, volVars, card, host>> /\ Keeps
  /\ UNCHANGED <<pwVars, clocks, setup, tryVars>>

Nak ==
  /\ Goto("nak", "idle1")
  /\ rxSaved' = dev.rx
  /\ dev' = [dev EXCEPT !.rx = "NAK"]
  /\ UNCHANGED <<xfer, irq, volVars, card, host>> /\ Keeps
  /\ UNCHANGED <<pwVars, clocks, setup, path, timedOut, deleted, derived>>

\* bot_usb_is_idle, control requests included.
MutUsbIdle_FlagsOnly == MutIdle_FlagsOnly /\ ~setup
UsbIdle == UsbIsIdle /\ ~setup

Idle1 ==
  /\ Goto("idle1", IF UsbIdle THEN "find" ELSE "resume")
  /\ UNCHANGED <<dev, xfer, irq, volVars, card, host>> /\ Keeps
  /\ UNCHANGED <<pwVars, clocks, setup, tryVars>>

\* The file is there: its directory entry was written, and the sector the
\* password was typed into still holds the scrubbed line.
FileListed == card[DIR].val = "dir" /\ card[pwLba].val = "scrubbed"

\* unlock_file_mount and unlock_file_find; a card access may fail.
Find ==
  /\ Goto("find", "timeout")
  /\ path' \in {FALSE, FileListed}
  /\ UNCHANGED <<dev, xfer, irq, volVars, card, host>> /\ Keeps
  /\ UNCHANGED <<pwVars, clocks, setup, rxSaved, timedOut, deleted, derived>>

MutTimeout_PathOnly ==
  /\ Goto("timeout", IF path THEN "idle2" ELSE "resume")
  /\ timedOut' = TimeoutReached
  /\ UNCHANGED <<dev, xfer, irq, volVars, card, host>> /\ Keeps
  /\ UNCHANGED <<pwVars, clocks, setup, rxSaved, path, deleted, derived>>
Timeout ==
  /\ Goto("timeout", IF path \/ TimeoutReached THEN "idle2" ELSE "resume")
  /\ timedOut' = TimeoutReached
  /\ UNCHANGED <<dev, xfer, irq, volVars, card, host>> /\ Keeps
  /\ UNCHANGED <<pwVars, clocks, setup, rxSaved, path, deleted, derived>>

Idle2 ==
  /\ Goto("idle2", IF UsbIdle THEN "detach" ELSE "resume")
  /\ UNCHANGED <<dev, xfer, irq, volVars, card, host>> /\ Keeps
  /\ UNCHANGED <<pwVars, clocks, setup, tryVars>>

\* USB20_Device_Init(DISABLE): whatever the host was doing is gone.
Detach ==
  /\ Goto("detach", IF path THEN "delete" ELSE "decide")
  /\ host' = "gone" /\ cmd' = NoCmd
  /\ xfer' = "none" /\ setup' = FALSE
  /\ dev' = [dev EXCEPT !.tx = "NAK", !.rx = "NAK"]
  /\ deleted' = FALSE
  /\ UNCHANGED <<rxbuf, irq, reg, volVars, card, sent, recv, seen, tag>>
  /\ UNCHANGED <<pwVars, clocks, rxSaved, path, timedOut, derived>>

\* unlock_file_delete: blank the file, then unlink it.
Blanked(S) == [p \in DOMAIN card |-> IF p \in S THEN [card[p] EXCEPT !.val = "zero"] ELSE card[p]]

Delete ==
  /\ Goto("delete", "decide")
  /\ \/ card' = Blanked({pwLba, DIR}) /\ deleted' = TRUE
     \/ \E S \in {{}, {pwLba}} : card' = Blanked(S) /\ deleted' = FALSE
  /\ UNCHANGED <<dev, xfer, irq, volVars, host>> /\ Keeps
  /\ UNCHANGED <<pwVars, clocks, setup, rxSaved, path, timedOut, derived>>

MutDecide_Always ==
  /\ Goto("decide", "derive")
  /\ UNCHANGED <<dev, xfer, irq, volVars, card, host>> /\ Keeps
  /\ UNCHANGED <<pwVars, clocks, setup, tryVars>>
Decide ==
  /\ Goto("decide", IF deleted \/ timedOut THEN "derive" ELSE "attach")
  /\ UNCHANGED <<dev, xfer, irq, volVars, card, host>> /\ Keeps
  /\ UNCHANGED <<pwVars, clocks, setup, tryVars>>

\* Nobody sees the statements from phantomdrive_crypto_unlock to the clearing
\* of the transfer flags one by one: the host is detached, the interrupt off.
MutDerive_StillPending ==
  /\ Goto("derive", "attach")
  /\ derived' = derived + 1
  /\ pwLen' = "zero"
  /\ capacity' = HiddenSize
  /\ dev' = [dev EXCEPT !.flags = {}, !.rd = FALSE, !.wr = FALSE]
  /\ UNCHANGED <<xfer, irq, pstate, card, host>> /\ Keeps
  /\ UNCHANGED <<pwLba, clocks, setup, rxSaved, path, timedOut, deleted>>
MutDerive_KeepPassword ==
  /\ Goto("derive", "attach")
  /\ derived' = derived + 1
  /\ capacity' = HiddenSize
  /\ dev' = [dev EXCEPT !.flags = {}, !.rd = FALSE, !.wr = FALSE]
  /\ UNCHANGED <<xfer, irq, pstate, card, host>> /\ Keeps
  /\ UNCHANGED <<pwVars, clocks, setup, rxSaved, path, timedOut, deleted>>
Derive ==
  /\ Goto("derive", "attach")
  /\ derived' = derived + 1
  /\ pwLen' = "zero"
  /\ capacity' = HiddenSize
  /\ pstate' = "UNLOCKED"
  /\ dev' = [dev EXCEPT !.flags = {}, !.rd = FALSE, !.wr = FALSE]
  /\ UNCHANGED <<xfer, irq, card, host>> /\ Keeps
  /\ UNCHANGED <<pwLba, clocks, setup, rxSaved, path, timedOut, deleted>>

\* The local variables are gone.
Returns ==
  /\ rxSaved' = "ACK" /\ path' = FALSE /\ timedOut' = FALSE /\ deleted' = FALSE
  /\ UNCHANGED derived

\* PFIC_EnableIRQ, USB20_Device_Init(ENABLE).
Attach ==
  /\ Goto("attach", "poll")
  /\ irq' = TRUE
  /\ host' = "idle"
  /\ dev' = [dev EXCEPT !.rx = "ACK"]
  /\ Returns
  /\ UNCHANGED <<xfer, volVars, card>> /\ Keeps
  /\ UNCHANGED <<pwVars, clocks, setup>>

\* The labels unmount and resume_usb.
MutResume_RxLeftNak ==
  /\ Goto("resume", "poll")
  /\ irq' = TRUE
  /\ Returns
  /\ UNCHANGED <<dev, xfer, volVars, card, host>> /\ Keeps
  /\ UNCHANGED <<pwVars, clocks, setup>>
Resume ==
  /\ Goto("resume", "poll")
  /\ irq' = TRUE
  /\ dev' = [dev EXCEPT !.rx = rxSaved]
  /\ Returns
  /\ UNCHANGED <<xfer, volVars, card, host>> /\ Keeps
  /\ UNCHANGED <<pwVars, clocks, setup>>

TryUnlock == \/ IrqOff \/ Nak \/ Idle1 \/ Find \/ Timeout \/ Idle2 \/ Detach
             \/ Delete \/ Decide \/ Derive \/ Attach \/ Resume

UMain == OtherTransfer \/ Reading \/ Writing \/ RearmWrite \/ PollUnlock \/ TryUnlock

UNext == IsrTransfer \/ IsrSetup \/ HostStarts \/ HostContinues \/ SetupArrives \/ Tick \/ UMain

(* Time passes and the main loop runs.  An interrupt that is pending when   *)
(* the main loop enables it preempts the loop, and the host repeats a      *)
(* packet that was answered NAK, so both are strongly fair: the main loop  *)
(* closes both doors for a moment in every try.  Nothing obliges the host  *)
(* to send commands or control requests, nor to stop.                      *)
UFairness == /\ WF_allVars(UMain) /\ WF_allVars(Tick)
             /\ SF_allVars(IsrTransfer) /\ SF_allVars(IsrSetup)
             /\ SF_allVars(HostContinues)

USpec == UInit /\ [][UNext]_allVars /\ UFairness

----------------------------------------------------------------------------
(* Type invariant of the variables this module adds.                       *)
UTypeOK ==
  /\ pwLen \in {"zero", "some"} /\ pwLba \in 0 .. LOCKED - 1
  /\ pwAge \in 0 .. TIMEOUT /\ sinceWrite \in 0 .. 1 /\ sinceCheck \in 0 .. 1
  /\ setup \in BOOLEAN /\ path \in BOOLEAN /\ timedOut \in BOOLEAN /\ deleted \in BOOLEAN
  /\ rxSaved \in {"ACK", "NAK", "STALL"}
  /\ derived \in 0 .. 1

(* bot.c:424: the host is never cut off in the middle of a command, though *)
(* the check and the detach are apart and the host does not wait.          *)
DetachBetweenCommands == [][host' = "gone" /\ host # "gone" => cmd = NoCmd]_allVars

(* Every way out of phantomdrive_try_unlock leaves the interrupt on, the   *)
(* host attached and the endpoint listening: a NAK left behind would mute  *)
(* the drive for good.                                                     *)
UsbGivenBack ==
  pc \in {"poll", "pollWrite", "pollUnlock"} =>
    /\ irq /\ host # "gone"
    /\ dev.rx = "NAK" => dev.wr

(* phantomdrive_crypto_unlock increments the salt in place, so a second    *)
(* call would derive other keys; and nothing but a derivation unlocks.     *)
KeysDerivedOnce == derived <= 1 /\ (pstate = "UNLOCKED" <=> derived = 1)

(* Before the timeout the volumes are switched only when the file the      *)
(* password was typed into is off the medium.                              *)
FileGoneOrTimeout ==
  [][pstate' = "UNLOCKED" /\ pstate # "UNLOCKED" => timedOut \/ ~FileListed]_allVars

(* A snooped password ends in an unlocked drive, or is forgotten for an    *)
(* empty one, once the host leaves the drive alone: a file that is never   *)
(* found, a card that fails and an unlink that fails do not prevent it.    *)
PendingUnlocks ==
  <>[](host \in {"idle", "gone"} /\ ~setup) =>
    ((pstate = "PENDING" /\ pwLen = "some") ~> (pstate = "UNLOCKED" \/ pwLen = "zero"))

(* readme.md: "FatFs deletes the matching file before unlocking".          *)
DeletedBeforeUnlock ==
  [][pstate' = "UNLOCKED" /\ pstate # "UNLOCKED" => deleted]_allVars
=============================================================================
