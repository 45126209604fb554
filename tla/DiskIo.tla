------------------------------- MODULE DiskIo -------------------------------
(***************************************************************************)
(* unlock_file_diskio.c: what FatFs reads and writes the card through.     *)
(* A call moves one sector (FatFs never asks for more here) or waits for   *)
(* the card (CTRL_SYNC); each pass of a polling loop is a step.  Time is   *)
(* counted in ticks much longer than anything the processor does, so it    *)
(* passes only while the processor polls, and the processor polls at least *)
(* once in every tick.                                                     *)
(***************************************************************************)
EXTENDS SdInit

CONSTANTS FILE_IO_TIMEOUT, FORMAT_TIMEOUT     \* time limits, in ticks

ASSUME TimeoutAssumption ==
  /\ FILE_IO_TIMEOUT \in Nat \ {0} /\ FORMAT_TIMEOUT \in Nat
  /\ FORMAT_TIMEOUT >= FILE_IO_TIMEOUT

VARIABLES
  iopc,          \* the loop the call is in, "idle" outside disk calls
  op,            \* what the call is for: "read", "write" or "sync"
  result,        \* what the last call returned: "ok", "error" or "notrdy"
  initialized, formatting,
  ioAge,         \* ticks since io_started_ticks ...
  transferAge,   \* ... and since transfer_started_ticks
  callAge,       \* history: ticks since the call began
  polled         \* the processor has polled in this tick

diskVars == <<iopc, op, result, initialized, formatting, ioAge, transferAge, callAge, polled>>

Loops == {"ready", "command", "data", "programming", "sync"}

DiskTypeOK ==
  /\ iopc \in Loops \cup {"idle"} /\ op \in {"read", "write", "sync"}
  /\ result \in {"ok", "error", "notrdy"}
  /\ initialized \in BOOLEAN /\ formatting \in BOOLEAN /\ polled \in BOOLEAN
  /\ {ioAge, transferAge, callAge} \subseteq 0 .. FORMAT_TIMEOUT

DiskOff ==
  /\ iopc = "idle" /\ op = "sync" /\ result = "ok"
  /\ initialized = FALSE /\ formatting = FALSE
  /\ ioAge = 0 /\ transferAge = 0 /\ callAge = 0 /\ polled = FALSE

\* disk_status after phantomdrive_init and before the volume is unlocked
NotInitialized == ~initialized \/ capacity # "large"

OperationTimeout == IF formatting THEN FORMAT_TIMEOUT ELSE FILE_IO_TIMEOUT

MutFailed_TransferLimitOnly ==
  "ERR" \in flags \/ transferAge >= FILE_IO_TIMEOUT
IoFailed ==
  \/ "ERR" \in flags
  \/ transferAge >= FILE_IO_TIMEOUT
  \/ ioAge >= OperationTimeout

----------------------------------------------------------------------------
(* Calls of FatFs.  StartTransfer is disk_read and disk_write from their   *)
(* checks to the first loop of transfer_sector.                            *)
MutTransfer_OldStart(o) ==
  /\ op' = o /\ callAge' = 0 /\ polled' = FALSE
  /\ IF NotInitialized
       THEN result' = "notrdy" /\ UNCHANGED <<iopc, transferAge, irq, flags>>
       ELSE /\ iopc' = "ready"
            /\ irq' = FALSE /\ flags' = {}
            /\ UNCHANGED <<result, transferAge>>
  /\ UNCHANGED <<initialized, formatting, ioAge, dma, bus, dat0low>>
StartTransfer(o) ==
  /\ op' = o /\ callAge' = 0 /\ polled' = FALSE
  /\ IF NotInitialized
       THEN result' = "notrdy" /\ UNCHANGED <<iopc, transferAge, irq, flags>>
       ELSE /\ iopc' = "ready"
            /\ transferAge' = 0
            /\ irq' = FALSE /\ flags' = {}
            /\ UNCHANGED result
  /\ UNCHANGED <<initialized, formatting, ioAge, dma, bus, dat0low>>

StartSync ==
  /\ op' = "sync" /\ callAge' = 0 /\ polled' = FALSE
  /\ IF NotInitialized
       THEN result' = "notrdy" /\ UNCHANGED <<iopc, transferAge, irq>>
       ELSE /\ iopc' = "sync"
            /\ transferAge' = 0
            /\ irq' = FALSE
            /\ UNCHANGED result
  /\ UNCHANGED <<initialized, formatting, ioAge, flags, dma, bus, dat0low>>

\* disk_initialize followed by the first transfer
InitializeAnd(o) ==
  /\ initialized' = TRUE /\ ioAge' = 0
  /\ op' = o /\ callAge' = 0 /\ polled' = FALSE
  /\ IF capacity # "large"
       THEN result' = "notrdy" /\ UNCHANGED <<iopc, transferAge, irq, flags>>
       ELSE /\ iopc' = "ready"
            /\ transferAge' = 0
            /\ irq' = FALSE /\ flags' = {}
            /\ UNCHANGED result
  /\ UNCHANGED <<formatting, dma, bus, dat0low>>

----------------------------------------------------------------------------
(* The loops.                                                              *)
MutFinish_NoReset(success) ==
  /\ iopc' = "idle"
  /\ result' = IF success THEN "ok" ELSE "error"
  /\ initialized' = (initialized /\ success)
  /\ UNCHANGED <<dma, bus>>
  /\ flags' = {}
  /\ irq' = TRUE
  /\ UNCHANGED <<op, formatting, ioAge, transferAge, callAge, polled, dat0low>>
FinishIo(success) ==
  /\ iopc' = "idle"
  /\ result' = IF success THEN "ok" ELSE "error"
  /\ IF success THEN UNCHANGED <<dma, bus, initialized>>
                ELSE dma' = FALSE /\ bus' = "none" /\ initialized' = FALSE
  /\ flags' = {}
  /\ irq' = TRUE
  /\ UNCHANGED <<op, formatting, ioAge, transferAge, callAge, polled, dat0low>>

\* One more pass, for nothing.
Poll == ~polled /\ polled' = TRUE /\ UNCHANGED emmcVars
        /\ UNCHANGED <<iopc, op, result, initialized, formatting, ioAge, transferAge, callAge>>

GoOn(next) ==
  /\ iopc' = next /\ polled' = TRUE
  /\ UNCHANGED <<op, result, initialized, formatting, ioAge, transferAge, callAge>>

SendCommand ==
  /\ bus' = IF op = "read" THEN "readCommand" ELSE "writeCommand"
  /\ dma' = (op = "read")
  /\ UNCHANGED <<flags, irq, dat0low>>

MutReady_NoLimit ==
  /\ iopc = "ready"
  /\ CASE ~dat0low -> GoOn("command") /\ SendCommand
       [] OTHER    -> Poll
WaitForReady ==
  /\ iopc = "ready"
  /\ CASE IoFailed -> FinishIo(FALSE)
       [] ~IoFailed /\ ~dat0low -> GoOn("command") /\ SendCommand
       [] OTHER -> Poll

\* A write hands over its block once the card has answered.
WaitForCommand ==
  /\ iopc = "command"
  /\ CASE IoFailed -> FinishIo(FALSE)
       [] ~IoFailed /\ "CMDDONE" \in flags ->
            /\ GoOn("data")
            /\ flags' = flags \ {"CMDDONE"}
            /\ dma' = (dma \/ op = "write")
            /\ UNCHANGED <<irq, bus, dat0low>>
       [] OTHER -> Poll

WaitForData ==
  /\ iopc = "data"
  /\ CASE IoFailed -> FinishIo(FALSE)
       [] ~IoFailed /\ "TRANDONE" \in flags ->
            /\ GoOn("programming")
            /\ flags' = flags \ {"TRANDONE"}
            /\ UNCHANGED <<irq, dma, bus, dat0low>>
       [] OTHER -> Poll

WaitForCard ==
  /\ iopc \in {"programming", "sync"}
  /\ CASE IoFailed -> FinishIo(FALSE)
       [] ~IoFailed /\ ~dat0low -> FinishIo(TRUE)
       [] OTHER -> Poll

DiskStep == WaitForReady \/ WaitForCommand \/ WaitForData \/ WaitForCard

Older(age) == IF age = FORMAT_TIMEOUT THEN age ELSE age + 1

Tick ==
  /\ iopc \in Loops /\ polled
  /\ polled' = FALSE
  /\ ioAge' = Older(ioAge) /\ transferAge' = Older(transferAge) /\ callAge' = Older(callAge)
  /\ UNCHANGED <<iopc, op, result, initialized, formatting, emmcVars>>

----------------------------------------------------------------------------
(* A call fails only if the card reported an error, kept this call waiting *)
(* for the whole of FILE_IO_TIMEOUT, or the operation it is part of ran    *)
(* out of time: never because of what an earlier call left behind.         *)
Failure == iopc # "idle" /\ iopc' = "idle" /\ result' = "error"
NoFalseFailure ==
  [][ Failure => \/ "ERR" \in flags
                 \/ callAge >= FILE_IO_TIMEOUT
                 \/ ioAge >= OperationTimeout ]_<<iopc, result>>
=============================================================================
