----------------------------- MODULE BootProofs -----------------------------
(***************************************************************************)
(* Proofs about Boot for an MBR of any number of entries, volumes of any   *)
(* size and any time limits: what start-up and an unlock attempt do to the *)
(* card, what they leave the eMMC controller in, and how long they take.   *)
(*                                                                         *)
(* Three things make the properties inductive: a disk call under way knows *)
(* what it does on the bus; what FatFs believes of the medium is true as   *)
(* long as the disk is initialized; and the time an operation took since   *)
(* disk_initialize is what io_started_ticks says.                          *)
(*                                                                         *)
(* The last part bounds the number of steps, by what each of them takes    *)
(* from what is left to do.                                                *)
(***************************************************************************)
EXTENDS Boot, TLAPS

Commands == {"readCommand", "writeCommand"}
AtRest == flags = {} /\ bus = "none" /\ ~dma

\* Where FatFs waits for a disk call.
CallPcs == {"bootSector", "partition", "fsInfo", "vbr", "info", "fat", "sync",
            "found", "deleted"}

Calls ==
  /\ pc # "main" => sdpc = "ok"
  /\ iopc # "idle" => pc \in CallPcs
  /\ irq <=> pc # "main" /\ iopc = "idle"

\* The controller, by where the call or the initialisation is.
Bus ==
  /\ "TRANDONE" \in flags => bus = "none" /\ ~dma
  /\ "CMDDONE" \in flags => bus \notin Commands
  /\ iopc \in {"idle", "ready", "sync"} /\ sdpc \notin DataPcs => AtRest
  /\ iopc = "command" /\ op # "read" => ~dma /\ "TRANDONE" \notin flags
  /\ iopc = "data" => bus \notin Commands
  /\ iopc = "programming" => bus = "none" /\ ~dma
  /\ sdpc \in DataPcs => bus \in {"none", "read"}

\* The card, by how far SD_do_init got.
Width ==
  /\ sdpc \in DataPcs \cup {"acmd51", "check", "switch", "clock", "ok"}
       => hostWide = wide
  /\ sdpc \in {"scrData", "check", "checkData", "switch", "switchData", "clock", "ok"} => card = "tran"
  /\ sdpc \in DataPcs /\ bus = "read" => card = "tran"
  /\ sdpc \notin DataPcs \cup {"ok"} => bus = "none"

\* disk_status and what the last call returned.
Results ==
  /\ pc = "main" => ~initialized /\ result = "ok"
  /\ iopc # "idle" => ~NotInitialized
  /\ iopc = "idle" /\ result # "ok" => NotInitialized
  /\ pc \in CallPcs /\ iopc = "idle" /\ result = "ok" => ~NotInitialized

\* What FatFs found so far.
NoneBefore(i) == sector0 = "MBR" /\ \A j \in 1 .. i - 1 : parts[j] \notin BootKinds
Believed ==
  /\ pc \in {"bootSector", "entry", "partition", "fsInfo"} => fsType = "none"
  /\ pc = "bootSector" => entry = 1
  /\ pc \in {"entry", "partition"} /\ ~NotInitialized => NoneBefore(entry)
  /\ pc = "partition" => entry <= PARTS /\ parts[entry] \notin {"none", "beyond"}
  /\ pc = "mounted" /\ MayFormat => ~IsDecoy(sector0, parts)
  /\ pc \in {"mkfs", "vbr"} => ~IsDecoy(sector0, parts)
  /\ pc = "mkfs" => ~NotInitialized
  /\ pc \in {"info", "fat"} => sector0 = "torn"
  /\ pc \in {"sync", "formatted", "again"} => sector0 = "FAT32"

\* The mounts of start-up, and what they may report.
MountPcs == {"bootSector", "entry", "partition", "fsInfo", "mounted"}
FormatPcs == {"mkfs", "vbr", "info", "fat", "sync", "formatted", "formatFailed"}
Whole == IsDecoy(sector0, parts) \/ (sector0 = "torn" /\ ~formatted)
Reported ==
  /\ ready => Whole
  /\ pc \in FormatPcs \cup {"main", "init", "again"} => ~ready
  /\ pc \in MountPcs /\ caller \in {"init", "formatted"} => ~ready
  /\ pc \in MountPcs \cup {"main", "init"} /\ caller = "init" => ~formatted
  /\ pc \in {"main", "init"} => caller = "init"
  /\ pc \in MountPcs /\ caller = "formatted" => sector0 = "FAT32"
  /\ pc = "fsInfo" /\ caller \in {"init", "formatted"} => Whole
  /\ pc = "mounted" /\ caller \in {"init", "formatted"} /\ fsType = "FAT32" => Whole

\* Who runs, and under which time limit.
Modes ==
  /\ formatting <=> pc \in FormatPcs
  /\ pc \in FormatPcs \cup {"again"} => caller = "init"
  /\ pc \in {"open", "find", "found", "delete", "deleteOn", "deleted"}
       => caller \in {"attempt", "open"}
  /\ pc = "open" => caller = "attempt"
  /\ pc = "deleteOn" => left > 0

Limits ==
  /\ iopc # "idle" => transferAge = callAge /\ (polled => ioAge < OperationTimeout)
  /\ pc \notin {"again", "unmount", "usb"} => ioAge <= OperationTimeout

\* Time, by the operation it is spent in.
Spent ==
  /\ pc \in MountPcs /\ caller = "init" => spent <= ioAge
  /\ pc = "mkfs" => spent <= FILE_IO_TIMEOUT
  /\ pc \in {"vbr", "info", "fat", "sync"} => spent <= FILE_IO_TIMEOUT + ioAge
  /\ pc \in {"formatted", "formatFailed", "again"} => spent <= FILE_IO_TIMEOUT + FORMAT_TIMEOUT
  /\ pc \in MountPcs /\ caller = "formatted" => spent <= FILE_IO_TIMEOUT + FORMAT_TIMEOUT + ioAge
  /\ pc \in MountPcs \cup {"open", "find", "found"} /\ caller = "attempt" => spent <= ioAge
  /\ pc \in MountPcs \cup {"find", "found"} /\ caller = "open" => spent <= FILE_IO_TIMEOUT + ioAge
  /\ pc = "delete" => spent <= 2 * FILE_IO_TIMEOUT
  /\ pc \in {"deleteOn", "deleted"} => spent <= 2 * FILE_IO_TIMEOUT + ioAge

Ages ==
  /\ ioAge \in 0 .. FORMAT_TIMEOUT /\ transferAge \in 0 .. FORMAT_TIMEOUT
  /\ callAge \in 0 .. FORMAT_TIMEOUT

DiskTypes ==
  /\ iopc \in Loops \cup {"idle"} /\ op \in {"read", "write", "sync"}
  /\ result \in {"ok", "error", "notrdy"}
  /\ initialized \in BOOLEAN /\ formatting \in BOOLEAN /\ polled \in BOOLEAN

FsTypes ==
  /\ pc \in {"main", "init", "mkfs", "formatted", "formatFailed", "again", "unmount", "usb",
             "open", "find", "delete", "deleteOn", "entry", "mounted"} \cup CallPcs
  /\ caller \in {"init", "formatted", "attempt", "open"}
  /\ fmt \in {0, 3, 4} /\ fsType \in FatKinds \cup {"none"}
  /\ entry \in 1 .. PARTS + 1 /\ left \in 0 .. WRITES
  /\ ready \in BOOLEAN /\ formatted \in BOOLEAN /\ spent \in 0 .. MaxSpent

MediumTypes == sector0 \in SectorKinds /\ parts \in [1 .. PARTS -> PartKinds]

(* The inductive invariant: what the disk calls keep, and what FatFs and   *)
(* its callers keep.                                                       *)
DiskSide == EmmcTypeOK /\ SdTypeOK /\ DiskTypes /\ Calls /\ Bus /\ Width /\ Results
FsSide == Ages /\ FsTypes /\ MediumTypes /\ Believed /\ Reported
          /\ Modes /\ Limits /\ Spent /\ InTime
IInv == DiskSide /\ FsSide

----------------------------------------------------------------------------
USE PartsAssumption, WritesAssumption, TimeoutAssumption, OcrTriesAssumption

LEMMA InitIInv == Init => IInv
<1> SUFFICES ASSUME Init PROVE IInv
  OBVIOUS
<1> USE DEF Init, SdOff, EmmcOff, DiskOff, FsOff
<1>1. EmmcTypeOK /\ DiskTypes
  BY DEF EmmcTypeOK, Flags, DiskTypes, Loops
<1>2. SdTypeOK
  <2>1. tries \in 0 .. CASE sdpc = "cmd8" -> CMD8_TRIES - 1
                         [] sdpc = "acmd41" -> OCR_TRIES - 1
                         [] OTHER -> CMD8_TRIES + OCR_TRIES
    BY DEF CMD8_TRIES
  <2> QED
    BY <2>1, Zenon DEF SdTypeOK
<1>3. Calls /\ Bus /\ Width
  BY DEF Calls, CallPcs, Bus, AtRest, Commands, Width, DataPcs
<1>4. Results
  BY DEF Results, CallPcs
<1>5. Ages /\ FsTypes
  <2>1. 0 \in 0 .. FORMAT_TIMEOUT /\ 0 \in 0 .. MaxSpent /\ 0 \in 0 .. WRITES /\ 1 \in 1 .. PARTS + 1
    BY DEF MaxSpent
  <2> QED
    BY <2>1 DEF Ages, FsTypes
<1>6. MediumTypes
  BY DEF MediumTypes, PartKinds
<1>7. Believed /\ Reported
  BY DEF Believed, Reported, MountPcs, FormatPcs
<1>8. Modes /\ Limits /\ Spent /\ InTime
  BY DEF Modes, Limits, Spent, MountPcs, FormatPcs, OperationTimeout, InTime
<1> QED
  BY <1>1, <1>2, <1>3, <1>4, <1>5, <1>6, <1>7, <1>8 DEF IInv, DiskSide, FsSide

----------------------------------------------------------------------------
(* FatFs begins a disk call, or goes on without one.                       *)
LEMMA CallBegins ==
  ASSUME DiskSide, At(pc), pc # "main", pc' \in CallPcs, formatting' \in BOOLEAN,
         \/ \E o \in {"read", "write"} : StartTransfer(o)
         \/ StartSync
         \/ capacity = "large" /\ \E o \in {"read", "write"} : InitializeAnd(o)
  PROVE  DiskSide'
<1>1. /\ UNCHANGED <<sdpc, tries, card, wide, fast, hostWide, fastClock, capacity>>
      /\ UNCHANGED <<dma, bus, dat0low>> /\ iopc = "idle" /\ sdpc = "ok" /\ irq /\ pc' # "main"
  BY DEF At, sdVars, StartTransfer, StartSync, InitializeAnd, DiskSide, Calls, CallPcs
<1>2. AtRest /\ AtRest'
  BY <1>1 DEF DiskSide, Bus, AtRest, DataPcs, StartTransfer, StartSync, InitializeAnd
<1>3. /\ op' \in {"read", "write", "sync"} /\ initialized' \in BOOLEAN /\ polled' = FALSE
      /\ \/ /\ iopc' \in {"ready", "sync"} /\ ~irq' /\ ~NotInitialized' /\ result' = result
         \/ /\ iopc' = "idle" /\ irq' /\ NotInitialized' /\ result' = "notrdy"
  <2>1. initialized \in BOOLEAN /\ irq = TRUE
    BY <1>1 DEF DiskSide, DiskTypes, EmmcTypeOK
  <2>2. CASE \E o \in {"read", "write"} : StartTransfer(o)
    <3>1. PICK o \in {"read", "write"} : StartTransfer(o)
      BY <2>2
    <3>2. op' = o /\ polled' = FALSE /\ initialized' = initialized /\ (NotInitialized' <=> NotInitialized)
      BY <1>1, <3>1 DEF StartTransfer, NotInitialized
    <3> QED
      BY <1>1, <2>1, <3>1, <3>2 DEF StartTransfer
  <2>3. CASE StartSync
    BY <1>1, <2>1, <2>3 DEF StartSync, NotInitialized
  <2>4. CASE capacity = "large" /\ \E o \in {"read", "write"} : InitializeAnd(o)
    BY <1>1, <2>1, <2>4 DEF InitializeAnd, NotInitialized
  <2> QED
    BY <2>2, <2>3, <2>4
<1>4. EmmcTypeOK' /\ DiskTypes'
  BY <1>1, <1>2, <1>3 DEF DiskSide, EmmcTypeOK, DiskTypes, Loops, AtRest,
     StartTransfer, StartSync, InitializeAnd
<1>5. SdTypeOK' /\ Width'
  BY <1>1 DEF DiskSide, SdTypeOK, Width
<1>6. Calls'
  BY <1>1, <1>3 DEF Calls
<1>7. Bus'
  BY <1>1, <1>2, <1>3 DEF Bus, AtRest, DataPcs
<1>8. Results'
  BY <1>1, <1>3 DEF Results
<1> QED
  BY <1>4, <1>5, <1>6, <1>7, <1>8 DEF DiskSide

LEMMA NoCall ==
  ASSUME DiskSide, At(pc), pc # "main", pc' \notin CallPcs \cup {"main"},
         UNCHANGED emmcVars, formatting' \in BOOLEAN,
         \/ UNCHANGED <<iopc, op, result, initialized, polled>>
         \/ capacity # "large" /\ \E o \in {"read", "write"} : InitializeAnd(o)
  PROVE  DiskSide'
<1>1. /\ UNCHANGED <<sdpc, tries, card, wide, fast, hostWide, fastClock, capacity>>
      /\ UNCHANGED <<flags, irq, dma, bus, dat0low, iopc>> /\ iopc = "idle"
  BY DEF At, sdVars, emmcVars, InitializeAnd
<1>2. /\ DiskTypes'
      /\ UNCHANGED <<result, initialized>> \/ (NotInitialized' /\ result' = "notrdy")
  BY <1>1 DEF DiskSide, DiskTypes, InitializeAnd, NotInitialized
<1>3. EmmcTypeOK' /\ SdTypeOK' /\ Width'
  BY <1>1 DEF DiskSide, EmmcTypeOK, SdTypeOK, Width
<1>4. Calls' /\ Bus'
  BY <1>1 DEF DiskSide, Calls, Bus, AtRest
<1>5. Results'
  BY <1>1, <1>2 DEF DiskSide, Results, NotInitialized
<1> QED
  BY <1>2, <1>3, <1>4, <1>5 DEF DiskSide

\* What a call's beginning does to the clocks and the disk's status.
LEMMA CallFacts ==
  ASSUME Ages, iopc = "idle",
         (\E o \in {"read", "write"} : StartTransfer(o)) \/ StartSync
  PROVE  /\ UNCHANGED <<formatting, ioAge, initialized>> /\ Ages'
         /\ iopc' # "idle" => transferAge' = callAge' /\ ~polled'
<1>1. CASE \E o \in {"read", "write"} : StartTransfer(o)
  BY <1>1 DEF StartTransfer, Ages
<1>2. CASE StartSync
  BY <1>2 DEF StartSync, Ages
<1> QED
  BY <1>1, <1>2

LEMMA InitializeFacts ==
  ASSUME Ages, iopc = "idle", NEW o, InitializeAnd(o)
  PROVE  /\ formatting' = formatting /\ ioAge' = 0 /\ Ages'
         /\ iopc' # "idle" => transferAge' = callAge' /\ ~polled'
  BY DEF InitializeAnd, Ages

----------------------------------------------------------------------------
(* f_mount, for each of its callers.                                       *)
LEMMA MountDiskSide ==
  ASSUME DiskSide, At(pc), pc # "main", NEW who, Mount(who)
  PROVE  DiskSide'
<1>1. formatting' \in BOOLEAN
  BY DEF Mount, InitializeAnd, DiskSide, DiskTypes
<1>2. CASE capacity = "large"
  BY <1>1, <1>2, CallBegins DEF Mount, CallPcs
<1>3. CASE capacity # "large"
  <2>1. UNCHANGED emmcVars
    BY <1>3 DEF Mount, InitializeAnd, emmcVars
  <2> QED
    BY <1>1, <1>3, <2>1, NoCall DEF Mount, CallPcs
<1> QED
  BY <1>2, <1>3

LEMMA MountIInv ==
  ASSUME IInv, At(pc), NEW who, Mount(who), spent' \in {0, spent},
         \/ pc = "init" /\ who = "init" /\ spent' = 0
         \/ pc = "again" /\ who = "formatted"
         \/ pc = "usb" /\ who = "attempt" /\ spent' = 0
         \/ pc = "open" /\ who = "open"
  PROVE  IInv'
<1>1. /\ caller' = who /\ fsType' = "none" /\ entry' = 1 /\ pc # "main"
      /\ UNCHANGED <<left, ready, formatted, sector0, parts, capacity>>
      /\ \/ pc' = "bootSector" /\ fmt' = fmt
         \/ pc' = "mounted" /\ fmt' = 4
  BY DEF Mount, medium, At, sdVars
<1>2. DiskSide'
  BY <1>1, MountDiskSide DEF IInv
<1>3. /\ formatting' = formatting /\ ioAge' = 0 /\ Ages'
      /\ iopc' # "idle" => transferAge' = callAge' /\ ~polled'
  BY InitializeFacts DEF Mount, IInv, FsSide, At
<1>4. FsTypes'
  <2>1. /\ pc' \in CallPcs \cup {"mounted"} /\ fmt' \in {0, 3, 4} /\ fsType' = "none"
        /\ caller' \in {"init", "formatted", "attempt", "open"}
    BY <1>1 DEF IInv, FsSide, FsTypes, CallPcs
  <2>2. entry' \in 1 .. PARTS + 1
    BY <1>1
  <2>3. spent' \in 0 .. MaxSpent
    <3>1. 0 \in 0 .. MaxSpent
      BY DEF MaxSpent
    <3> QED
      BY <3>1 DEF IInv, FsSide, FsTypes
  <2> QED
    BY <1>1, <2>1, <2>2, <2>3 DEF IInv, FsSide, FsTypes
<1>5. MediumTypes'
  BY <1>1 DEF IInv, FsSide, MediumTypes
<1>6. Believed'
  BY <1>1 DEF Believed, MayFormat, NoFat32, FatKinds
<1>7. Reported'
  BY <1>1 DEF IInv, FsSide, Believed, Reported, Whole, MountPcs, FormatPcs
<1>8. Modes'
  BY <1>1, <1>3 DEF IInv, FsSide, Modes, MountPcs, FormatPcs
<1>9. Limits'
  BY <1>1, <1>3 DEF Limits, OperationTimeout
<1>10. Spent' /\ InTime'
  <2>1. /\ who = "init" \/ who = "attempt" => spent' = 0
        /\ who = "formatted" => spent' <= FILE_IO_TIMEOUT + FORMAT_TIMEOUT
        /\ who = "open" => spent' <= FILE_IO_TIMEOUT
    BY DEF IInv, FsSide, FsTypes, Modes, FormatPcs, Limits, OperationTimeout, Spent, Ages, MaxSpent
  <2> QED
    BY <1>1, <1>3, <2>1 DEF Spent, InTime, MountPcs
<1> QED
  BY <1>2, <1>3, <1>4, <1>5, <1>6, <1>7, <1>8, <1>9, <1>10 DEF IInv, FsSide

----------------------------------------------------------------------------
(* The steps between disk calls.                                           *)

\* FSINFO read or not, it is a FAT32 volume.
LEMMA FsInfoIInv == IInv /\ FsInfo => IInv'
<1> SUFFICES ASSUME IInv, FsInfo PROVE IInv'
  OBVIOUS
<1>1. /\ pc = "fsInfo" /\ pc' = "mounted" /\ fsType' = "FAT32"
      /\ UNCHANGED <<caller, fmt, entry, left, ready, spent, formatted, sector0, parts, capacity>>
  BY DEF FsInfo, At, NoMount, medium, sdVars
<1>2. DiskSide'
  BY <1>1, NoCall DEF FsInfo, At, NoDisk, diskVars, emmcVars, IInv, DiskSide, DiskTypes, CallPcs
<1>3. /\ UNCHANGED <<formatting, ioAge>> /\ Ages'
      /\ iopc' # "idle" => transferAge' = callAge' /\ ~polled'
  BY <1>1 DEF FsInfo, At, NoDisk, diskVars, IInv, FsSide, Ages
<1>4. FsTypes'
  BY <1>1, <1>3 DEF IInv, FsSide, FsTypes, CallPcs, FatKinds
<1>5. MediumTypes'
  BY <1>1, <1>3 DEF IInv, FsSide, MediumTypes
<1>6. Believed'
  BY <1>1, <1>3 DEF IInv, FsSide, Believed, MayFormat, NoFat32
<1>7. Reported'
  BY <1>1, <1>3 DEF IInv, FsSide, Reported, Whole, MountPcs, FormatPcs
<1>8. Modes'
  BY <1>1, <1>3 DEF IInv, FsSide, Modes, FormatPcs
<1>9. Limits'
  BY <1>1, <1>3 DEF IInv, FsSide, Limits, OperationTimeout
<1>10. Spent'
  BY <1>1, <1>3 DEF IInv, FsSide, Spent, MountPcs
<1>11. InTime'
  BY <1>1, <1>3 DEF IInv, FsSide, InTime
<1> QED
  BY <1>2, <1>3, <1>4, <1>5, <1>6, <1>7, <1>8, <1>9, <1>10, <1>11 DEF IInv, FsSide

\* The mount after a format.
LEMMA MountedAgainIInv == IInv /\ MountedAgain => IInv'
<1> SUFFICES ASSUME IInv, MountedAgain PROVE IInv'
  OBVIOUS
<1>1. /\ pc = "mounted" /\ caller = "formatted" /\ pc' = "unmount" /\ ready' = (fsType = "FAT32")
      /\ UNCHANGED <<caller, fmt, fsType, entry, left, spent, formatted, sector0, parts, capacity>>
  BY DEF MountedAgain, At, NoMount, medium, sdVars
<1>2. DiskSide'
  BY <1>1, NoCall DEF MountedAgain, At, NoDisk, diskVars, emmcVars, IInv, DiskSide, DiskTypes, CallPcs
<1>3. /\ UNCHANGED <<formatting, ioAge>> /\ Ages'
      /\ iopc' # "idle" => transferAge' = callAge' /\ ~polled'
  BY <1>1 DEF MountedAgain, At, NoDisk, diskVars, IInv, FsSide, Ages
<1>4. FsTypes'
  BY <1>1, <1>3 DEF IInv, FsSide, FsTypes, CallPcs
<1>5. MediumTypes'
  BY <1>1, <1>3 DEF IInv, FsSide, MediumTypes
<1>6. Believed'
  BY <1>1, <1>3 DEF IInv, FsSide, Believed
<1>7. Reported'
  BY <1>1, <1>3 DEF IInv, FsSide, Reported, Whole, MountPcs, FormatPcs
<1>8. Modes'
  BY <1>1, <1>3 DEF IInv, FsSide, Modes, FormatPcs
<1>9. Limits'
  BY <1>1, <1>3 DEF IInv, FsSide, Limits, OperationTimeout
<1>10. Spent'
  BY <1>1, <1>3 DEF IInv, FsSide, Spent, MountPcs
<1>11. InTime'
  BY <1>1, <1>3 DEF IInv, FsSide, InTime, Spent, MountPcs, Limits, OperationTimeout, Modes, FormatPcs
<1> QED
  BY <1>2, <1>3, <1>4, <1>5, <1>6, <1>7, <1>8, <1>9, <1>10, <1>11 DEF IInv, FsSide

\* The volume is let go.
LEMMA UnmountIInv == IInv /\ Unmount => IInv'
<1> SUFFICES ASSUME IInv, Unmount PROVE IInv'
  OBVIOUS
<1>1. /\ pc = "unmount" /\ pc' = "usb" /\ fsType' = "none"
      /\ UNCHANGED <<caller, fmt, entry, left, ready, spent, formatted, sector0, parts, capacity>>
  BY DEF Unmount, At, NoMount, medium, sdVars
<1>2. DiskSide'
  BY <1>1, NoCall DEF Unmount, At, NoDisk, diskVars, emmcVars, IInv, DiskSide, DiskTypes, CallPcs
<1>3. /\ UNCHANGED <<formatting, ioAge>> /\ Ages'
      /\ iopc' # "idle" => transferAge' = callAge' /\ ~polled'
  BY <1>1 DEF Unmount, At, NoDisk, diskVars, IInv, FsSide, Ages
<1>4. FsTypes'
  BY <1>1, <1>3 DEF IInv, FsSide, FsTypes, CallPcs
<1>5. MediumTypes'
  BY <1>1, <1>3 DEF IInv, FsSide, MediumTypes
<1>6. Believed'
  BY <1>1, <1>3 DEF IInv, FsSide, Believed
<1>7. Reported'
  BY <1>1, <1>3 DEF IInv, FsSide, Reported, Whole, MountPcs, FormatPcs
<1>8. Modes'
  BY <1>1, <1>3 DEF IInv, FsSide, Modes, FormatPcs
<1>9. Limits'
  BY <1>1, <1>3 DEF IInv, FsSide, Limits, OperationTimeout
<1>10. Spent'
  BY <1>1, <1>3 DEF IInv, FsSide, Spent, MountPcs
<1>11. InTime'
  BY <1>1, <1>3 DEF IInv, FsSide, InTime
<1> QED
  BY <1>2, <1>3, <1>4, <1>5, <1>6, <1>7, <1>8, <1>9, <1>10, <1>11 DEF IInv, FsSide

\* An attempt goes on if there is a FAT32 volume.
LEMMA AttemptMountedIInv == IInv /\ AttemptMounted => IInv'
<1> SUFFICES ASSUME IInv, AttemptMounted PROVE IInv'
  OBVIOUS
<1>1. /\ pc = "mounted" /\ caller = "attempt" /\ pc' \in {"open", "unmount"}
      /\ UNCHANGED <<caller, fmt, fsType, entry, left, ready, spent, formatted, sector0, parts, capacity>>
  BY DEF AttemptMounted, At, NoMount, medium, sdVars
<1>2. DiskSide'
  BY <1>1, NoCall DEF AttemptMounted, At, NoDisk, diskVars, emmcVars, IInv, DiskSide, DiskTypes, CallPcs
<1>3. /\ UNCHANGED <<formatting, ioAge>> /\ Ages'
      /\ iopc' # "idle" => transferAge' = callAge' /\ ~polled'
  BY <1>1 DEF AttemptMounted, At, NoDisk, diskVars, IInv, FsSide, Ages
<1>4. FsTypes'
  BY <1>1, <1>3 DEF IInv, FsSide, FsTypes, CallPcs
<1>5. MediumTypes'
  BY <1>1, <1>3 DEF IInv, FsSide, MediumTypes
<1>6. Believed'
  BY <1>1, <1>3 DEF IInv, FsSide, Believed
<1>7. Reported'
  BY <1>1, <1>3 DEF IInv, FsSide, Reported, Whole, MountPcs, FormatPcs
<1>8. Modes'
  BY <1>1, <1>3 DEF IInv, FsSide, Modes, FormatPcs
<1>9. Limits'
  BY <1>1, <1>3 DEF IInv, FsSide, Limits, OperationTimeout
<1>10. Spent'
  BY <1>1, <1>3 DEF IInv, FsSide, Spent, MountPcs
<1>11. InTime'
  BY <1>1, <1>3 DEF IInv, FsSide, InTime, Spent, MountPcs, Limits, OperationTimeout, Modes, FormatPcs
<1> QED
  BY <1>2, <1>3, <1>4, <1>5, <1>6, <1>7, <1>8, <1>9, <1>10, <1>11 DEF IInv, FsSide

\* f_opendir mounted the volume again, or could not.
LEMMA DirMountedIInv == IInv /\ DirMounted => IInv'
<1> SUFFICES ASSUME IInv, DirMounted PROVE IInv'
  OBVIOUS
<1>1. /\ pc = "mounted" /\ caller = "open" /\ pc' \in {"find", "unmount"} /\ left' \in {left, WRITES}
      /\ UNCHANGED <<caller, fmt, fsType, entry, ready, spent, formatted, sector0, parts, capacity>>
  BY DEF DirMounted, At, NoMount, medium, sdVars
<1>2. DiskSide'
  BY <1>1, NoCall DEF DirMounted, At, NoDisk, diskVars, emmcVars, IInv, DiskSide, DiskTypes, CallPcs
<1>3. /\ UNCHANGED <<formatting, ioAge>> /\ Ages'
      /\ iopc' # "idle" => transferAge' = callAge' /\ ~polled'
  BY <1>1 DEF DirMounted, At, NoDisk, diskVars, IInv, FsSide, Ages
<1>4. FsTypes'
  BY <1>1, <1>3 DEF IInv, FsSide, FsTypes, CallPcs
<1>5. MediumTypes'
  BY <1>1, <1>3 DEF IInv, FsSide, MediumTypes
<1>6. Believed'
  BY <1>1, <1>3 DEF IInv, FsSide, Believed
<1>7. Reported'
  BY <1>1, <1>3 DEF IInv, FsSide, Reported, Whole, MountPcs, FormatPcs
<1>8. Modes'
  BY <1>1, <1>3 DEF IInv, FsSide, Modes, FormatPcs
<1>9. Limits'
  BY <1>1, <1>3 DEF IInv, FsSide, Limits, OperationTimeout
<1>10. Spent'
  BY <1>1, <1>3 DEF IInv, FsSide, Spent, MountPcs
<1>11. InTime'
  BY <1>1, <1>3 DEF IInv, FsSide, InTime, Spent, MountPcs, Limits, OperationTimeout, Modes, FormatPcs, FsTypes, CallPcs
<1> QED
  BY <1>2, <1>3, <1>4, <1>5, <1>6, <1>7, <1>8, <1>9, <1>10, <1>11 DEF IInv, FsSide

\* The format ends.
LEMMA SyncedIInv == IInv /\ Synced => IInv'
<1> SUFFICES ASSUME IInv, Synced PROVE IInv'
  OBVIOUS
<1>1. /\ pc = "sync" /\ pc' \in {"formatted", "formatFailed"}
      /\ UNCHANGED <<caller, fmt, fsType, entry, left, ready, spent, formatted, sector0, parts, capacity>>
  BY DEF Synced, At, NoMount, medium, sdVars
<1>2. DiskSide'
  BY <1>1, NoCall DEF Synced, At, NoDisk, diskVars, emmcVars, IInv, DiskSide, DiskTypes, CallPcs
<1>3. /\ UNCHANGED <<formatting, ioAge>> /\ Ages'
      /\ iopc' # "idle" => transferAge' = callAge' /\ ~polled'
  BY <1>1 DEF Synced, At, NoDisk, diskVars, IInv, FsSide, Ages
<1>4. FsTypes'
  BY <1>1, <1>3 DEF IInv, FsSide, FsTypes, CallPcs
<1>5. MediumTypes'
  BY <1>1, <1>3 DEF IInv, FsSide, MediumTypes
<1>6. Believed'
  BY <1>1, <1>3 DEF IInv, FsSide, Believed
<1>7. Reported'
  BY <1>1, <1>3 DEF IInv, FsSide, Reported, Whole, MountPcs, FormatPcs
<1>8. Modes'
  BY <1>1, <1>3 DEF IInv, FsSide, Modes, FormatPcs
<1>9. Limits'
  BY <1>1, <1>3 DEF IInv, FsSide, Limits, OperationTimeout
<1>10. Spent'
  BY <1>1, <1>3 DEF IInv, FsSide, Spent, MountPcs, Limits, OperationTimeout, Modes, FormatPcs, FsTypes, MaxSpent, Ages
<1>11. InTime'
  BY <1>1, <1>3 DEF IInv, FsSide, InTime
<1> QED
  BY <1>2, <1>3, <1>4, <1>5, <1>6, <1>7, <1>8, <1>9, <1>10, <1>11 DEF IInv, FsSide

\* A file is looked at, and the search goes on, or is over.
LEMMA FindEndsIInv == IInv /\ FindEnds => IInv'
<1> SUFFICES ASSUME IInv, FindEnds PROVE IInv'
  OBVIOUS
<1>1. /\ pc = "found" /\ pc' \in {"find", "delete", "unmount"}
      /\ UNCHANGED <<caller, fmt, fsType, entry, left, ready, spent, formatted, sector0, parts, capacity>>
  BY DEF FindEnds, At, NoMount, medium, sdVars
<1>2. DiskSide'
  BY <1>1, NoCall DEF FindEnds, At, NoDisk, diskVars, emmcVars, IInv, DiskSide, DiskTypes, CallPcs
<1>3. /\ UNCHANGED <<formatting, ioAge>> /\ Ages'
      /\ iopc' # "idle" => transferAge' = callAge' /\ ~polled'
  BY <1>1 DEF FindEnds, At, NoDisk, diskVars, IInv, FsSide, Ages
<1>4. FsTypes'
  BY <1>1, <1>3 DEF IInv, FsSide, FsTypes, CallPcs
<1>5. MediumTypes'
  BY <1>1, <1>3 DEF IInv, FsSide, MediumTypes
<1>6. Believed'
  BY <1>1, <1>3 DEF IInv, FsSide, Believed
<1>7. Reported'
  BY <1>1, <1>3 DEF IInv, FsSide, Reported, Whole, MountPcs, FormatPcs
<1>8. Modes'
  BY <1>1, <1>3 DEF IInv, FsSide, Modes, FormatPcs
<1>9. Limits'
  BY <1>1, <1>3 DEF IInv, FsSide, Limits, OperationTimeout
<1>10. Spent'
  BY <1>1, <1>3 DEF IInv, FsSide, Spent, MountPcs, Limits, OperationTimeout, Modes, FormatPcs, FsTypes, MaxSpent, Ages
<1>11. InTime'
  BY <1>1, <1>3 DEF IInv, FsSide, InTime, Spent, Limits, OperationTimeout, Modes, FormatPcs
<1> QED
  BY <1>2, <1>3, <1>4, <1>5, <1>6, <1>7, <1>8, <1>9, <1>10, <1>11 DEF IInv, FsSide

\* The file is deleted, or that failed.
LEMMA DeleteEndsIInv == IInv /\ DeleteEnds => IInv'
<1> SUFFICES ASSUME IInv, DeleteEnds PROVE IInv'
  OBVIOUS
<1>1. /\ pc = "deleted" /\ \/ pc' = "unmount"
                           \/ pc' = "deleteOn" /\ left > 0
      /\ UNCHANGED <<caller, fmt, fsType, entry, left, ready, spent, formatted, sector0, parts, capacity>>
  BY DEF DeleteEnds, At, NoMount, medium, sdVars
<1>2. DiskSide'
  BY <1>1, NoCall DEF DeleteEnds, At, NoDisk, diskVars, emmcVars, IInv, DiskSide, DiskTypes, CallPcs
<1>3. /\ UNCHANGED <<formatting, ioAge>> /\ Ages'
      /\ iopc' # "idle" => transferAge' = callAge' /\ ~polled'
  BY <1>1 DEF DeleteEnds, At, NoDisk, diskVars, IInv, FsSide, Ages
<1>4. FsTypes'
  BY <1>1, <1>3 DEF IInv, FsSide, FsTypes, CallPcs
<1>5. MediumTypes'
  BY <1>1, <1>3 DEF IInv, FsSide, MediumTypes
<1>6. Believed'
  BY <1>1, <1>3 DEF IInv, FsSide, Believed
<1>7. Reported'
  BY <1>1, <1>3 DEF IInv, FsSide, Reported, Whole, MountPcs, FormatPcs
<1>8. Modes'
  BY <1>1, <1>3 DEF IInv, FsSide, Modes, FormatPcs
<1>9. Limits'
  BY <1>1, <1>3 DEF IInv, FsSide, Limits, OperationTimeout
<1>10. Spent'
  BY <1>1, <1>3 DEF IInv, FsSide, Spent, MountPcs
<1>11. InTime'
  BY <1>1, <1>3 DEF IInv, FsSide, InTime, Spent, Limits, OperationTimeout, Modes, FormatPcs
<1> QED
  BY <1>2, <1>3, <1>4, <1>5, <1>6, <1>7, <1>8, <1>9, <1>10, <1>11 DEF IInv, FsSide

\* Only what was read and is not FAT32 is formatted.
LEMMA DecideIInv == IInv /\ Decide => IInv'
<1> SUFFICES ASSUME IInv, Decide PROVE IInv'
  OBVIOUS
<1>1. /\ pc = "mounted" /\ caller = "init" /\ ready' = (fsType = "FAT32")
      /\ pc' = (IF MayFormat THEN "mkfs" ELSE "unmount") /\ formatting' = MayFormat
      /\ UNCHANGED <<caller, fmt, fsType, entry, left, spent, formatted, sector0, parts, capacity>>
  BY DEF Decide, At, NoMount, medium, sdVars
<1>2. DiskSide'
  <2>1. formatting' \in BOOLEAN /\ UNCHANGED emmcVars /\ UNCHANGED <<iopc, op, result, initialized, polled>>
    BY <1>1 DEF Decide, IInv, DiskSide, DiskTypes, MayFormat, NoFat32, NotInitialized, NoDisk
  <2> QED
    BY <1>1, <2>1, NoCall DEF Decide, At, IInv, CallPcs
<1>3. /\ UNCHANGED ioAge /\ Ages' /\ iopc' = "idle"
  BY <1>1 DEF Decide, At, IInv, FsSide, Ages
<1>4. FsTypes'
  BY <1>1, <1>3 DEF IInv, FsSide, FsTypes, CallPcs
<1>5. MediumTypes'
  BY <1>1, <1>3 DEF IInv, FsSide, MediumTypes
<1>6. Believed'
  <2>1. initialized' = initialized
    BY DEF Decide
  <2>2. pc' = "mkfs" => MayFormat
    BY <1>1
  <2>3. MayFormat => ~NotInitialized /\ ~IsDecoy(sector0, parts)
    BY <1>1 DEF IInv, FsSide, Believed, MayFormat
  <2> QED
    BY <1>1, <2>1, <2>2, <2>3 DEF Believed, NotInitialized
<1>7. Reported'
  BY <1>1, <1>3 DEF IInv, FsSide, Reported, Whole, MountPcs, FormatPcs, MayFormat, NoFat32
<1>8. Modes'
  BY <1>1, <1>3 DEF IInv, FsSide, Modes, FormatPcs, MayFormat
<1>9. Limits'
  <2>1. ioAge <= FILE_IO_TIMEOUT /\ FILE_IO_TIMEOUT <= FORMAT_TIMEOUT /\ ioAge \in Nat
    BY <1>1 DEF IInv, FsSide, Ages, Limits, Modes, FormatPcs, OperationTimeout
  <2>2. ioAge' <= OperationTimeout'
    BY <1>3, <2>1 DEF OperationTimeout
  <2> QED
    BY <1>3, <2>2 DEF Limits
<1>10. Spent'
  BY <1>1, <1>3 DEF IInv, FsSide, Spent, MountPcs, Limits, OperationTimeout, Modes, FormatPcs, FsTypes, MaxSpent, Ages
<1>11. InTime'
  BY <1>1, <1>3 DEF IInv, FsSide, InTime, Spent, MountPcs, Limits, OperationTimeout, Modes, FormatPcs
<1> QED
  BY <1>2, <1>3, <1>4, <1>5, <1>6, <1>7, <1>8, <1>9, <1>10, <1>11 DEF IInv, FsSide

\* formatting is reset; after a failure there is no second mount.
LEMMA FormatEndsIInv == IInv /\ FormatEnds => IInv'
<1> SUFFICES ASSUME IInv, FormatEnds PROVE IInv'
  OBVIOUS
<1>1. /\ pc \in {"formatted", "formatFailed"} /\ formatting' = FALSE
      /\ pc' = IF pc = "formatFailed" THEN "unmount" ELSE "again"
      /\ UNCHANGED <<caller, fmt, fsType, entry, left, ready, spent, formatted, sector0, parts, capacity>>
  BY DEF FormatEnds, FormatLeadsTo, At, NoMount, medium, sdVars
<1>2. DiskSide'
  <2>1. formatting' \in BOOLEAN /\ UNCHANGED emmcVars /\ UNCHANGED <<iopc, op, result, initialized, polled>>
    BY <1>1 DEF FormatEnds, IInv, DiskSide, DiskTypes, MayFormat, NoFat32, NotInitialized, NoDisk
  <2> QED
    BY <1>1, <2>1, NoCall DEF FormatEnds, At, IInv, CallPcs
<1>3. /\ UNCHANGED ioAge /\ Ages' /\ iopc' = "idle"
  BY <1>1 DEF FormatEnds, At, IInv, FsSide, Ages
<1>4. FsTypes'
  BY <1>1, <1>3 DEF IInv, FsSide, FsTypes, CallPcs
<1>5. MediumTypes'
  BY <1>1, <1>3 DEF IInv, FsSide, MediumTypes
<1>6. Believed'
  BY <1>1, <1>3 DEF IInv, FsSide, Believed
<1>7. Reported'
  BY <1>1, <1>3 DEF IInv, FsSide, Reported, Whole, MountPcs, FormatPcs
<1>8. Modes'
  BY <1>1, <1>3 DEF IInv, FsSide, Modes, FormatPcs
<1>9. Limits'
  BY <1>1, <1>3 DEF IInv, FsSide, Limits, OperationTimeout
<1>10. Spent'
  BY <1>1, <1>3 DEF IInv, FsSide, Spent, MountPcs
<1>11. InTime'
  BY <1>1, <1>3 DEF IInv, FsSide, InTime, Spent, Modes, FormatPcs
<1> QED
  BY <1>2, <1>3, <1>4, <1>5, <1>6, <1>7, <1>8, <1>9, <1>10, <1>11 DEF IInv, FsSide

\* unlock_file_delete has a time limit of its own.
LEMMA DeleteBeginsIInv == IInv /\ DeleteBegins => IInv'
<1> SUFFICES ASSUME IInv, DeleteBegins PROVE IInv'
  OBVIOUS
<1>1. /\ pc = "delete" /\ pc' = "deleteOn" /\ left' = WRITES /\ ioAge' = 0
      /\ UNCHANGED <<caller, fmt, fsType, entry, ready, spent, formatted, sector0, parts, capacity>>
  BY DEF DeleteBegins, At, NoMount, medium, sdVars
<1>2. DiskSide'
  <2>1. formatting' \in BOOLEAN /\ UNCHANGED emmcVars /\ UNCHANGED <<iopc, op, result, initialized, polled>>
    BY <1>1 DEF DeleteBegins, IInv, DiskSide, DiskTypes, MayFormat, NoFat32, NotInitialized, NoDisk
  <2> QED
    BY <1>1, <2>1, NoCall DEF DeleteBegins, At, IInv, CallPcs
<1>3. /\ UNCHANGED formatting /\ Ages' /\ iopc' = "idle"
  BY <1>1 DEF DeleteBegins, At, IInv, FsSide, Ages
<1>4. FsTypes'
  BY <1>1, <1>3 DEF IInv, FsSide, FsTypes, CallPcs
<1>5. MediumTypes'
  BY <1>1, <1>3 DEF IInv, FsSide, MediumTypes
<1>6. Believed'
  BY <1>1, <1>3 DEF IInv, FsSide, Believed
<1>7. Reported'
  BY <1>1, <1>3 DEF IInv, FsSide, Reported, Whole, MountPcs, FormatPcs
<1>8. Modes'
  BY <1>1, <1>3 DEF IInv, FsSide, Modes, FormatPcs
<1>9. Limits'
  BY <1>1, <1>3 DEF IInv, FsSide, Limits, OperationTimeout
<1>10. Spent'
  BY <1>1, <1>3 DEF IInv, FsSide, Spent, MountPcs
<1>11. InTime'
  BY <1>1, <1>3 DEF IInv, FsSide, InTime
<1> QED
  BY <1>2, <1>3, <1>4, <1>5, <1>6, <1>7, <1>8, <1>9, <1>10, <1>11 DEF IInv, FsSide

\* On with the FATs.
LEMMA InfoWrittenIInv == IInv /\ InfoWritten => IInv'
<1> SUFFICES ASSUME IInv, InfoWritten PROVE IInv'
  OBVIOUS
<1>1. /\ pc = "info" /\ pc' = "fat" /\ left' = WRITES
      /\ UNCHANGED <<caller, fmt, fsType, entry, ready, spent, formatted, sector0, parts, capacity>>
  BY DEF InfoWritten, At, NoMount, medium, sdVars
<1>2. DiskSide'
  BY <1>1, CallBegins DEF InfoWritten, At, IInv, DiskSide, DiskTypes, CallPcs, StartTransfer, StartSync
<1>3. /\ UNCHANGED <<formatting, ioAge>> /\ Ages'
      /\ iopc' # "idle" => transferAge' = callAge' /\ ~polled'
  BY <1>1, CallFacts DEF InfoWritten, At, IInv, FsSide
<1>4. FsTypes'
  BY <1>1, <1>3 DEF IInv, FsSide, FsTypes, CallPcs
<1>5. MediumTypes'
  BY <1>1, <1>3 DEF IInv, FsSide, MediumTypes
<1>6. Believed'
  BY <1>1, <1>3 DEF IInv, FsSide, Believed
<1>7. Reported'
  BY <1>1, <1>3 DEF IInv, FsSide, Reported, Whole, MountPcs, FormatPcs
<1>8. Modes'
  BY <1>1, <1>3 DEF IInv, FsSide, Modes, FormatPcs
<1>9. Limits'
  BY <1>1, <1>3 DEF IInv, FsSide, Limits, OperationTimeout
<1>10. Spent'
  BY <1>1, <1>3 DEF IInv, FsSide, Spent, MountPcs
<1>11. InTime'
  BY <1>1, <1>3 DEF IInv, FsSide, InTime
<1> QED
  BY <1>2, <1>3, <1>4, <1>5, <1>6, <1>7, <1>8, <1>9, <1>10, <1>11 DEF IInv, FsSide

\* A sector of the directory or of a file.
LEMMA ReadOnIInv == IInv /\ ReadOn => IInv'
<1> SUFFICES ASSUME IInv, ReadOn PROVE IInv'
  OBVIOUS
<1>1. /\ pc = "find" /\ pc' = "found" /\ left > 0 /\ left' = left - 1
      /\ UNCHANGED <<caller, fmt, fsType, entry, ready, spent, formatted, sector0, parts, capacity>>
  BY DEF ReadOn, At, NoMount, medium, sdVars
<1>2. DiskSide'
  BY <1>1, CallBegins DEF ReadOn, At, IInv, DiskSide, DiskTypes, CallPcs, StartTransfer, StartSync
<1>3. /\ UNCHANGED <<formatting, ioAge>> /\ Ages'
      /\ iopc' # "idle" => transferAge' = callAge' /\ ~polled'
  BY <1>1, CallFacts DEF ReadOn, At, IInv, FsSide
<1>4. FsTypes'
  BY <1>1, <1>3 DEF IInv, FsSide, FsTypes, CallPcs
<1>5. MediumTypes'
  BY <1>1, <1>3 DEF IInv, FsSide, MediumTypes
<1>6. Believed'
  BY <1>1, <1>3 DEF IInv, FsSide, Believed
<1>7. Reported'
  BY <1>1, <1>3 DEF IInv, FsSide, Reported, Whole, MountPcs, FormatPcs
<1>8. Modes'
  BY <1>1, <1>3 DEF IInv, FsSide, Modes, FormatPcs
<1>9. Limits'
  BY <1>1, <1>3 DEF IInv, FsSide, Limits, OperationTimeout
<1>10. Spent'
  BY <1>1, <1>3 DEF IInv, FsSide, Spent, MountPcs
<1>11. InTime'
  BY <1>1, <1>3 DEF IInv, FsSide, InTime
<1> QED
  BY <1>2, <1>3, <1>4, <1>5, <1>6, <1>7, <1>8, <1>9, <1>10, <1>11 DEF IInv, FsSide

\* A transfer of the deletion.
LEMMA DeleteOnIInv == IInv /\ DeleteOn => IInv'
<1> SUFFICES ASSUME IInv, DeleteOn PROVE IInv'
  OBVIOUS
<1>1. /\ pc = "deleteOn" /\ pc' = "deleted" /\ left' = left - 1
      /\ UNCHANGED <<caller, fmt, fsType, entry, ready, spent, formatted, sector0, parts, capacity>>
  BY DEF DeleteOn, At, NoMount, medium, sdVars
<1>2. DiskSide'
  BY <1>1, CallBegins DEF DeleteOn, At, IInv, DiskSide, DiskTypes, CallPcs, StartTransfer, StartSync
<1>3. /\ UNCHANGED <<formatting, ioAge>> /\ Ages'
      /\ iopc' # "idle" => transferAge' = callAge' /\ ~polled'
  BY <1>1, CallFacts DEF DeleteOn, At, IInv, FsSide
<1>4. FsTypes'
  BY <1>1, <1>3 DEF IInv, FsSide, FsTypes, CallPcs, Modes
<1>5. MediumTypes'
  BY <1>1, <1>3 DEF IInv, FsSide, MediumTypes
<1>6. Believed'
  BY <1>1, <1>3 DEF IInv, FsSide, Believed
<1>7. Reported'
  BY <1>1, <1>3 DEF IInv, FsSide, Reported, Whole, MountPcs, FormatPcs
<1>8. Modes'
  BY <1>1, <1>3 DEF IInv, FsSide, Modes, FormatPcs
<1>9. Limits'
  BY <1>1, <1>3 DEF IInv, FsSide, Limits, OperationTimeout
<1>10. Spent'
  BY <1>1, <1>3 DEF IInv, FsSide, Spent, MountPcs
<1>11. InTime'
  BY <1>1, <1>3 DEF IInv, FsSide, InTime
<1> QED
  BY <1>2, <1>3, <1>4, <1>5, <1>6, <1>7, <1>8, <1>9, <1>10, <1>11 DEF IInv, FsSide

\* f_mkfs begins, with a time limit of its own.
LEMMA MakeFsIInv == IInv /\ MakeFs => IInv'
<1> SUFFICES ASSUME IInv, MakeFs PROVE IInv'
  OBVIOUS
<1>1. /\ pc = "mkfs" /\ pc' = "vbr" /\ formatted'
      /\ UNCHANGED <<caller, fmt, fsType, entry, left, ready, spent, sector0, parts, capacity>>
  BY DEF MakeFs, At, NoMount, medium, sdVars
<1>2. DiskSide'
  <2>1. ~NotInitialized
    BY <1>1 DEF IInv, FsSide, Believed
  <2>2. capacity = "large" /\ InitializeAnd("write") /\ formatting' \in BOOLEAN
    BY <2>1 DEF MakeFs, NotInitialized, InitializeAnd, IInv, DiskSide, DiskTypes
  <2> QED
    BY <1>1, <2>2, CallBegins DEF MakeFs, At, IInv, CallPcs
<1>3. /\ UNCHANGED formatting /\ ioAge' = 0 /\ Ages'
      /\ iopc' # "idle" => transferAge' = callAge' /\ ~polled'
  BY <1>1, InitializeFacts DEF MakeFs, At, IInv, FsSide
<1>4. FsTypes'
  <2>1. formatted' \in BOOLEAN
    BY DEF MakeFs
  <2> QED
    BY <1>1, <2>1 DEF IInv, FsSide, FsTypes, CallPcs
<1>5. MediumTypes'
  BY <1>1, <1>3 DEF IInv, FsSide, MediumTypes
<1>6. Believed'
  BY <1>1, <1>3 DEF IInv, FsSide, Believed
<1>7. Reported'
  BY <1>1, <1>3 DEF IInv, FsSide, Reported, Whole, MountPcs, FormatPcs
<1>8. Modes'
  BY <1>1, <1>3 DEF IInv, FsSide, Modes, FormatPcs
<1>9. Limits'
  BY <1>1, <1>3 DEF IInv, FsSide, Limits, OperationTimeout
<1>10. Spent'
  BY <1>1, <1>3 DEF IInv, FsSide, Spent, MountPcs
<1>11. InTime'
  BY <1>1, <1>3 DEF IInv, FsSide, InTime
<1> QED
  BY <1>2, <1>3, <1>4, <1>5, <1>6, <1>7, <1>8, <1>9, <1>10, <1>11 DEF IInv, FsSide

\* Once the first sector is written the volume is the new one.
LEMMA VbrWrittenIInv == IInv /\ VbrWritten => IInv'
<1> SUFFICES ASSUME IInv, VbrWritten PROVE IInv'
  OBVIOUS
<1>1. /\ pc = "vbr" /\ iopc = "idle"
      /\ UNCHANGED <<caller, fmt, fsType, entry, left, ready, spent, formatted, capacity>>
      /\ \/ pc' = "info" /\ sector0' = "torn" /\ parts' = NoParts
         \/ pc' = "formatFailed" /\ sector0' = "torn" /\ parts' = NoParts
         \/ pc' = "formatFailed" /\ UNCHANGED <<sector0, parts>>
  BY DEF VbrWritten, At, NoMount, medium, sdVars
<1>2. DiskSide'
  <2>1. formatting' \in BOOLEAN
    BY DEF VbrWritten, NoDisk, diskVars, StartTransfer, StartSync, IInv, DiskSide, DiskTypes
  <2>2. CASE pc' \in {"info"}
    BY <1>1, <2>1, <2>2, CallBegins DEF VbrWritten, At, IInv, CallPcs
  <2>3. CASE pc' \notin {"info"}
    <3>1. NoDisk
      BY <1>1, <2>3 DEF VbrWritten
    <3> QED
      BY <1>1, <2>1, <2>3, <3>1, NoCall DEF VbrWritten, At, IInv, NoDisk, diskVars, CallPcs
  <2> QED
    BY <2>2, <2>3
<1>3. /\ UNCHANGED <<formatting, ioAge>> /\ Ages'
      /\ iopc' # "idle" => transferAge' = callAge' /\ ~polled'
  <2>1. CASE pc' \in {"info"}
    <3>1. (\E o \in {"read", "write"} : StartTransfer(o)) \/ StartSync
      BY <1>1, <2>1 DEF VbrWritten
    <3> QED
      BY <1>1, <3>1, CallFacts DEF IInv, FsSide
  <2>2. CASE pc' \notin {"info"}
    BY <1>1, <2>2 DEF VbrWritten, NoDisk, diskVars, IInv, FsSide, Ages
  <2> QED
    BY <2>1, <2>2
<1>4. FsTypes'
  BY <1>1, <1>3 DEF IInv, FsSide, FsTypes, CallPcs
<1>5. MediumTypes'
  BY <1>1, <1>3 DEF IInv, FsSide, MediumTypes, SectorKinds, PartKinds, FatKinds, BootKinds, NoParts
<1>6. Believed'
  BY <1>1, <1>3 DEF IInv, FsSide, Believed
<1>7. Reported'
  BY <1>1, <1>3 DEF IInv, FsSide, Reported, Whole, MountPcs, FormatPcs, IsDecoy
<1>8. Modes'
  BY <1>1, <1>3 DEF IInv, FsSide, Modes, FormatPcs
<1>9. Limits'
  BY <1>1, <1>3 DEF IInv, FsSide, Limits, OperationTimeout
<1>10. Spent'
  BY <1>1, <1>3 DEF IInv, FsSide, Spent, MountPcs, Limits, OperationTimeout, Modes, FormatPcs, FsTypes, MaxSpent, Ages
<1>11. InTime'
  BY <1>1, <1>3 DEF IInv, FsSide, InTime
<1> QED
  BY <1>2, <1>3, <1>4, <1>5, <1>6, <1>7, <1>8, <1>9, <1>10, <1>11 DEF IInv, FsSide

\* The last sector of the FATs makes the volume whole.
LEMMA FatWrittenIInv == IInv /\ FatWritten => IInv'
<1> SUFFICES ASSUME IInv, FatWritten PROVE IInv'
  OBVIOUS
<1>1. /\ pc = "fat" /\ iopc = "idle"
      /\ UNCHANGED <<caller, fmt, fsType, entry, ready, spent, formatted, parts, capacity>>
      /\ \/ pc' = "formatFailed" /\ UNCHANGED <<left, sector0>>
         \/ pc' = "fat" /\ left > 1 /\ left' = left - 1 /\ UNCHANGED sector0
         \/ pc' = "sync" /\ sector0' = "FAT32" /\ left' = 0
  BY DEF FatWritten, At, NoMount, medium, sdVars
<1>2. DiskSide'
  <2>1. formatting' \in BOOLEAN
    BY DEF FatWritten, NoDisk, diskVars, StartTransfer, StartSync, IInv, DiskSide, DiskTypes
  <2>2. CASE pc' \in {"fat", "sync"}
    BY <1>1, <2>1, <2>2, CallBegins DEF FatWritten, At, IInv, CallPcs
  <2>3. CASE pc' \notin {"fat", "sync"}
    <3>1. NoDisk
      BY <1>1, <2>3 DEF FatWritten
    <3> QED
      BY <1>1, <2>1, <2>3, <3>1, NoCall DEF FatWritten, At, IInv, NoDisk, diskVars, CallPcs
  <2> QED
    BY <2>2, <2>3
<1>3. /\ UNCHANGED <<formatting, ioAge>> /\ Ages'
      /\ iopc' # "idle" => transferAge' = callAge' /\ ~polled'
  <2>1. CASE pc' \in {"fat", "sync"}
    <3>1. (\E o \in {"read", "write"} : StartTransfer(o)) \/ StartSync
      BY <1>1, <2>1 DEF FatWritten
    <3> QED
      BY <1>1, <3>1, CallFacts DEF IInv, FsSide
  <2>2. CASE pc' \notin {"fat", "sync"}
    BY <1>1, <2>2 DEF FatWritten, NoDisk, diskVars, IInv, FsSide, Ages
  <2> QED
    BY <2>1, <2>2
<1>4. FsTypes'
  BY <1>1, <1>3 DEF IInv, FsSide, FsTypes, CallPcs
<1>5. MediumTypes'
  BY <1>1, <1>3 DEF IInv, FsSide, MediumTypes, SectorKinds, FatKinds, BootKinds
<1>6. Believed'
  BY <1>1, <1>3 DEF IInv, FsSide, Believed
<1>7. Reported'
  BY <1>1, <1>3 DEF IInv, FsSide, Reported, Whole, MountPcs, FormatPcs, IsDecoy
<1>8. Modes'
  BY <1>1, <1>3 DEF IInv, FsSide, Modes, FormatPcs
<1>9. Limits'
  BY <1>1, <1>3 DEF IInv, FsSide, Limits, OperationTimeout
<1>10. Spent'
  BY <1>1, <1>3 DEF IInv, FsSide, Spent, MountPcs, Limits, OperationTimeout, Modes, FormatPcs, FsTypes, MaxSpent, Ages
<1>11. InTime'
  BY <1>1, <1>3 DEF IInv, FsSide, InTime
<1> QED
  BY <1>2, <1>3, <1>4, <1>5, <1>6, <1>7, <1>8, <1>9, <1>10, <1>11 DEF IInv, FsSide

\* The card is initialized: from here on its interrupt is on.
LEMMA EnableEmmcIrqIInv == IInv /\ EnableEmmcIrq => IInv'
<1> SUFFICES ASSUME IInv, EnableEmmcIrq PROVE IInv'
  OBVIOUS
<1>1. /\ pc = "main" /\ pc' = "init" /\ sdpc = "ok" /\ iopc = "idle" /\ irq' = TRUE
      /\ UNCHANGED <<sdpc, tries, card, wide, fast, hostWide, fastClock, capacity>>
      /\ UNCHANGED <<flags, dma, bus, dat0low, iopc, op, result, initialized, formatting, polled>>
      /\ UNCHANGED <<ioAge, transferAge, callAge>>
      /\ UNCHANGED <<caller, fmt, fsType, entry, left, ready, spent, formatted, sector0, parts>>
  BY DEF EnableEmmcIrq, At, sdVars, diskVars, medium
<1>2. DiskSide'
  <2>1. EmmcTypeOK' /\ SdTypeOK' /\ DiskTypes' /\ Width'
    BY <1>1 DEF IInv, DiskSide, EmmcTypeOK, SdTypeOK, DiskTypes, Width
  <2>2. Calls' /\ Bus' /\ Results'
    BY <1>1 DEF IInv, DiskSide, Calls, CallPcs, Bus, AtRest, Results
  <2> QED
    BY <2>1, <2>2 DEF DiskSide
<1>3. /\ UNCHANGED <<formatting, ioAge>> /\ Ages'
      /\ iopc' = "idle"
  BY <1>1 DEF IInv, FsSide, Ages
<1>4. FsTypes'
  BY <1>1, <1>3 DEF IInv, FsSide, FsTypes, CallPcs
<1>5. MediumTypes'
  BY <1>1, <1>3 DEF IInv, FsSide, MediumTypes
<1>6. Believed'
  BY <1>1, <1>3 DEF IInv, FsSide, Believed
<1>7. Reported'
  BY <1>1, <1>3 DEF IInv, FsSide, Reported, Whole, MountPcs, FormatPcs
<1>8. Modes'
  BY <1>1, <1>3 DEF IInv, FsSide, Modes, FormatPcs
<1>9. Limits'
  BY <1>1, <1>3 DEF IInv, FsSide, Limits, OperationTimeout
<1>10. Spent'
  BY <1>1, <1>3 DEF IInv, FsSide, Spent, MountPcs
<1>11. InTime'
  BY <1>1, <1>3 DEF IInv, FsSide, InTime
<1> QED
  BY <1>2, <1>3, <1>4, <1>5, <1>6, <1>7, <1>8, <1>9, <1>10, <1>11 DEF IInv, FsSide

\* The next entry of the MBR, until there is none left.
LEMMA EntryIInv == IInv /\ Entry => IInv'
<1> SUFFICES ASSUME IInv, Entry PROVE IInv'
  OBVIOUS
<1>1. /\ pc = "entry" /\ iopc = "idle"
      /\ UNCHANGED <<caller, fsType, left, ready, spent, formatted, sector0, parts, capacity>>
      /\ \/ pc' = "mounted" /\ entry > PARTS /\ UNCHANGED <<entry, fmt>> /\ NoDisk
         \/ /\ pc' = "entry" /\ entry <= PARTS /\ entry' = entry + 1 /\ fmt' \in {3, 4}
            /\ parts[entry] \in {"none", "beyond"} /\ NoDisk
         \/ /\ pc' = "partition" /\ entry <= PARTS /\ UNCHANGED <<entry, fmt>>
            /\ parts[entry] \notin {"none", "beyond"} /\ StartTransfer("read")
  <2>1. entry \in Nat
    BY DEF IInv, FsSide, FsTypes
  <2>2. pc = "entry" /\ entry \in Nat
    BY <2>1 DEF Entry, At
  <2> QED
    BY <2>2 DEF Entry, NotFound, At, NoMount, medium, sdVars
<1>2. DiskSide'
  <2>1. formatting' \in BOOLEAN
    BY <1>1 DEF NoDisk, diskVars, StartTransfer, IInv, DiskSide, DiskTypes
  <2>2. CASE StartTransfer("read") /\ pc' = "partition"
    BY <1>1, <2>1, <2>2, CallBegins DEF Entry, At, IInv, CallPcs
  <2>3. CASE NoDisk /\ pc' # "partition"
    BY <1>1, <2>1, <2>3, NoCall DEF Entry, At, IInv, NoDisk, diskVars, CallPcs
  <2> QED
    BY <1>1, <2>2, <2>3
<1>3. /\ UNCHANGED <<formatting, ioAge, initialized>> /\ Ages'
      /\ iopc' # "idle" => transferAge' = callAge' /\ ~polled'
  <2>1. CASE StartTransfer("read")
    BY <1>1, <2>1, CallFacts DEF IInv, FsSide
  <2>2. CASE NoDisk
    BY <1>1, <2>2 DEF NoDisk, diskVars, IInv, FsSide, Ages
  <2> QED
    BY <1>1, <2>1, <2>2
<1>4. FsTypes'
  BY <1>1, <1>3 DEF IInv, FsSide, FsTypes, CallPcs
<1>5. MediumTypes'
  BY <1>1, <1>3 DEF IInv, FsSide, MediumTypes
<1>6. Believed'
  <2>1. NotInitialized' <=> NotInitialized
    BY <1>1, <1>3 DEF NotInitialized
  <2>2. CASE pc' = "mounted"
    <3>1. ~NotInitialized => ~IsDecoy(sector0, parts)
      BY <1>1, <2>2 DEF IInv, FsSide, FsTypes, Believed, NoneBefore, IsDecoy, FatKinds, BootKinds
    <3> QED
      BY <1>1, <2>1, <2>2, <3>1 DEF Believed, MayFormat
  <2>3. CASE pc' = "entry"
    <3>1. NoneBefore(entry) => NoneBefore(entry)'
      BY <1>1, <2>3 DEF IInv, FsSide, FsTypes, NoneBefore, FatKinds, BootKinds
    <3> QED
      BY <1>1, <2>1, <2>3, <3>1 DEF IInv, FsSide, Believed
  <2>4. CASE pc' = "partition"
    BY <1>1, <2>1, <2>4 DEF IInv, FsSide, Believed, NoneBefore
  <2> QED
    BY <1>1, <2>2, <2>3, <2>4
<1>7. Reported'
  BY <1>1, <1>3 DEF IInv, FsSide, Reported, Whole, MountPcs, FormatPcs, Believed
<1>8. Modes'
  BY <1>1, <1>3 DEF IInv, FsSide, Modes, FormatPcs
<1>9. Limits'
  BY <1>1, <1>3 DEF IInv, FsSide, Limits, OperationTimeout
<1>10. Spent'
  BY <1>1, <1>3 DEF IInv, FsSide, Spent, MountPcs
<1>11. InTime'
  BY <1>1, <1>3 DEF IInv, FsSide, InTime
<1> QED
  BY <1>2, <1>3, <1>4, <1>5, <1>6, <1>7, <1>8, <1>9, <1>10, <1>11 DEF IInv, FsSide

\* What an entry leads to, if it can be read.
LEMMA PartitionIInv == IInv /\ Partition => IInv'
<1> SUFFICES ASSUME IInv, Partition PROVE IInv'
  OBVIOUS
<1>1. /\ pc = "partition" /\ iopc = "idle"
      /\ UNCHANGED <<caller, left, ready, spent, formatted, sector0, parts, capacity>>
      /\ \/ /\ pc' = "entry" /\ entry' = entry + 1 /\ fmt' \in {3, 4} /\ UNCHANGED fsType
            /\ result # "ok" \/ parts[entry] = "other"
            /\ NoDisk
         \/ /\ pc' = "mounted" /\ fmt' = 3 /\ UNCHANGED <<fsType, entry>>
            /\ parts[entry] = "invalid" /\ NoDisk
         \/ /\ pc' = "mounted" /\ fmt' = 0 /\ fsType' = "FAT16" /\ UNCHANGED entry
            /\ parts[entry] = "FAT16" /\ NoDisk
         \/ /\ pc' = "fsInfo" /\ fmt' = 0 /\ UNCHANGED <<fsType, entry>>
            /\ result = "ok" /\ parts[entry] \notin {"other", "invalid", "FAT16"}
            /\ StartTransfer("read")
  BY DEF Partition, NotFound, Found, At, NoMount, medium, sdVars
<1>2. DiskSide'
  <2>1. formatting' \in BOOLEAN
    BY <1>1 DEF NoDisk, diskVars, StartTransfer, IInv, DiskSide, DiskTypes
  <2>2. CASE StartTransfer("read") /\ pc' = "fsInfo"
    BY <1>1, <2>1, <2>2, CallBegins DEF Partition, At, IInv, CallPcs
  <2>3. CASE NoDisk /\ pc' # "fsInfo"
    BY <1>1, <2>1, <2>3, NoCall DEF Partition, At, IInv, NoDisk, diskVars, CallPcs
  <2> QED
    BY <1>1, <2>2, <2>3
<1>3. /\ UNCHANGED <<formatting, ioAge, initialized>> /\ Ages'
      /\ iopc' # "idle" => transferAge' = callAge' /\ ~polled'
  <2>1. CASE StartTransfer("read")
    BY <1>1, <2>1, CallFacts DEF IInv, FsSide
  <2>2. CASE NoDisk
    BY <1>1, <2>2 DEF NoDisk, diskVars, IInv, FsSide, Ages
  <2> QED
    BY <1>1, <2>1, <2>2
<1>4. FsTypes'
  BY <1>1, <1>3 DEF IInv, FsSide, FsTypes, CallPcs, Believed, FatKinds
<1>5. MediumTypes'
  BY <1>1, <1>3 DEF IInv, FsSide, MediumTypes
<1>6. Believed'
  <2>1. /\ NotInitialized' <=> NotInitialized
        /\ result # "ok" => NotInitialized
    BY <1>1, <1>3 DEF NotInitialized, IInv, DiskSide, Results
  <2>2. CASE pc' = "mounted"
    <3>1. ~NotInitialized => ~IsDecoy(sector0, parts)
      BY <1>1, <2>2 DEF IInv, FsSide, FsTypes, Believed, NoneBefore, IsDecoy, FatKinds, BootKinds
    <3> QED
      BY <1>1, <2>1, <2>2, <3>1 DEF Believed, MayFormat
  <2>3. CASE pc' = "entry"
    <3>1. parts[entry] = "other" /\ NoneBefore(entry) => NoneBefore(entry)'
      BY <1>1, <2>3 DEF IInv, FsSide, FsTypes, NoneBefore, FatKinds, BootKinds
    <3> QED
      BY <1>1, <2>1, <2>3, <3>1 DEF IInv, FsSide, Believed
  <2>4. CASE pc' = "fsInfo"
    BY <1>1, <2>4 DEF IInv, FsSide, Believed
  <2> QED
    BY <1>1, <2>2, <2>3, <2>4
<1>7. Reported'
  <2>1. pc' = "fsInfo" => Whole
    <3> SUFFICES ASSUME pc' = "fsInfo" PROVE IsDecoy(sector0, parts)
      BY DEF Whole
    <3>1. entry \in 1 .. PARTS /\ parts[entry] = "FAT32" /\ NoneBefore(entry)
      BY <1>1 DEF IInv, DiskSide, Results, CallPcs, FsSide, FsTypes, MediumTypes, PartKinds,
         FatKinds, BootKinds, Believed
    <3> QED
      BY <3>1 DEF IsDecoy, NoneBefore
  <2> QED
    <3>1. fsType = "none"
      BY <1>1 DEF IInv, FsSide, Believed
    <3> QED
      BY <1>1, <1>3, <2>1, <3>1 DEF IInv, FsSide, Reported, Whole, MountPcs, FormatPcs
<1>8. Modes'
  BY <1>1, <1>3 DEF IInv, FsSide, Modes, FormatPcs
<1>9. Limits'
  BY <1>1, <1>3 DEF IInv, FsSide, Limits, OperationTimeout
<1>10. Spent'
  BY <1>1, <1>3 DEF IInv, FsSide, Spent, MountPcs
<1>11. InTime'
  BY <1>1, <1>3 DEF IInv, FsSide, InTime
<1> QED
  BY <1>2, <1>3, <1>4, <1>5, <1>6, <1>7, <1>8, <1>9, <1>10, <1>11 DEF IInv, FsSide

\* What sector 0 is, if it can be read.
LEMMA BootSectorIInv == IInv /\ BootSector => IInv'
<1> SUFFICES ASSUME IInv, BootSector PROVE IInv'
  OBVIOUS
<1>1. /\ pc = "bootSector" /\ iopc = "idle"
      /\ UNCHANGED <<caller, left, ready, spent, formatted, sector0, parts, capacity>>
      /\ UNCHANGED entry
      /\ \/ pc' = "mounted" /\ fmt' = 4 /\ UNCHANGED fsType /\ NoDisk
         \/ pc' = "mounted" /\ fmt' = 3 /\ UNCHANGED fsType /\ sector0 \in {"blank", "invalid"}
            /\ NoDisk
         \/ pc' = "entry" /\ fmt' = 3 /\ UNCHANGED fsType /\ sector0 = "MBR" /\ NoDisk
         \/ pc' = "mounted" /\ fmt' = 0 /\ fsType' = "FAT16" /\ sector0 = "FAT16" /\ NoDisk
         \/ /\ pc' = "fsInfo" /\ fmt' = 0 /\ UNCHANGED fsType
            /\ sector0 \notin {"blank", "invalid", "MBR", "FAT16"} /\ StartTransfer("read")
  BY DEF BootSector, NotFound, Found, At, NoMount, medium, sdVars
<1>2. DiskSide'
  <2>1. formatting' \in BOOLEAN
    BY <1>1 DEF NoDisk, diskVars, StartTransfer, IInv, DiskSide, DiskTypes
  <2>2. CASE StartTransfer("read") /\ pc' = "fsInfo"
    BY <1>1, <2>1, <2>2, CallBegins DEF BootSector, At, IInv, CallPcs
  <2>3. CASE NoDisk /\ pc' # "fsInfo"
    BY <1>1, <2>1, <2>3, NoCall DEF BootSector, At, IInv, NoDisk, diskVars, CallPcs
  <2> QED
    BY <1>1, <2>2, <2>3
<1>3. /\ UNCHANGED <<formatting, ioAge, initialized>> /\ Ages'
      /\ iopc' # "idle" => transferAge' = callAge' /\ ~polled'
  <2>1. CASE StartTransfer("read")
    BY <1>1, <2>1, CallFacts DEF IInv, FsSide
  <2>2. CASE NoDisk
    BY <1>1, <2>2 DEF NoDisk, diskVars, IInv, FsSide, Ages
  <2> QED
    BY <1>1, <2>1, <2>2
<1>4. FsTypes'
  BY <1>1, <1>3 DEF IInv, FsSide, FsTypes, CallPcs, FatKinds
<1>5. MediumTypes'
  BY <1>1, <1>3 DEF IInv, FsSide, MediumTypes
<1>6. Believed'
  <2>1. fsType = "none" /\ (pc' = "entry" => entry = 1)
    BY <1>1 DEF IInv, FsSide, Believed
  <2>2. pc' = "entry" => NoneBefore(entry)'
    BY <1>1, <2>1 DEF NoneBefore
  <2>3. pc' = "mounted" /\ MayFormat' => ~IsDecoy(sector0, parts)
    BY <1>1, <2>1 DEF MayFormat, NoFat32, IsDecoy
  <2> QED
    BY <1>1, <2>1, <2>2, <2>3 DEF Believed
<1>7. Reported'
  BY <1>1, <1>3 DEF IInv, FsSide, Reported, Whole, MountPcs, FormatPcs, IsDecoy, MediumTypes, SectorKinds, FatKinds, BootKinds, Believed
<1>8. Modes'
  BY <1>1, <1>3 DEF IInv, FsSide, Modes, FormatPcs
<1>9. Limits'
  BY <1>1, <1>3 DEF IInv, FsSide, Limits, OperationTimeout
<1>10. Spent'
  BY <1>1, <1>3 DEF IInv, FsSide, Spent, MountPcs
<1>11. InTime'
  BY <1>1, <1>3 DEF IInv, FsSide, InTime
<1> QED
  BY <1>2, <1>3, <1>4, <1>5, <1>6, <1>7, <1>8, <1>9, <1>10, <1>11 DEF IInv, FsSide

\* f_opendir mounts again only if the disk was lost meanwhile.
LEMMA OpenDirIInv == IInv /\ OpenDir => IInv'
<1> SUFFICES ASSUME IInv, OpenDir PROVE IInv'
  OBVIOUS
<1>a. CASE NotInitialized
  BY <1>a, MountIInv DEF OpenDir, At
<1>b. CASE ~NotInitialized
  <2>1. /\ pc = "open" /\ pc' = "find" /\ left' = WRITES /\ NoDisk
        /\ UNCHANGED <<caller, fmt, fsType, entry, ready, spent, formatted, sector0, parts, capacity>>
    BY <1>b DEF OpenDir, At, NoMount, medium, sdVars
  <2>2. DiskSide'
    BY <2>1, NoCall DEF OpenDir, At, NoDisk, diskVars, IInv, DiskSide, DiskTypes, CallPcs
  <2>3. UNCHANGED <<formatting, ioAge>> /\ Ages' /\ iopc' = "idle"
    BY <2>1 DEF OpenDir, At, NoDisk, diskVars, IInv, FsSide, Ages
  <2>4. FsTypes' /\ MediumTypes'
    BY <2>1 DEF IInv, FsSide, FsTypes, MediumTypes
  <2>5. Believed' /\ Reported'
    BY <2>1 DEF IInv, FsSide, Believed, Reported, Whole, MountPcs, FormatPcs
  <2>6. Modes' /\ Limits'
    BY <2>1, <2>3 DEF IInv, FsSide, Modes, FormatPcs, Limits, OperationTimeout
  <2>7. Spent' /\ InTime'
    BY <2>1, <2>3 DEF IInv, FsSide, Modes, Spent, MountPcs, InTime
  <2> QED
    BY <2>2, <2>3, <2>4, <2>5, <2>6, <2>7 DEF IInv, FsSide
<1> QED
  BY <1>a, <1>b

LEMMA MountsIInv ==
  ASSUME IInv, InitFileSystem \/ MountAgain \/ Attempt
  PROVE  IInv'
<1>1. CASE InitFileSystem
  <2>1. At(pc) /\ pc = "init" /\ spent' = 0 /\ Mount("init")
    BY <1>1 DEF InitFileSystem, At
  <2> QED
    BY <2>1, MountIInv
<1>2. CASE MountAgain
  <2>1. At(pc) /\ pc = "again" /\ spent' = spent /\ Mount("formatted")
    BY <1>2 DEF MountAgain, At
  <2> QED
    BY <2>1, MountIInv
<1>3. CASE Attempt
  <2>1. At(pc) /\ pc = "usb" /\ spent' = 0 /\ Mount("attempt")
    BY <1>3 DEF Attempt, At
  <2> QED
    BY <2>1, MountIInv
<1> QED
  BY <1>1, <1>2, <1>3

LEMMA FatFsIInv == IInv /\ FatFsStep => IInv'
<1> SUFFICES ASSUME IInv, FatFsStep PROVE IInv'
  OBVIOUS
<1>1. CASE \/ EnableEmmcIrq \/ BootSector \/ Entry \/ Partition \/ FsInfo
           \/ Decide \/ MakeFs \/ VbrWritten \/ InfoWritten \/ FatWritten \/ Synced \/ FormatEnds
  BY <1>1, EnableEmmcIrqIInv, BootSectorIInv, EntryIInv, PartitionIInv, FsInfoIInv,
     DecideIInv, MakeFsIInv, VbrWrittenIInv, InfoWrittenIInv, FatWrittenIInv, SyncedIInv,
     FormatEndsIInv
<1>2. CASE \/ InitFileSystem \/ MountAgain \/ MountedAgain \/ Unmount
           \/ AttemptMounted \/ OpenDir \/ DirMounted \/ ReadOn \/ FindEnds
           \/ DeleteBegins \/ DeleteOn \/ DeleteEnds
  BY <1>2, MountsIInv, MountedAgainIInv, UnmountIInv, AttemptMountedIInv, OpenDirIInv,
     DirMountedIInv, ReadOnIInv, FindEndsIInv, DeleteBeginsIInv, DeleteOnIInv, DeleteEndsIInv
<1> QED
  BY <1>1, <1>2 DEF FatFsStep

----------------------------------------------------------------------------
(* What leaves FatFs and its callers alone.                                *)
LEMMA FsFrame ==
  ASSUME FsSide, UNCHANGED <<diskVars, bootVars, medium>>, pc # "main" => capacity' = capacity
  PROVE  FsSide'
<1>1. /\ UNCHANGED <<iopc, op, result, initialized, formatting, ioAge, transferAge, callAge, polled>>
      /\ UNCHANGED <<pc, caller, fmt, fsType, entry, left, ready, spent, formatted, sector0, parts>>
  BY DEF diskVars, bootVars, medium
<1>2. Ages' /\ FsTypes' /\ MediumTypes'
  BY <1>1 DEF FsSide, Ages, FsTypes, MediumTypes
<1>3. Believed'
  BY <1>1 DEF FsSide, Believed, NotInitialized, NoneBefore, MayFormat, NoFat32
<1>4. Reported' /\ Modes'
  BY <1>1 DEF FsSide, Reported, Whole, Modes
<1>5. Limits' /\ Spent' /\ InTime'
  BY <1>1 DEF FsSide, Limits, OperationTimeout, Spent, InTime
<1> QED
  BY <1>2, <1>3, <1>4, <1>5 DEF FsSide

(* The card and the controller.                                            *)
LEMMA ControllerIInv ==
  ASSUME IInv, CommandEnds \/ BlockEnds \/ Programmed, UNCHANGED <<sdVars, diskVars, bootVars, medium>>
  PROVE  IInv'
<1>1. FsSide'
  BY FsFrame DEF IInv, sdVars
<1>2. /\ UNCHANGED <<sdpc, tries, card, wide, fast, hostWide, fastClock, capacity>>
      /\ UNCHANGED <<iopc, op, result, initialized, formatting, polled, pc, irq>>
  BY DEF sdVars, diskVars, bootVars, CommandEnds, BlockEnds, Programmed
<1>3. SdTypeOK' /\ DiskTypes' /\ Calls' /\ Results'
  BY <1>2 DEF IInv, DiskSide, SdTypeOK, DiskTypes, Calls, Results, NotInitialized
<1>4. EmmcTypeOK'
  BY DEF IInv, DiskSide, EmmcTypeOK, Flags, CommandEnds, BlockEnds, Programmed
<1>5. Bus'
  BY <1>2 DEF IInv, DiskSide, EmmcTypeOK, Bus, AtRest, Commands, CommandEnds, BlockEnds, Programmed
<1>6. Width'
  BY <1>2 DEF IInv, DiskSide, Bus, AtRest, Commands, Width, DataPcs, CommandEnds, BlockEnds, Programmed
<1> QED
  BY <1>1, <1>3, <1>4, <1>5, <1>6 DEF IInv, DiskSide

\* SD_do_init runs before anything else uses the controller.
LEMMA SdFrame ==
  ASSUME IInv, sdpc # "ok", UNCHANGED <<diskVars, bootVars, medium, irq>>
  PROVE  FsSide' /\ DiskTypes' /\ Calls' /\ Results' /\ pc = "main" /\ iopc = "idle"
<1>1. pc = "main" /\ iopc = "idle"
  BY DEF IInv, DiskSide, Calls, CallPcs
<1>2. UNCHANGED <<iopc, op, result, initialized, formatting, polled, pc, irq>>
  BY DEF diskVars, bootVars
<1>3. FsSide'
  BY <1>1, FsFrame DEF IInv
<1>4. DiskTypes' /\ Calls' /\ Results'
  BY <1>1, <1>2 DEF IInv, DiskSide, DiskTypes, Calls, Results, CallPcs
<1> QED
  BY <1>1, <1>3, <1>4

LEMMA PowerOnIInv ==
  ASSUME IInv, PowerOn, UNCHANGED <<diskVars, bootVars, medium>>
  PROVE  IInv'
<1>1. /\ sdpc = "off" /\ sdpc' = "cmd8" /\ tries' = 0
      /\ UNCHANGED <<card, wide, fast, hostWide, fastClock, capacity>>
      /\ UNCHANGED <<flags, irq, dma, bus, dat0low>>
  BY DEF PowerOn, emmcVars
<1>2. FsSide' /\ DiskTypes' /\ Calls' /\ Results' /\ iopc = "idle" /\ iopc' = "idle"
  BY <1>1, SdFrame DEF diskVars
<1>3. EmmcTypeOK' /\ Bus' /\ Width'
  BY <1>1, <1>2 DEF IInv, DiskSide, EmmcTypeOK, Bus, AtRest, Width, DataPcs
<1>4. SdTypeOK'
  BY <1>1 DEF IInv, DiskSide, SdTypeOK, CommandPcs, CMD8_TRIES
<1> QED
  BY <1>2, <1>3, <1>4 DEF IInv, DiskSide

\* tries counts the attempts at the command being repeated.
LEMMA RetryType ==
  ASSUME SdTypeOK, NEW max \in Nat \ {0}, NEW done \in BOOLEAN, NEW next \in CommandPcs,
         \/ sdpc = "cmd8" /\ max = CMD8_TRIES
         \/ sdpc = "acmd41" /\ max = OCR_TRIES,
         next = "acmd41" \/ next = "cmd2", Retry(done, max, next)
  PROVE  /\ sdpc' \in {sdpc, next, "failed"}
         /\ tries' \in 0 .. CASE sdpc' = "cmd8" -> CMD8_TRIES - 1
                            [] sdpc' = "acmd41" -> OCR_TRIES - 1
                            [] OTHER -> CMD8_TRIES + OCR_TRIES
<1>1. tries \in 0 .. max - 1
  BY DEF SdTypeOK, CMD8_TRIES
<1>2. CASE done
  BY <1>2 DEF Retry, CMD8_TRIES
<1>3. CASE ~done
  BY <1>1, <1>3 DEF Retry, CMD8_TRIES
<1> QED
  BY <1>2, <1>3

LEMMA RepeatedIInv ==
  ASSUME IInv, SendIfCond \/ SDReadOCR, UNCHANGED <<diskVars, bootVars, medium>>
  PROVE  IInv'
<1>1. /\ sdpc \in {"cmd8", "acmd41"}
      /\ UNCHANGED <<wide, fast, hostWide, fastClock, capacity>>
      /\ UNCHANGED <<flags, irq, dma, bus, dat0low>>
  BY DEF SendIfCond, SDReadOCR, emmcVars
<1>2. FsSide' /\ DiskTypes' /\ Calls' /\ Results' /\ iopc = "idle" /\ iopc' = "idle"
  BY <1>1, SdFrame DEF diskVars
<1>3. /\ sdpc' \in {"cmd8", "acmd41", "cmd2", "failed"}
      /\ tries' \in 0 .. CASE sdpc' = "cmd8" -> CMD8_TRIES - 1
                         [] sdpc' = "acmd41" -> OCR_TRIES - 1
                         [] OTHER -> CMD8_TRIES + OCR_TRIES
      /\ card' \in {card, "ready"}
  <2>1. CASE SendIfCond
    <3>1. PICK a \in Answers({"idle"}) : Retry(a.success, CMD8_TRIES, "acmd41")
      BY <2>1 DEF SendIfCond
    <3>2. a.success \in BOOLEAN /\ sdpc = "cmd8" /\ card' = card
      BY <2>1 DEF Answers, SendIfCond
    <3>3. CMD8_TRIES \in Nat \ {0} /\ "acmd41" \in CommandPcs
      BY DEF CMD8_TRIES, CommandPcs
    <3> QED
      BY <3>1, <3>2, <3>3, RetryType DEF IInv, DiskSide
  <2>2. CASE SDReadOCR
    <3>1. PICK a \in Answers({"idle"}), poweredUp \in BOOLEAN :
            Retry(a.success /\ poweredUp, OCR_TRIES, "cmd2")
      BY <2>2 DEF SDReadOCR
    <3>2. (a.success /\ poweredUp) \in BOOLEAN /\ sdpc = "acmd41" /\ card' \in {card, "ready"}
      BY <2>2 DEF SDReadOCR
    <3>3. "cmd2" \in CommandPcs
      BY DEF CommandPcs
    <3> QED
      BY <3>1, <3>2, <3>3, RetryType DEF IInv, DiskSide
  <2> QED
    BY <2>1, <2>2
<1>4. SdTypeOK'
  BY <1>1, <1>3 DEF IInv, DiskSide, SdTypeOK, CommandPcs
<1>5. EmmcTypeOK' /\ Bus' /\ Width'
  BY <1>1, <1>2, <1>3 DEF IInv, DiskSide, EmmcTypeOK, Bus, AtRest, Width, DataPcs
<1> QED
  BY <1>2, <1>4, <1>5 DEF IInv, DiskSide

\* The commands between the power-up and the data phases.
LEMMA CommandsIInv ==
  ASSUME IInv, ReadCID \/ SDSetRCA \/ SelectCard \/ SDReadCSD \/ SDSetBusWidth \/ RaiseClock,
         UNCHANGED <<diskVars, bootVars, medium>>
  PROVE  IInv'
<1>1. /\ \/ sdpc \in {"cmd2", "cmd3", "cmd9", "cmd7"} /\ sdpc' \in {"cmd3", "cmd9", "cmd7", "acmd6", "failed"}
            /\ UNCHANGED <<wide, hostWide>>
         \/ sdpc = "acmd6" /\ sdpc' = "failed" /\ wide' \in BOOLEAN /\ hostWide' \in BOOLEAN
         \/ sdpc = "acmd6" /\ sdpc' = "acmd51" /\ wide' = TRUE /\ hostWide' = TRUE
         \/ sdpc = "clock" /\ sdpc' = "ok" /\ UNCHANGED <<wide, hostWide, card>>
      /\ card' \in {card, "ident", "stby", "tran"} /\ capacity' \in {capacity, "none", "small", "large"}
      /\ fastClock' \in {fastClock, TRUE} /\ UNCHANGED <<tries, fast>>
      /\ UNCHANGED <<flags, irq, dma, bus, dat0low>>
  BY DEF ReadCID, SDSetRCA, SelectCard, SDReadCSD, SDSetBusWidth, RaiseClock, Identify, Step,
     Answers, emmcVars
<1>2. FsSide' /\ DiskTypes' /\ Calls' /\ Results' /\ iopc = "idle" /\ iopc' = "idle"
  BY <1>1, SdFrame DEF diskVars
<1>3. SdTypeOK'
  <2>1. tries' \in 0 .. CASE sdpc' = "cmd8" -> CMD8_TRIES - 1
                         [] sdpc' = "acmd41" -> OCR_TRIES - 1
                         [] OTHER -> CMD8_TRIES + OCR_TRIES
    BY <1>1 DEF IInv, DiskSide, SdTypeOK
  <2>2. /\ wide' \in BOOLEAN /\ hostWide' \in BOOLEAN /\ fast' \in BOOLEAN /\ fastClock' \in BOOLEAN
        /\ card' \in {"idle", "ready", "ident", "stby", "tran"}
    BY <1>1 DEF IInv, DiskSide, SdTypeOK
  <2>3. sdpc' \in CommandPcs \cup DataPcs \cup {"off", "clock", "ok", "failed"}
    BY <1>1 DEF CommandPcs
  <2> QED
    BY <1>1, <2>1, <2>2, <2>3 DEF IInv, DiskSide, SdTypeOK
<1>4. EmmcTypeOK' /\ Bus'
  BY <1>1, <1>2 DEF IInv, DiskSide, EmmcTypeOK, Bus, AtRest, DataPcs
<1>5. Width'
  BY <1>1, <1>2 DEF IInv, DiskSide, Width, Bus, AtRest, DataPcs
<1> QED
  BY <1>2, <1>3, <1>4, <1>5 DEF IInv, DiskSide

\* The commands with a data phase, and its end.
LEMMA DataIInv ==
  ASSUME IInv, SD_ReadSCR \/ ScrRead \/ SD_SwitchFunction \/ SwitchStatusRead,
         UNCHANGED <<diskVars, bootVars, medium>>
  PROVE  IInv'
<1>1. /\ sdpc \in {"acmd51", "check", "switch"} \cup DataPcs /\ sdpc # "ok"
      /\ UNCHANGED <<tries, card, wide, hostWide, fastClock, capacity, irq, dat0low>>
      /\ fast' \in BOOLEAN
      /\ sdpc \in DataPcs => "TRANDONE" \in flags
  BY DEF SD_ReadSCR, ScrRead, SD_SwitchFunction, SwitchStatusRead, DataPcs, emmcVars,
     IInv, DiskSide, SdTypeOK
<1>2. FsSide' /\ DiskTypes' /\ Calls' /\ Results' /\ iopc = "idle" /\ iopc' = "idle"
  BY <1>1, SdFrame DEF diskVars
<1>3. AtRest \/ (sdpc \in DataPcs /\ bus = "none" /\ ~dma)
  BY <1>1, <1>2 DEF IInv, DiskSide, Bus
<1>4. /\ flags' = {} /\ (bus' = "none" \/ (bus' = "read" /\ dma' /\ sdpc' \in DataPcs)) /\ dma' \in BOOLEAN
      /\ sdpc' \in {"failed", "check", "switch", "clock"} => bus' = "none" /\ ~dma'
      /\ sdpc' \in {"failed", "check", "switch", "clock"} \cup DataPcs
  <2>1. dma = FALSE /\ bus = "none"
    BY <1>3 DEF AtRest, IInv, DiskSide, EmmcTypeOK
  <2>2. CASE SD_ReadSCR
    <3>1. flags = {}
      BY <1>3, <2>2 DEF AtRest, SD_ReadSCR, DataPcs
    <3> QED
      BY <2>1, <2>2, <3>1 DEF SD_ReadSCR, DataPcs, emmcVars
  <2>3. CASE SD_SwitchFunction
    BY <2>1, <2>3 DEF SD_SwitchFunction, DataPcs
  <2>4. CASE ScrRead \/ SwitchStatusRead
    BY <2>1, <2>4 DEF ScrRead, SwitchStatusRead
  <2> QED
    BY <2>2, <2>3, <2>4
<1>5. SdTypeOK'
  BY <1>1, <1>4 DEF IInv, DiskSide, SdTypeOK, CommandPcs, DataPcs
<1>6. EmmcTypeOK' /\ Bus'
  BY <1>1, <1>2, <1>4 DEF IInv, DiskSide, EmmcTypeOK, Bus, AtRest, DataPcs, Commands
<1>7. Width'
  <2>1. sdpc' # "failed" => hostWide = wide
    BY <1>1 DEF IInv, DiskSide, Width, DataPcs
  <2>2. sdpc' \in {"scrData", "check", "checkData", "switch", "switchData", "clock"} => card = "tran"
    BY <1>1 DEF SD_ReadSCR, ScrRead, SD_SwitchFunction, SwitchStatusRead, Answers, IInv, DiskSide,
       Width, DataPcs
  <2>3. sdpc' \in DataPcs /\ bus' = "read" => card = "tran"
    BY <1>1, <1>3, <2>2 DEF SD_ReadSCR, ScrRead, SD_SwitchFunction, SwitchStatusRead, Answers, DataPcs,
       AtRest
  <2> QED
    BY <1>1, <1>4, <2>1, <2>2, <2>3 DEF Width, DataPcs
<1> QED
  BY <1>2, <1>5, <1>6, <1>7 DEF IInv, DiskSide

----------------------------------------------------------------------------
(* The loops of a disk call.                                               *)

\* initialized is only ever reset here: what FatFs believes remains true.
LEMMA CallFrame ==
  ASSUME IInv, iopc # "idle", initialized' => initialized,
         UNCHANGED <<sdVars, bootVars, medium, formatting, ioAge, transferAge, callAge>>,
         iopc' # "idle" /\ polled' => ioAge < OperationTimeout
  PROVE  FsSide' /\ SdTypeOK' /\ pc \in CallPcs /\ pc' = pc /\ sdpc = "ok"
<1>1. /\ UNCHANGED <<sdpc, tries, card, wide, fast, hostWide, fastClock, capacity>>
      /\ UNCHANGED <<pc, caller, fmt, fsType, entry, left, ready, spent, formatted, sector0, parts>>
  BY DEF sdVars, bootVars, medium
<1>2. pc \in CallPcs /\ sdpc = "ok"
  BY DEF IInv, DiskSide, Calls, CallPcs
<1>3. Ages' /\ FsTypes' /\ MediumTypes' /\ SdTypeOK'
  BY <1>1 DEF IInv, DiskSide, SdTypeOK, FsSide, Ages, FsTypes, MediumTypes
<1>4. Believed'
  <2>1. ~NotInitialized' => ~NotInitialized
    BY <1>1 DEF NotInitialized
  <2> QED
    BY <1>1, <1>2, <2>1 DEF IInv, FsSide, Believed, NoneBefore, CallPcs
<1>5. Reported' /\ Modes'
  BY <1>1 DEF IInv, FsSide, Reported, Whole, Modes
<1>6. Limits'
  BY <1>1 DEF IInv, FsSide, Limits, OperationTimeout
<1>7. Spent' /\ InTime'
  BY <1>1 DEF IInv, FsSide, Spent, InTime
<1> QED
  BY <1>1, <1>2, <1>3, <1>4, <1>5, <1>6, <1>7 DEF FsSide

\* A call ends: the controller is reset if it failed, and was done if not.
LEMMA FinishIoIInv ==
  ASSUME IInv, iopc # "idle", NEW success \in BOOLEAN, FinishIo(success),
         success => bus = "none" /\ ~dma, UNCHANGED <<sdVars, bootVars, medium>>
  PROVE  IInv'
<1>1. /\ iopc' = "idle" /\ result' = (IF success THEN "ok" ELSE "error")
      /\ initialized' = (initialized /\ success) /\ flags' = {} /\ irq' = TRUE
      /\ bus' = "none" /\ ~dma' /\ dma' \in BOOLEAN
      /\ UNCHANGED <<op, formatting, ioAge, transferAge, callAge, polled, dat0low>>
  BY DEF FinishIo, IInv, DiskSide, EmmcTypeOK, DiskTypes
<1>2. FsSide' /\ SdTypeOK' /\ pc \in CallPcs /\ pc' = pc /\ sdpc = "ok"
  BY <1>1, CallFrame
<1>3. sdpc' = "ok" /\ capacity' = capacity /\ UNCHANGED <<hostWide, wide, card>>
  BY <1>2 DEF sdVars
<1>4. EmmcTypeOK' /\ DiskTypes'
  BY <1>1 DEF IInv, DiskSide, EmmcTypeOK, DiskTypes
<1>5. Calls' /\ Bus'
  BY <1>1, <1>2, <1>3 DEF Calls, CallPcs, Bus, AtRest
<1>6. Width'
  BY <1>1, <1>2, <1>3 DEF IInv, DiskSide, Width, DataPcs
<1>7. Results'
  BY <1>1, <1>2, <1>3 DEF IInv, DiskSide, DiskTypes, Results, NotInitialized, CallPcs
<1> QED
  BY <1>2, <1>4, <1>5, <1>6, <1>7 DEF IInv, DiskSide

\* One more pass of a loop, for nothing.
LEMMA PollIInv ==
  ASSUME IInv, iopc # "idle", ~IoFailed, Poll, UNCHANGED <<sdVars, bootVars, medium>>
  PROVE  IInv'
<1>1. /\ polled' = TRUE /\ UNCHANGED <<flags, irq, dma, bus, dat0low>>
      /\ UNCHANGED <<iopc, op, result, initialized, formatting, ioAge, transferAge, callAge>>
  BY DEF Poll, emmcVars
<1>2. ioAge < OperationTimeout
  BY DEF IInv, FsSide, Ages, IoFailed, OperationTimeout
<1>3. FsSide' /\ SdTypeOK' /\ pc' = pc /\ sdpc = "ok"
  BY <1>1, <1>2, CallFrame
<1>4. UNCHANGED <<sdpc, capacity, hostWide, wide, card>>
  BY DEF sdVars
<1>5. EmmcTypeOK' /\ DiskTypes' /\ Calls' /\ Results'
  BY <1>1, <1>3, <1>4 DEF IInv, DiskSide, EmmcTypeOK, DiskTypes, Calls, Results, NotInitialized
<1>6. Bus' /\ Width'
  BY <1>1, <1>3, <1>4 DEF IInv, DiskSide, Bus, AtRest, Width
<1> QED
  BY <1>3, <1>5, <1>6 DEF IInv, DiskSide

\* On to the next loop, with what it does on the bus.
LEMMA GoOnIInv ==
  ASSUME IInv, iopc # "idle", ~IoFailed, UNCHANGED <<sdVars, bootVars, medium>>,
         \/ iopc = "ready" /\ GoOn("command") /\ SendCommand
         \/ /\ iopc = "command" /\ "CMDDONE" \in flags /\ GoOn("data")
            /\ flags' = flags \ {"CMDDONE"} /\ dma' = (dma \/ op = "write")
            /\ UNCHANGED <<irq, bus, dat0low>>
         \/ /\ iopc = "data" /\ "TRANDONE" \in flags /\ GoOn("programming")
            /\ flags' = flags \ {"TRANDONE"} /\ UNCHANGED <<irq, dma, bus, dat0low>>
  PROVE  IInv'
<1>1. /\ polled' = TRUE /\ iopc' \in {"command", "data", "programming"} /\ UNCHANGED <<irq, dat0low>>
      /\ UNCHANGED <<op, result, initialized, formatting, ioAge, transferAge, callAge>>
  BY DEF GoOn, SendCommand
<1>2. ioAge < OperationTimeout
  BY DEF IInv, FsSide, Ages, IoFailed, OperationTimeout
<1>3. FsSide' /\ SdTypeOK' /\ pc \in CallPcs /\ pc' = pc /\ sdpc = "ok"
  BY <1>1, <1>2, CallFrame
<1>4. UNCHANGED <<sdpc, capacity, hostWide, wide, card>>
  BY DEF sdVars
<1>5. DiskTypes' /\ Calls' /\ Results'
  BY <1>1, <1>3, <1>4 DEF IInv, DiskSide, DiskTypes, Loops, Calls, Results, NotInitialized, CallPcs
<1>6. EmmcTypeOK'
  BY <1>1 DEF IInv, DiskSide, EmmcTypeOK, Flags, SendCommand
<1>7. Bus'
  BY <1>1, <1>3, <1>4 DEF IInv, DiskSide, EmmcTypeOK, DiskTypes, Bus, AtRest, Commands, DataPcs,
     GoOn, SendCommand
<1>8. Width'
  BY <1>1, <1>3, <1>4 DEF IInv, DiskSide, Width, DataPcs
<1> QED
  BY <1>3, <1>5, <1>6, <1>7, <1>8 DEF IInv, DiskSide

LEMMA DiskStepIInv ==
  ASSUME IInv, DiskStep, UNCHANGED <<sdVars, bootVars, medium>>
  PROVE  IInv'
<1>1. iopc # "idle"
  BY DEF DiskStep, WaitForReady, WaitForCommand, WaitForData, WaitForCard
<1>2. CASE IoFailed
  <2>1. FinishIo(FALSE)
    BY <1>2 DEF DiskStep, WaitForReady, WaitForCommand, WaitForData, WaitForCard
  <2> QED
    BY <1>1, <2>1, FinishIoIInv
<1>3. CASE ~IoFailed /\ Poll
  BY <1>1, <1>3, PollIInv
<1>4. CASE ~IoFailed /\ ~Poll /\ iopc \in {"programming", "sync"}
  <2>1. FinishIo(TRUE)
    BY <1>4 DEF DiskStep, WaitForReady, WaitForCommand, WaitForData, WaitForCard
  <2>2. bus = "none" /\ ~dma
    BY <1>4 DEF IInv, DiskSide, Calls, CallPcs, Bus, AtRest, DataPcs
  <2> QED
    BY <1>1, <2>1, <2>2, FinishIoIInv
<1>5. CASE ~IoFailed /\ ~Poll /\ iopc \notin {"programming", "sync"}
  <2>1. \/ iopc = "ready" /\ GoOn("command") /\ SendCommand
        \/ /\ iopc = "command" /\ "CMDDONE" \in flags /\ GoOn("data")
           /\ flags' = flags \ {"CMDDONE"} /\ dma' = (dma \/ op = "write")
           /\ UNCHANGED <<irq, bus, dat0low>>
        \/ /\ iopc = "data" /\ "TRANDONE" \in flags /\ GoOn("programming")
           /\ flags' = flags \ {"TRANDONE"} /\ UNCHANGED <<irq, dma, bus, dat0low>>
    BY <1>5 DEF DiskStep, WaitForReady, WaitForCommand, WaitForData, WaitForCard
  <2> QED
    BY <1>1, <1>5, <2>1, GoOnIInv
<1> QED
  BY <1>2, <1>3, <1>4, <1>5

----------------------------------------------------------------------------
(* Time passes while a call polls: what it costs the operation it costs    *)
(* io_started_ticks as well.                                               *)
LEMMA OlderByOne ==
  ASSUME NEW age \in 0 .. FORMAT_TIMEOUT
  PROVE  Older(age) \in 0 .. FORMAT_TIMEOUT /\ (age < FORMAT_TIMEOUT => Older(age) = age + 1)
BY DEF Older

LEMMA ClockIInv == IInv /\ Clock => IInv'
<1> SUFFICES ASSUME IInv, Clock PROVE IInv'
  OBVIOUS
<1>1. /\ UNCHANGED <<sdpc, tries, card, wide, fast, hostWide, fastClock, capacity>>
      /\ UNCHANGED <<flags, irq, dma, bus, dat0low, iopc, op, result, initialized, formatting>>
      /\ UNCHANGED <<pc, caller, fmt, fsType, entry, left, ready, formatted, sector0, parts>>
      /\ polled /\ polled' = FALSE /\ iopc \in Loops
      /\ ioAge' = Older(ioAge) /\ transferAge' = Older(transferAge) /\ callAge' = Older(callAge)
      /\ spent' = IF spent = MaxSpent THEN spent ELSE spent + 1
  BY DEF Clock, Tick, sdVars, emmcVars, medium
<1>2. /\ iopc # "idle" /\ pc \in CallPcs /\ transferAge = callAge /\ ioAge < OperationTimeout
  BY <1>1 DEF IInv, DiskSide, Calls, FsSide, Limits, Loops
<1>3. /\ Ages' /\ ioAge' = ioAge + 1 /\ transferAge' = callAge'
      /\ ioAge \in Int /\ ioAge' <= OperationTimeout
  <2>1. ioAge \in 0 .. FORMAT_TIMEOUT /\ transferAge \in 0 .. FORMAT_TIMEOUT /\ callAge \in 0 .. FORMAT_TIMEOUT
    BY DEF IInv, FsSide, Ages
  <2>2. ioAge < FORMAT_TIMEOUT
    BY <1>2, <2>1 DEF OperationTimeout
  <2>3. Ages' /\ ioAge' = ioAge + 1
    BY <1>1, <2>1, <2>2, OlderByOne DEF Ages
  <2>4. transferAge' = callAge'
    BY <1>1, <1>2
  <2>5. ioAge' <= OperationTimeout
    BY <1>2, <2>1, <2>3 DEF OperationTimeout
  <2> QED
    BY <2>1, <2>3, <2>4, <2>5
<1>4. DiskSide'
  <2>1. EmmcTypeOK' /\ Calls' /\ Results'
    BY <1>1 DEF IInv, DiskSide, EmmcTypeOK, Calls, Results, NotInitialized
  <2>2. DiskTypes'
    BY <1>1 DEF IInv, DiskSide, DiskTypes
  <2>3. SdTypeOK'
    BY <1>1 DEF IInv, DiskSide, SdTypeOK
  <2>4. Bus' /\ Width'
    BY <1>1 DEF IInv, DiskSide, Bus, AtRest, Width
  <2> QED
    BY <2>1, <2>2, <2>3, <2>4 DEF DiskSide
<1>5. spent \in 0 .. MaxSpent /\ MaxSpent \in Nat /\ spent' \in 0 .. MaxSpent /\ spent' <= spent + 1
  <2>1. spent \in 0 .. MaxSpent /\ MaxSpent \in Nat
    BY DEF IInv, FsSide, FsTypes, MaxSpent
  <2> QED
    BY <1>1, <2>1
<1>6. FsTypes' /\ MediumTypes' /\ Believed' /\ Reported' /\ Modes'
  BY <1>1, <1>5 DEF IInv, FsSide, FsTypes, MediumTypes, Believed, NotInitialized, NoneBefore, MayFormat,
     NoFat32, Reported, Whole, Modes
<1>7. Limits'
  BY <1>1, <1>3 DEF Limits, OperationTimeout
<1>8. Spent'
  BY <1>1, <1>2, <1>3, <1>5 DEF IInv, FsSide, Spent, MountPcs, CallPcs
<1>9. InTime'
  <2>1. /\ ~formatting => ioAge' <= FILE_IO_TIMEOUT
        /\ ioAge' <= FORMAT_TIMEOUT
        /\ pc \notin FormatPcs => ~formatting
    BY <1>3 DEF OperationTimeout, IInv, FsSide, Modes, DiskSide, DiskTypes
  <2>2. pc' = pc /\ caller' = caller
    BY <1>1
  <2>3. CASE pc \in MountPcs
    BY <1>2, <1>3, <1>5, <1>8, <2>1, <2>2, <2>3
    DEF Spent, InTime, MountPcs, FormatPcs, IInv, FsSide, FsTypes
  <2>4. CASE pc \in {"vbr", "info", "fat", "sync"}
    BY <1>2, <1>3, <1>5, <1>8, <2>1, <2>2, <2>4
    DEF Spent, InTime, FormatPcs, IInv, FsSide, Modes
  <2>5. CASE pc \in {"found", "deleted"}
    BY <1>2, <1>3, <1>5, <1>8, <2>1, <2>2, <2>5
    DEF Spent, InTime, FormatPcs, IInv, FsSide, Modes
  <2> QED
    BY <1>2, <2>3, <2>4, <2>5 DEF CallPcs, MountPcs
<1> QED
  BY <1>3, <1>4, <1>6, <1>7, <1>8, <1>9 DEF IInv, FsSide

----------------------------------------------------------------------------
(* After a loss of power everything starts over, but for the medium.       *)
LEMMA PowerLossIInv == IInv /\ PowerLoss => IInv'
<1> SUFFICES ASSUME IInv, PowerLoss PROVE IInv'
  OBVIOUS
<1>1. EmmcTypeOK' /\ DiskTypes'
  BY DEF PowerLoss, EmmcTypeOK, Flags, DiskTypes, Loops
<1>2. SdTypeOK'
  <2>1. sdpc' = "off" /\ tries' = 0 /\ 0 \in 0 .. CMD8_TRIES + OCR_TRIES
    BY DEF PowerLoss, CMD8_TRIES
  <2>2. tries' \in 0 .. CASE sdpc' = "cmd8" -> CMD8_TRIES - 1
                          [] sdpc' = "acmd41" -> OCR_TRIES - 1
                          [] OTHER -> CMD8_TRIES + OCR_TRIES
    BY <2>1
  <2>3. /\ sdpc' \in CommandPcs \cup DataPcs \cup {"off", "clock", "ok", "failed"}
        /\ card' \in {"idle", "ready", "ident", "stby", "tran"}
        /\ wide' \in BOOLEAN /\ fast' \in BOOLEAN /\ hostWide' \in BOOLEAN /\ fastClock' \in BOOLEAN
        /\ capacity' \in {"none", "small", "large"}
    BY DEF PowerLoss
  <2> QED
    BY <2>2, <2>3, Zenon DEF SdTypeOK
<1>3. Calls' /\ Bus' /\ Width' /\ Results'
  BY DEF PowerLoss, Calls, CallPcs, Bus, AtRest, Commands, Width, DataPcs, Results
<1>4. Ages' /\ FsTypes'
  <2>1. 0 \in 0 .. FORMAT_TIMEOUT /\ 0 \in 0 .. MaxSpent /\ 0 \in 0 .. WRITES /\ 1 \in 1 .. PARTS + 1
    BY DEF MaxSpent
  <2> QED
    BY <2>1 DEF PowerLoss, Ages, FsTypes
<1>5. MediumTypes'
  BY DEF PowerLoss, IInv, FsSide, MediumTypes, medium, SectorKinds, NoParts, PartKinds
<1>6. Believed' /\ Reported'
  BY DEF PowerLoss, Believed, Reported, MountPcs, FormatPcs
<1>7. Modes' /\ Limits' /\ Spent' /\ InTime'
  BY DEF PowerLoss, Modes, Limits, Spent, MountPcs, FormatPcs, OperationTimeout, InTime
<1> QED
  BY <1>1, <1>2, <1>3, <1>4, <1>5, <1>6, <1>7 DEF IInv, DiskSide, FsSide

----------------------------------------------------------------------------
LEMMA SdStepIInv ==
  ASSUME IInv, SdStep, UNCHANGED <<diskVars, bootVars, medium>>
  PROVE  IInv'
BY RepeatedIInv, CommandsIInv, DataIInv DEF SdStep

LEMMA AttemptIInv == IInv /\ Attempt => IInv'
BY MountsIInv

LEMMA StutterIInv == IInv /\ UNCHANGED vars => IInv'
<1> SUFFICES ASSUME IInv, UNCHANGED vars PROVE IInv'
  OBVIOUS
<1>1. /\ UNCHANGED <<sdpc, tries, card, wide, fast, hostWide, fastClock, capacity>>
      /\ UNCHANGED <<flags, irq, dma, bus, dat0low, iopc, op, result, initialized, formatting, polled, pc>>
  BY DEF vars, sdVars, emmcVars, diskVars, bootVars
<1>2. FsSide'
  BY <1>1, FsFrame DEF IInv, vars
<1>3. DiskSide'
  BY <1>1 DEF IInv, DiskSide, EmmcTypeOK, SdTypeOK, DiskTypes, Calls, Bus, AtRest, Width, Results,
     NotInitialized
<1> QED
  BY <1>2, <1>3 DEF IInv

LEMMA StepIInv == IInv /\ [Next]_vars => IInv'
<1> SUFFICES ASSUME IInv, [Next]_vars PROVE IInv'
  OBVIOUS
<1>1. CASE SdStep /\ UNCHANGED <<diskVars, bootVars, medium>>
  BY <1>1, SdStepIInv
<1>2. CASE DiskStep /\ UNCHANGED <<sdVars, bootVars, medium>>
  BY <1>2, DiskStepIInv
<1>3. CASE FatFsStep
  BY <1>3, FatFsIInv
<1>4. CASE Clock
  BY <1>4, ClockIInv
<1>5. CASE Block \/ Others
  BY <1>5, ControllerIInv, PowerOnIInv DEF Block, Others
<1>6. CASE Attempt
  BY <1>6, AttemptIInv
<1>7. CASE PowerLoss
  BY <1>7, PowerLossIInv
<1>8. CASE UNCHANGED vars
  BY <1>8, StutterIInv
<1> QED
  BY <1>1, <1>2, <1>3, <1>4, <1>5, <1>6, <1>7, <1>8 DEF Next, Cpu

----------------------------------------------------------------------------
(* IInv, the inductive invariant, holds of every behaviour: of main,       *)
(* SD_do_init, unlock_file_init and an unlock attempt, with the card       *)
(* failing and power lost at any step.                                     *)
THEOREM BootInvariant == Spec => []IInv
<1>1. Init => IInv
  BY InitIInv
<1>2. IInv /\ [Next]_vars => IInv'
  BY StepIInv
<1> QED
  BY <1>1, <1>2, PTL DEF Spec

(* Every variable keeps its type: in particular neither the attempts of    *)
(* sd.c at a command nor an entry of the MBR passes its bound.             *)
THEOREM BootTypeCorrect == Spec => []TypeOK
<1>1. IInv => TypeOK
  <2> SUFFICES ASSUME IInv PROVE TypeOK
    OBVIOUS
  <2>1. EmmcTypeOK /\ SdTypeOK
    BY DEF IInv, DiskSide
  <2>2. DiskTypeOK
    BY DEF IInv, DiskSide, DiskTypes, FsSide, Ages, DiskTypeOK
  <2> QED
    BY <2>1, <2>2 DEF IInv, FsSide, FsTypes, CallPcs, MediumTypes, TypeOK
<1> QED
  BY <1>1, BootInvariant, PTL

(* SDSetBusWidth: whatever answers were lost, card and controller use the  *)
(* same data lines whenever a block is on the bus.                         *)
THEOREM WidthsAgree == Spec => []WidthAgrees
<1>1. IInv => WidthAgrees
  <2> SUFFICES ASSUME IInv PROVE WidthAgrees
    OBVIOUS
  <2>1. CASE sdpc = "ok"
    BY <2>1 DEF IInv, DiskSide, Width, WidthAgrees
  <2>2. CASE sdpc # "ok" /\ bus \in {"read", "write"}
    BY <2>2 DEF IInv, DiskSide, Bus, Width, WidthAgrees
  <2> QED
    BY <2>1, <2>2 DEF WidthAgrees
<1> QED
  BY <1>1, BootInvariant, PTL

(* unlock_file_init: success means a FAT32 volume, whole unless an earlier *)
(* start-up lost power formatting it.                                      *)
THEOREM ReadyIsWhole == Spec => []ReadyMeansWhole
<1>1. IInv => ReadyMeansWhole
  BY DEF IInv, FsSide, Reported, Whole, ReadyMeansWhole
<1> QED
  BY <1>1, BootInvariant, PTL

(* finish_io and the reset it makes of a failed transfer: between disk     *)
(* calls nothing of them is left in the controller.                        *)
THEOREM EmmcIsQuiet == Spec => []EmmcQuiet
<1>1. IInv => EmmcQuiet
  BY DEF IInv, DiskSide, EmmcTypeOK, Calls, CallPcs, Bus, AtRest, DataPcs, EmmcQuiet
<1> QED
  BY <1>1, BootInvariant, PTL

(* io_failed: start-up and an attempt are over within three limits, for    *)
(* any time limits and volumes of any size.                                *)
THEOREM AlwaysInTime == Spec => []InTime
<1>1. IInv => InTime
  BY DEF IInv, FsSide
<1> QED
  BY <1>1, BootInvariant, PTL

(* unlock_file_init never formats a card that holds the decoy volume, even *)
(* if it could not be read.                                                *)
THEOREM DecoyIsKept == Spec => DecoyKept
<1>1. IInv /\ [Next]_vars => [IsDecoy(sector0, parts) => UNCHANGED medium]_medium
  <2> SUFFICES ASSUME IInv, IsDecoy(sector0, parts), Next PROVE UNCHANGED medium
    BY DEF vars
  <2>1. pc # "vbr" /\ pc # "fat"
    BY DEF IInv, FsSide, Believed, IsDecoy
  <2>2. CASE Cpu
    <3>1. CASE FatFsStep
      BY <2>1, <3>1 DEF FatFsStep, At, EnableEmmcIrq, InitFileSystem, Mount, Found, NotFound,
         BootSector, Entry, Partition, FsInfo, Decide, MakeFs, VbrWritten, InfoWritten,
         FatWritten, Synced, FormatEnds, MountAgain, MountedAgain, Unmount, AttemptMounted,
         OpenDir, DirMounted, ReadOn, FindEnds, DeleteBegins, DeleteOn, DeleteEnds
    <3> QED
      BY <2>2, <3>1 DEF Cpu
  <2>3. CASE Clock \/ Block \/ Others
    BY <2>3 DEF Clock, Block, Others
  <2>4. CASE Attempt
    BY <2>4 DEF Attempt, Mount
  <2>5. CASE PowerLoss
    BY <2>1, <2>5 DEF PowerLoss
  <2> QED
    BY <2>2, <2>3, <2>4, <2>5 DEF Next
<1> QED
  BY <1>1, BootInvariant, PTL DEF Spec, DecoyKept

(* io_failed and begin_transfer: a call fails for the card's sake or the   *)
(* operation's, not for what an earlier call left of the time.             *)
THEOREM FailuresAreReal == Spec => NoFalseFailure
<1>1. IInv /\ [Next]_vars =>
        [Failure => \/ "ERR" \in flags
                    \/ callAge >= FILE_IO_TIMEOUT
                    \/ ioAge >= OperationTimeout]_<<iopc, result>>
  <2> SUFFICES ASSUME IInv, Next, Failure
               PROVE  IoFailed /\ transferAge = callAge
    BY DEF vars, diskVars, IoFailed
  <2>1. iopc # "idle" /\ iopc' = "idle" /\ result' = "error"
    BY DEF Failure
  <2>2. DiskStep
    BY <2>1 DEF Next, Cpu, FatFsStep, At, EnableEmmcIrq, InitFileSystem, BootSector, Entry, Partition,
       FsInfo, Decide, MakeFs, VbrWritten, InfoWritten, FatWritten, Synced, FormatEnds, MountAgain,
       MountedAgain, Unmount, AttemptMounted, OpenDir, DirMounted, ReadOn, FindEnds, DeleteBegins,
       DeleteOn, DeleteEnds, Clock, Tick, Block, Others, Attempt, PowerLoss, diskVars
  <2>3. IoFailed
    BY <2>1, <2>2 DEF DiskStep, WaitForReady, WaitForCommand, WaitForData, WaitForCard, GoOn, Poll,
       FinishIo
  <2> QED
    BY <2>1, <2>3 DEF IInv, FsSide, Limits
<1> QED
  BY <1>1, BootInvariant, PTL DEF Spec, NoFalseFailure

----------------------------------------------------------------------------
(* How much a step takes from what is left.                                *)

\* main and unlock_file_init begin when the clock of start-up does.
Fresh == pc \in {"main", "init"} => spent = 0

LEMMA FreshKept == IInv /\ Fresh /\ [Next]_vars => Fresh'
<1> SUFFICES ASSUME IInv, Fresh, [Next]_vars, pc' \in {"main", "init"} PROVE spent' = 0
  BY DEF Fresh
<1>1. CASE FatFsStep
  <2>1. EnableEmmcIrq
    BY <1>1 DEF FatFsStep, InitFileSystem, Mount, Found, NotFound, BootSector, Entry, Partition,
       FsInfo, Decide, MakeFs, VbrWritten, InfoWritten, FatWritten, Synced, FormatEnds, FormatLeadsTo,
       MountAgain, MountedAgain, Unmount, AttemptMounted, OpenDir, DirMounted, ReadOn, FindEnds,
       DeleteBegins, DeleteOn, DeleteEnds
  <2> QED
    BY <2>1 DEF EnableEmmcIrq, At, Fresh
<1>2. CASE Attempt
  BY <1>2 DEF Attempt
<1>3. CASE Clock
  BY <1>3 DEF Clock, Tick, Loops, IInv, DiskSide, Calls, CallPcs
<1>4. CASE UNCHANGED bootVars
  BY <1>4 DEF bootVars, Fresh
<1>5. CASE PowerLoss
  BY <1>5 DEF PowerLoss
<1> QED
  BY <1>1, <1>2, <1>3, <1>4, <1>5 DEF Next, Cpu, Block, Others, vars

\* Every part of the effort is a number.
Counted == /\ SdLeft \in Nat /\ CardLeft \in Nat /\ CallLeft \in Nat
           /\ TimeLeft \in Nat /\ FsLeft \in Nat

LEMMA IInvCounted == IInv => Counted
<1> SUFFICES ASSUME EmmcTypeOK, SdTypeOK, DiskTypes, FsTypes PROVE Counted
  BY DEF IInv, DiskSide, FsSide
<1>1. SdLeft \in Nat
  BY DEF SdTypeOK, SdLeft, CommandPcs, DataPcs, CMD8_TRIES
<1>2. CardLeft \in Nat
  BY DEF EmmcTypeOK, CardLeft
<1>3. CallLeft \in Nat
  BY DEF DiskTypes, Loops, CallLeft
<1>4. TimeLeft \in Nat
  BY DEF FsTypes, TimeLeft, MaxSpent
<1>5. MountedLeft \in Nat
  BY DEF FsTypes, MountedLeft, MountLeft, FormatLeft
<1>6. entry \in 1 .. PARTS + 1 /\ left \in Nat
  BY DEF FsTypes
<1>7. FsLeft \in Nat
  BY <1>5, <1>6 DEF FsTypes, CallPcs, FsLeft, MountLeft, FormatLeft
<1> QED
  BY <1>1, <1>2, <1>3, <1>4, <1>7 DEF Counted

\* A step may add to some parts as long as it takes more from others.
Falls == Effort' \in 0 .. Effort - 1

LEMMA LessInSum == \A a, b, c \in Nat : a < b => a + c < b + c
  OBVIOUS

LEMMA LessIsFalls ==
  ASSUME Counted, Counted',
         \/ SdLeft' + CardLeft' < SdLeft + CardLeft
            /\ CallLeft' = CallLeft /\ TimeLeft' = TimeLeft /\ FsLeft' = FsLeft
         \/ /\ SdLeft' = SdLeft /\ FsLeft' = FsLeft
            /\ \/ CardLeft' <= CardLeft /\ CallLeft' < CallLeft /\ TimeLeft' = TimeLeft
               \/ CardLeft' + CallLeft' < CardLeft + CallLeft /\ TimeLeft' <= TimeLeft
               \/ CardLeft' = CardLeft /\ CallLeft' = CallLeft /\ TimeLeft' < TimeLeft
               \/ CardLeft' < CardLeft /\ CallLeft' = CallLeft /\ TimeLeft' = TimeLeft
         \/ /\ SdLeft' = SdLeft /\ CardLeft' = CardLeft
            /\ \/ CallLeft' = CallLeft /\ TimeLeft' = TimeLeft /\ FsLeft' + 1 <= FsLeft
               \/ CallLeft' <= 7 /\ TimeLeft' <= TimeLeft + 1 /\ FsLeft' + 9 <= FsLeft
  PROVE  Falls
<1>1. PICK s \in Nat, c \in Nat, k \in Nat, t \in Nat, f \in Nat :
        SdLeft = s /\ CardLeft = c /\ CallLeft = k /\ TimeLeft = t /\ FsLeft = f
  BY DEF Counted
<1>2. PICK s2 \in Nat, c2 \in Nat, k2 \in Nat, t2 \in Nat, f2 \in Nat :
        SdLeft' = s2 /\ CardLeft' = c2 /\ CallLeft' = k2 /\ TimeLeft' = t2 /\ FsLeft' = f2
  BY DEF Counted
<1>3. Effort = s + c + k + t + f /\ Effort' = s2 + c2 + k2 + t2 + f2
  BY <1>1, <1>2 DEF Effort
<1>4. s2 + c2 + k2 + t2 + f2 \in 0 .. (s + c + k + t + f) - 1
  BY <1>1, <1>2
<1> QED
  BY <1>3, <1>4 DEF Falls

\* SD_do_init: the block of a data phase is paid for by the command.
LEMMA SdFalls ==
  ASSUME IInv, Counted, Counted', SdStep, UNCHANGED <<diskVars, bootVars, medium>>
  PROVE  Falls
<1>1. UNCHANGED <<iopc, polled, spent, pc, caller, entry, left>>
  BY DEF diskVars, bootVars
<1>2. CallLeft' = CallLeft /\ TimeLeft' = TimeLeft /\ FsLeft' = FsLeft
  BY <1>1 DEF CallLeft, TimeLeft, FsLeft, MountedLeft
<1>3. SdLeft' + CardLeft' < SdLeft + CardLeft
  <2>1. CASE SendIfCond \/ SDReadOCR
    <3>1. CardLeft' = CardLeft
      BY <2>1 DEF SendIfCond, SDReadOCR, emmcVars, CardLeft
    <3>2. CASE SendIfCond
      <4>1. sdpc = "cmd8" /\ tries \in 0 .. 2
        BY <3>2 DEF SendIfCond, IInv, DiskSide, SdTypeOK, CMD8_TRIES
      <4>2. \/ sdpc' = "acmd41" /\ tries' = 0
            \/ sdpc' = "cmd8" /\ tries' = tries + 1
            \/ sdpc' = "failed"
        BY <3>2 DEF SendIfCond, Retry
      <4> QED
        BY <3>1, <4>1, <4>2 DEF SdLeft, CMD8_TRIES, Counted
    <3>3. CASE SDReadOCR
      <4>1. sdpc = "acmd41" /\ tries \in 0 .. OCR_TRIES - 1
        BY <3>3 DEF SDReadOCR, IInv, DiskSide, SdTypeOK
      <4>2. \/ sdpc' = "cmd2"
            \/ sdpc' = "acmd41" /\ tries' = tries + 1
            \/ sdpc' = "failed"
        BY <3>3 DEF SDReadOCR, Retry
      <4> QED
        BY <3>1, <4>1, <4>2 DEF SdLeft, Counted
    <3> QED
      BY <2>1, <3>2, <3>3
  <2>2. CASE ReadCID \/ SDSetRCA \/ SDReadCSD \/ SelectCard \/ SDSetBusWidth \/ RaiseClock
    <3>1. CardLeft' = CardLeft
      BY <2>2 DEF ReadCID, SDSetRCA, SDReadCSD, SelectCard, SDSetBusWidth, RaiseClock, Identify,
         emmcVars, CardLeft
    <3>2. \/ sdpc = "cmd2" /\ sdpc' \in {"cmd3", "failed"}
          \/ sdpc = "cmd3" /\ sdpc' \in {"cmd9", "failed"}
          \/ sdpc = "cmd9" /\ sdpc' \in {"cmd7", "failed"}
          \/ sdpc = "cmd7" /\ sdpc' \in {"acmd6", "failed"}
          \/ sdpc = "acmd6" /\ sdpc' \in {"acmd51", "failed"}
          \/ sdpc = "clock" /\ sdpc' = "ok"
      BY <2>2 DEF ReadCID, SDSetRCA, SDReadCSD, SelectCard, SDSetBusWidth, RaiseClock, Identify, Step
    <3>3. SdLeft' < SdLeft
      BY <3>2 DEF SdLeft
    <3> QED
      BY <3>1, <3>3, LessInSum DEF Counted
  <2>3. CASE SD_ReadSCR \/ SD_SwitchFunction
    <3>1. bus = "none" /\ sdpc \in {"acmd51", "check", "switch"}
      BY <2>3 DEF SD_ReadSCR, SD_SwitchFunction, IInv, DiskSide, Width, DataPcs
    <3>2. /\ bus' \in {"none", "read"} /\ dat0low' = dat0low
          /\ \/ sdpc = "acmd51" /\ sdpc' \in {"scrData", "scrDataFailed", "failed"}
             \/ sdpc = "check" /\ sdpc' \in {"checkData", "clock"}
             \/ sdpc = "switch" /\ sdpc' = "switchData"
             \/ sdpc = "switch" /\ sdpc' = "clock" /\ bus' = bus
      BY <2>3, <3>1 DEF SD_ReadSCR, SD_SwitchFunction, emmcVars
    <3> QED
      BY <3>1, <3>2 DEF SdLeft, CardLeft
  <2>4. CASE ScrRead \/ SwitchStatusRead
    <3>1. CardLeft' = CardLeft
      BY <2>4 DEF ScrRead, SwitchStatusRead, CardLeft
    <3>2. \/ sdpc \in {"scrData", "scrDataFailed"} /\ sdpc' \in {"check", "failed"}
          \/ sdpc = "checkData" /\ sdpc' \in {"switch", "clock"}
          \/ sdpc = "switchData" /\ sdpc' = "clock"
      BY <2>4 DEF ScrRead, SwitchStatusRead
    <3>3. SdLeft' < SdLeft
      BY <3>2 DEF SdLeft
    <3> QED
      BY <3>1, <3>3, LessInSum DEF Counted
  <2> QED
    BY <2>1, <2>2, <2>3, <2>4 DEF SdStep
<1> QED
  BY <1>2, <1>3, LessIsFalls

\* A pass of a loop that gets on leads to a cheaper one; one that does not
\* uses up the pass of this tick.
LEMMA DiskFalls ==
  ASSUME IInv, Counted, Counted', DiskStep, UNCHANGED <<sdVars, bootVars, medium>>
  PROVE  Falls
<1>1. UNCHANGED <<sdpc, tries, spent, pc, caller, entry, left>>
  BY DEF sdVars, bootVars
<1>2. SdLeft' = SdLeft /\ FsLeft' = FsLeft
  BY <1>1 DEF SdLeft, FsLeft, MountedLeft
<1>3. iopc \in Loops /\ polled \in BOOLEAN /\ spent \in 0 .. MaxSpent /\ MaxSpent \in Nat
  <2>1. iopc # "idle"
    BY DEF DiskStep, WaitForReady, WaitForCommand, WaitForData, WaitForCard
  <2>2. iopc \in Loops /\ polled \in BOOLEAN
    BY <2>1 DEF IInv, DiskSide, DiskTypes
  <2> QED
    BY <2>2 DEF IInv, FsSide, FsTypes, MaxSpent
<1>4. CASE \E success \in BOOLEAN : FinishIo(success)
  <2>1. iopc' = "idle" /\ polled' = polled /\ dat0low' = dat0low /\ bus' \in {bus, "none"}
    BY <1>4 DEF FinishIo
  <2>2. CardLeft' <= CardLeft /\ TimeLeft' = TimeLeft
    BY <1>1, <2>1 DEF CardLeft, TimeLeft, IInv, DiskSide, EmmcTypeOK
  <2>3. CallLeft' < CallLeft
    BY <1>3, <2>1 DEF CallLeft, Loops
  <2> QED
    BY <1>2, <2>2, <2>3, LessIsFalls
<1>5. CASE Poll
  <2>1. UNCHANGED <<iopc, bus, dat0low>> /\ polled = FALSE /\ polled' = TRUE
    BY <1>3, <1>5 DEF Poll, emmcVars
  <2>2. CardLeft' = CardLeft /\ CallLeft' = CallLeft
    BY <2>1 DEF CardLeft, CallLeft
  <2>3. TimeLeft' < TimeLeft
    BY <1>1, <1>3, <2>1 DEF TimeLeft
  <2> QED
    BY <1>2, <2>2, <2>3, LessIsFalls
<1>6. CASE /\ polled' = TRUE /\ dat0low' = dat0low
           /\ \/ iopc = "ready" /\ iopc' = "command" /\ bus' \in {"readCommand", "writeCommand"}
              \/ iopc = "command" /\ iopc' = "data" /\ bus' = bus
              \/ iopc = "data" /\ iopc' = "programming" /\ bus' = bus
  <2>1. TimeLeft' <= TimeLeft
    BY <1>1, <1>3, <1>6 DEF TimeLeft
  <2>2. iopc = "ready" => bus = "none"
    <3>1. iopc = "ready" => sdpc = "ok"
      BY DEF IInv, DiskSide, Calls, CallPcs
    <3> QED
      BY <3>1 DEF IInv, DiskSide, Bus, AtRest, DataPcs
  <2>3. CardLeft' + CallLeft' < CardLeft + CallLeft
    BY <1>6, <2>2 DEF CardLeft, CallLeft, IInv, DiskSide, EmmcTypeOK
  <2> QED
    BY <1>2, <2>1, <2>3, LessIsFalls
<1> QED
  BY <1>4, <1>5, <1>6 DEF DiskStep, WaitForReady, WaitForCommand, WaitForData, WaitForCard,
     GoOn, SendCommand

\* Time does not run out, because no operation uses all of it.
LEMMA ClockFalls ==
  ASSUME IInv, Counted, Counted', Clock
  PROVE  Falls
<1>1. /\ UNCHANGED <<sdpc, tries, iopc, bus, dat0low, pc, caller, entry, left>>
      /\ polled = TRUE /\ polled' = FALSE
  BY DEF Clock, Tick, sdVars, emmcVars, IInv, DiskSide, DiskTypes
<1>2. SdLeft' = SdLeft /\ CardLeft' = CardLeft /\ CallLeft' = CallLeft /\ FsLeft' = FsLeft
  BY <1>1 DEF SdLeft, CardLeft, CallLeft, FsLeft, MountedLeft
<1>3. spent \in 0 .. MaxSpent - 1 /\ spent' = spent + 1 /\ MaxSpent \in Nat
  BY DEF Clock, IInv, FsSide, FsTypes, InTime, MaxSpent
<1>4. TimeLeft' < TimeLeft
  BY <1>1, <1>3 DEF TimeLeft
<1> QED
  BY <1>2, <1>4, LessIsFalls

LEMMA CardFalls ==
  ASSUME IInv, Counted, Counted', CommandEnds \/ BlockEnds \/ Programmed,
         UNCHANGED <<sdVars, diskVars, bootVars, medium>>
  PROVE  Falls
<1>1. UNCHANGED <<sdpc, tries, iopc, polled, spent, pc, caller, entry, left>>
  BY DEF sdVars, diskVars, bootVars
<1>2. SdLeft' = SdLeft /\ CallLeft' = CallLeft /\ TimeLeft' = TimeLeft /\ FsLeft' = FsLeft
  BY <1>1 DEF SdLeft, CallLeft, TimeLeft, FsLeft, MountedLeft
<1>3. CardLeft' < CardLeft
  BY DEF CommandEnds, BlockEnds, Programmed, CardLeft, IInv, DiskSide, EmmcTypeOK
<1> QED
  BY <1>2, <1>3, LessIsFalls

----------------------------------------------------------------------------
(* FatFs and its callers: a disk call is paid for by what it is one of.    *)

\* What a step between disk calls takes: with a call at least 9, the passes
\* of its loops, else at least 1.
FsFalls ==
  /\ UNCHANGED <<bus, dat0low>> /\ spent' = spent
  /\ \/ UNCHANGED <<iopc, polled>> /\ FsLeft' + 1 <= FsLeft
     \/ iopc' \in {"idle", "ready", "sync"} /\ FsLeft' + 9 <= FsLeft

LEMMA FsFallsFalls ==
  ASSUME IInv, Counted, Counted', DiskTypes', UNCHANGED sdVars, FsFalls
  PROVE  Falls
<1>1. UNCHANGED <<sdpc, tries>>
  BY DEF sdVars
<1>2. SdLeft' = SdLeft /\ CardLeft' = CardLeft
  BY <1>1 DEF FsFalls, SdLeft, CardLeft
<1>3. CASE UNCHANGED <<iopc, polled>> /\ FsLeft' + 1 <= FsLeft
  <2>1. CallLeft' = CallLeft /\ TimeLeft' = TimeLeft
    BY <1>3 DEF FsFalls, CallLeft, TimeLeft
  <2> QED
    BY <1>2, <1>3, <2>1, LessIsFalls
<1>4. CASE iopc' \in {"idle", "ready", "sync"} /\ FsLeft' + 9 <= FsLeft
  <2>1. CallLeft' <= 7
    BY <1>4 DEF CallLeft
  <2>2. TimeLeft' <= TimeLeft + 1
    BY DEF FsFalls, TimeLeft, IInv, FsSide, FsTypes, MaxSpent
  <2> QED
    BY <1>2, <1>4, <2>1, <2>2, LessIsFalls
<1> QED
  BY <1>3, <1>4 DEF FsFalls

\* The numbers the volume gives.
LEMMA Numbers ==
  ASSUME IInv
  PROVE  /\ PARTS \in Nat /\ WRITES \in Nat /\ entry \in 1 .. PARTS + 1 /\ left \in 0 .. WRITES
         /\ caller \in {"init", "formatted", "attempt", "open"} /\ MountedLeft \in Nat
<1>1. /\ entry \in 1 .. PARTS + 1 /\ left \in 0 .. WRITES
      /\ caller \in {"init", "formatted", "attempt", "open"}
  BY DEF IInv, FsSide, FsTypes
<1>2. MountedLeft \in Nat
  BY <1>1 DEF MountedLeft, MountLeft, FormatLeft
<1> QED
  BY <1>1, <1>2

\* f_mount, paid for by the operation that mounts.
LEMMA MountFalls ==
  ASSUME IInv, At(pc), NEW who, Mount(who), spent' = spent,
         \/ pc = "init" /\ who = "init"
         \/ pc = "again" /\ who = "formatted"
         \/ pc = "open" /\ who = "open"
  PROVE  FsFalls
<1>1. /\ caller' = who /\ entry' = 1 /\ left' = left /\ pc' \in {"bootSector", "mounted"}
      /\ UNCHANGED <<bus, dat0low>> /\ iopc' \in {"idle", "ready", "sync"}
  BY DEF Mount, InitializeAnd, At
<1>2. MountedLeft' + 20 + 10 * PARTS <= FsLeft
  BY <1>1 DEF MountedLeft, FsLeft, MountLeft, FormatLeft
<1>3. FsLeft' + 9 <= FsLeft
  BY <1>1, <1>2 DEF FsLeft, MountedLeft, MountLeft, FormatLeft
<1> QED
  BY <1>1, <1>3 DEF FsFalls

\* mount_volume: an entry is looked at once, and what follows the mount
\* comes after it.
LEMMA MountingFalls ==
  ASSUME IInv, BootSector \/ Entry \/ Partition
  PROVE  FsFalls
<1>1. /\ PARTS \in Nat /\ entry \in 1 .. PARTS + 1 /\ MountedLeft \in Nat
      /\ pc = "bootSector" => entry = 1
      /\ pc = "partition" => entry <= PARTS
  BY Numbers DEF IInv, FsSide, Believed
<1>2. iopc = "idle" /\ UNCHANGED <<spent, caller>>
  BY DEF BootSector, Entry, Partition, At, NotFound, Found, NoMount
<1>3. MountedLeft' = MountedLeft
  BY <1>2 DEF MountedLeft
<1>4. CASE /\ UNCHANGED <<bus, dat0low, iopc, polled>>
           /\ \/ pc' = "mounted"
              \/ pc = "bootSector" /\ pc' = "entry" /\ entry' = entry
              \/ pc # "bootSector" /\ pc' = "entry" /\ entry' = entry + 1 /\ entry <= PARTS
  <2>1. pc \in {"bootSector", "entry", "partition"}
    BY DEF BootSector, Entry, Partition, At
  <2>2. FsLeft' + 1 <= FsLeft
    BY <1>1, <1>3, <1>4, <2>1 DEF FsLeft
  <2> QED
    BY <1>2, <1>4, <2>2 DEF FsFalls
<1>5. CASE /\ UNCHANGED <<bus, dat0low>> /\ iopc' \in {"idle", "ready"}
           /\ \/ pc \in {"bootSector", "partition"} /\ pc' = "fsInfo"
              \/ pc = "entry" /\ pc' = "partition" /\ entry' = entry /\ entry <= PARTS
  <2>1. FsLeft' + 9 <= FsLeft
    BY <1>1, <1>3, <1>5 DEF FsLeft
  <2> QED
    BY <1>2, <1>5, <2>1 DEF FsFalls
<1>6. CASE \E f, next : NotFound(f, next) /\ (next = "mounted"
                          \/ (next = "entry" /\ (pc = "bootSector" \/ entry <= PARTS)))
  <2>1. /\ UNCHANGED <<bus, dat0low, iopc, polled>> /\ pc' \in {"mounted", "entry"}
        /\ pc' = "entry" => \/ pc = "bootSector" /\ entry' = entry
                            \/ pc # "bootSector" /\ entry' = entry + 1 /\ entry <= PARTS
    BY <1>6 DEF NotFound, NoDisk, emmcVars, diskVars
  <2> QED
    BY <1>4, <2>1
<1>7. CASE pc \in {"bootSector", "partition"} /\ \E kind : Found(kind)
  <2>1. PICK kind : Found(kind)
    BY <1>7
  <2>2. CASE kind = "FAT16"
    <3>1. UNCHANGED <<bus, dat0low, iopc, polled>> /\ pc' = "mounted"
      BY <2>1, <2>2 DEF Found, NoDisk, emmcVars, diskVars
    <3> QED
      BY <1>4, <3>1
  <2>3. CASE kind # "FAT16"
    <3>1. UNCHANGED <<bus, dat0low>> /\ iopc' \in {"idle", "ready"} /\ pc' = "fsInfo"
      BY <1>2, <2>1, <2>3 DEF Found, StartTransfer
    <3> QED
      BY <1>5, <1>7, <3>1
  <2> QED
    BY <2>2, <2>3
<1>8. CASE /\ pc = "entry" /\ pc' = "partition" /\ entry <= PARTS
           /\ StartTransfer("read") /\ NoMount
  <2>1. UNCHANGED <<bus, dat0low, entry>> /\ iopc' \in {"idle", "ready"}
    BY <1>2, <1>8 DEF StartTransfer, NoMount
  <2> QED
    BY <1>5, <1>8, <2>1
<1>9. CASE BootSector
  BY <1>6, <1>7, <1>9 DEF BootSector, At
<1>10. CASE Entry
  BY <1>1, <1>6, <1>8, <1>10 DEF Entry, At
<1>11. CASE Partition
  BY <1>1, <1>6, <1>7, <1>11 DEF Partition, At
<1> QED
  BY <1>9, <1>10, <1>11

\* What FatFs and its callers do without a disk call.
LEMMA BetweenCallsFalls ==
  ASSUME IInv,
         \/ EnableEmmcIrq \/ FsInfo \/ Decide \/ Synced \/ FormatEnds \/ MountedAgain \/ Unmount
         \/ AttemptMounted \/ DirMounted \/ FindEnds \/ DeleteBegins \/ DeleteEnds
  PROVE  FsFalls
<1>1. /\ UNCHANGED <<bus, dat0low, iopc, polled, spent, caller, entry>>
      /\ \/ pc = "main" /\ pc' = "init"
         \/ pc = "fsInfo" /\ pc' = "mounted"
         \/ pc = "mounted" /\ caller = "init" /\ pc' \in {"mkfs", "unmount"}
         \/ pc = "sync" /\ pc' \in {"formatted", "formatFailed"}
         \/ pc \in {"formatted", "formatFailed"} /\ pc' \in {"unmount", "again"}
         \/ pc = "mounted" /\ caller = "formatted" /\ pc' = "unmount"
         \/ pc = "unmount" /\ pc' = "usb"
         \/ pc = "mounted" /\ caller = "attempt" /\ pc' \in {"open", "unmount"}
         \/ pc = "mounted" /\ caller = "open" /\ pc' = "unmount"
         \/ pc = "mounted" /\ caller = "open" /\ pc' = "find" /\ left' = WRITES
         \/ pc = "found" /\ pc' \in {"find", "delete", "unmount"} /\ left' = left
         \/ pc = "delete" /\ pc' = "deleteOn" /\ left' = WRITES
         \/ pc = "deleted" /\ pc' \in {"deleteOn", "unmount"} /\ left' = left
  BY DEF EnableEmmcIrq, FsInfo, Decide, Synced, FormatEnds, FormatLeadsTo, MountedAgain, Unmount,
     AttemptMounted, DirMounted, FindEnds, DeleteBegins, DeleteEnds, At, NoDisk, NoMount,
     emmcVars, diskVars
<1>2. MountedLeft' = MountedLeft /\ MountedLeft \in Nat /\ left \in 0 .. WRITES
  BY <1>1, Numbers DEF MountedLeft
<1>3. FsLeft' + 1 <= FsLeft
  <2>1. CASE pc = "mounted"
    BY <1>1, <1>2, <2>1 DEF FsLeft, MountedLeft, MountLeft, FormatLeft
  <2>2. CASE pc # "mounted"
    BY <1>1, <1>2, <2>2 DEF FsLeft, MountLeft, FormatLeft
  <2> QED
    BY <2>1, <2>2
<1> QED
  BY <1>1, <1>3 DEF FsFalls

\* The transfers of f_mkfs, of the search and of unlock_file_delete.
LEMMA TransfersFall ==
  ASSUME IInv, MakeFs \/ VbrWritten \/ InfoWritten \/ FatWritten \/ ReadOn \/ DeleteOn
  PROVE  FsFalls
<1>1. /\ UNCHANGED <<bus, dat0low, spent, caller, entry>>
      /\ \/ /\ pc \in {"vbr", "fat"} /\ pc' = "formatFailed" /\ UNCHANGED <<iopc, polled>>
         \/ /\ iopc' \in {"idle", "ready", "sync"}
            /\ \/ pc = "mkfs" /\ pc' = "vbr"
               \/ pc = "vbr" /\ pc' = "info"
               \/ pc = "info" /\ pc' = "fat" /\ left' = WRITES
               \/ pc = "fat" /\ pc' = "fat" /\ left' = left - 1
               \/ pc = "fat" /\ pc' = "sync" /\ left = 1
               \/ pc = "find" /\ pc' = "found" /\ left' = left - 1
               \/ pc = "deleteOn" /\ pc' = "deleted" /\ left' = left - 1
  BY DEF MakeFs, VbrWritten, InfoWritten, FatWritten, ReadOn, DeleteOn, At, NoDisk, NoMount,
     emmcVars, diskVars, StartTransfer, StartSync, InitializeAnd
<1>2. left \in 0 .. WRITES
  BY Numbers
<1>3. CASE pc \in {"vbr", "fat"} /\ pc' = "formatFailed" /\ UNCHANGED <<iopc, polled>>
  <2>1. FsLeft' + 1 <= FsLeft
    BY <1>2, <1>3 DEF FsLeft, MountLeft, FormatLeft
  <2> QED
    BY <1>1, <1>3, <2>1 DEF FsFalls
<1>4. CASE pc' # "formatFailed"
  <2>1. FsLeft' + 9 <= FsLeft
    BY <1>1, <1>2, <1>4 DEF FsLeft, MountLeft, FormatLeft
  <2> QED
    BY <1>1, <1>4, <2>1 DEF FsFalls
<1> QED
  BY <1>1, <1>3, <1>4

LEMMA OpenDirFalls ==
  ASSUME IInv, OpenDir
  PROVE  FsFalls
<1>1. At(pc) /\ pc = "open" /\ spent' = spent
  BY DEF OpenDir, At
<1>2. CASE NotInitialized
  BY <1>1, <1>2, MountFalls DEF OpenDir
<1>3. CASE ~NotInitialized
  <2>1. pc' = "find" /\ left' = WRITES /\ UNCHANGED <<bus, dat0low, iopc, polled>>
    BY <1>3 DEF OpenDir, NoDisk, emmcVars, diskVars
  <2>2. FsLeft' + 1 <= FsLeft
    BY <1>1, <2>1 DEF FsLeft, MountLeft
  <2> QED
    BY <1>1, <2>1, <2>2 DEF FsFalls
<1> QED
  BY <1>2, <1>3

LEMMA FatFsFalls ==
  ASSUME IInv, Fresh, FatFsStep
  PROVE  FsFalls /\ UNCHANGED sdVars
<1>1. CASE InitFileSystem
  <2>1. At(pc) /\ pc = "init" /\ Mount("init") /\ spent' = spent
    BY <1>1 DEF InitFileSystem, At, Fresh
  <2> QED
    BY <2>1, MountFalls DEF At
<1>2. CASE MountAgain
  <2>1. At(pc) /\ pc = "again" /\ Mount("formatted") /\ spent' = spent
    BY <1>2 DEF MountAgain, At
  <2> QED
    BY <2>1, MountFalls DEF At
<1>3. CASE BootSector \/ Entry \/ Partition
  BY <1>3, MountingFalls DEF BootSector, Entry, Partition, At
<1>4. CASE \/ EnableEmmcIrq \/ FsInfo \/ Decide \/ Synced \/ FormatEnds \/ MountedAgain \/ Unmount
           \/ AttemptMounted \/ DirMounted \/ FindEnds \/ DeleteBegins \/ DeleteEnds
  BY <1>4, BetweenCallsFalls DEF EnableEmmcIrq, FsInfo, Decide, Synced, FormatEnds, MountedAgain,
     Unmount, AttemptMounted, DirMounted, FindEnds, DeleteBegins, DeleteEnds, At
<1>5. CASE MakeFs \/ VbrWritten \/ InfoWritten \/ FatWritten \/ ReadOn \/ DeleteOn
  BY <1>5, TransfersFall DEF MakeFs, VbrWritten, InfoWritten, FatWritten, ReadOn, DeleteOn, At
<1>6. CASE OpenDir
  BY <1>6, OpenDirFalls DEF OpenDir, At
<1> QED
  BY <1>1, <1>2, <1>3, <1>4, <1>5, <1>6 DEF FatFsStep

\* Where the effort begins: at power-on, and with an unlock attempt.
LEMMA PowerOnBegins ==
  ASSUME IInv, PowerOn, UNCHANGED <<diskVars, bootVars, medium>>
  PROVE  Begins
<1>1. pc = "main" /\ iopc = "idle" /\ bus = "none"
  BY DEF PowerOn, IInv, DiskSide, Calls, CallPcs, Width, DataPcs
<1>2. /\ sdpc = "off" /\ sdpc' = "cmd8" /\ tries' = 0
      /\ UNCHANGED <<iopc, polled, spent, pc, bus, dat0low>>
  BY DEF PowerOn, emmcVars, diskVars, bootVars
<1>3. SdLeft' = OCR_TRIES + 21 /\ CardLeft' <= 1 /\ CardLeft' \in Nat /\ CallLeft' = 0
  BY <1>1, <1>2 DEF SdLeft, CMD8_TRIES, CardLeft, CallLeft
<1>4. TimeLeft' <= 2 * MaxSpent + 1 /\ TimeLeft' \in Nat
  BY <1>2 DEF TimeLeft, IInv, FsSide, FsTypes, MaxSpent
<1>5. FsLeft' = 20 * PARTS + 9 * WRITES + 73
  BY <1>1, <1>2 DEF FsLeft, FormatLeft, MountLeft
<1>6. Effort' <= OCR_TRIES + 20 * PARTS + 9 * WRITES + 2 * MaxSpent + 96
  <2>1. PICK c \in Nat, t \in Nat : CardLeft' = c /\ TimeLeft' = t
    BY <1>3, <1>4
  <2>2. Effort' = OCR_TRIES + 21 + c + 0 + t + (20 * PARTS + 9 * WRITES + 73)
    BY <1>3, <1>5, <2>1 DEF Effort
  <2> QED
    BY <1>3, <1>4, <2>1, <2>2 DEF MaxSpent
<1> QED
  BY <1>2, <1>6 DEF Begins

LEMMA AttemptBegins ==
  ASSUME IInv, IInv', Counted', Attempt
  PROVE  Begins
<1>1. sdpc = "ok" /\ sdpc' = "ok" /\ AtRest
  BY DEF Attempt, At, sdVars, IInv, DiskSide, Calls, Bus, DataPcs
<1>2. /\ pc = "usb" /\ pc' \in {"bootSector", "mounted"}
      /\ caller' = "attempt" /\ spent' = 0
      /\ UNCHANGED <<bus, dat0low>> /\ iopc' \in {"idle", "ready"} /\ polled' = FALSE
  BY DEF Attempt, At, Mount, InitializeAnd
<1>3. SdLeft' = 0 /\ CardLeft' <= 1 /\ CallLeft' <= 7
  BY <1>1, <1>2 DEF SdLeft, CardLeft, CallLeft, AtRest
<1>4. TimeLeft' = 2 * MaxSpent + 1
  BY <1>2 DEF TimeLeft, MaxSpent
<1>5. FsLeft' <= 20 * PARTS + 20 * WRITES + 35
  BY <1>2 DEF FsLeft, MountedLeft, MountLeft
<1>6. Effort' <= 20 * PARTS + 20 * WRITES + 2 * MaxSpent + 44
  <2>1. PICK c \in Nat, k \in Nat, f \in Nat : CardLeft' = c /\ CallLeft' = k /\ FsLeft' = f
    BY DEF Counted
  <2>2. Effort' = 0 + c + k + (2 * MaxSpent + 1) + f
    BY <1>3, <1>4, <2>1 DEF Effort
  <2> QED
    BY <1>3, <1>5, <2>1, <2>2 DEF MaxSpent
<1> QED
  BY <1>2, <1>6 DEF Begins

(* main, SDCardInit, unlock_file_init and phantomdrive_try_unlock are a    *)
(* bounded number of steps, for a card that answers as it likes, an MBR of *)
(* any number of entries and volumes of any size: every step that neither  *)
(* is a loss of power nor begins one of them takes from what is left of    *)
(* it, which is bounded when it begins.                                    *)
THEOREM BootBounded == Spec => BootIsBounded
<1>1. Init => Fresh
  BY DEF Init, FsOff, Fresh
<1>2. IInv /\ Fresh /\ [Next]_vars => Fresh'
  BY FreshKept
<1>3. IInv /\ IInv' /\ Counted /\ Counted' /\ Fresh /\ [Next]_vars
        => [Begins \/ Effort' \in 0 .. Effort - 1]_vars
  <2> SUFFICES ASSUME IInv, IInv', Counted, Counted', Fresh, Next PROVE Begins \/ Falls
    BY DEF Falls
  <2>1. CASE Cpu
    <3>1. CASE FatFsStep
      <4>1. DiskTypes'
        BY DEF IInv, DiskSide
      <4> QED
        BY <3>1, <4>1, FatFsFalls, FsFallsFalls
    <3> QED
      BY <2>1, <3>1, SdFalls, DiskFalls DEF Cpu
  <2>2. CASE Clock
    BY <2>2, ClockFalls
  <2>3. CASE Block \/ Others
    BY <2>3, CardFalls, PowerOnBegins DEF Block, Others
  <2>4. CASE Attempt
    BY <2>4, AttemptBegins
  <2>5. CASE PowerLoss
    BY <2>5 DEF PowerLoss, Begins
  <2> QED
    BY <2>1, <2>2, <2>3, <2>4, <2>5 DEF Next
<1> QED
  BY <1>1, <1>2, <1>3, IInvCounted, BootInvariant, PTL DEF Spec, BootIsBounded

=============================================================================
