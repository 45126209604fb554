-------------------------------- MODULE Boot --------------------------------
(***************************************************************************)
(* From power-on to the main loop, and the disk side of unlock attempts:   *)
(* main, unlock_file_init and the callers of unlock_file.c, over the calls *)
(* that f_mount and f_mkfs of FatFs make, in their order.  Power may be    *)
(* lost at any step.                                                       *)
(*                                                                         *)
(* Of the medium the model keeps what sector 0 is and, if it is an MBR,    *)
(* what its entries lead to: a partition of a FAT type or another, one     *)
(* beyond LOCKED_SECTORS, or none.  "torn" is a FAT32 boot sector whose    *)
(* FATs were never written, "invalid" one that check_fs takes for a FAT    *)
(* boot sector and whose parameters mount_volume then rejects.             *)
(***************************************************************************)
EXTENDS DiskIo, FiniteSets

CONSTANTS PARTS,     \* entries of an MBR, 4
          WRITES     \* sectors of a FAT, or of a file's operation

ASSUME PartsAssumption == PARTS \in Nat \ {0}
ASSUME WritesAssumption == WRITES \in Nat \ {0}

VARIABLES
  pc,         \* where main, unlock_file.c or FatFs is between disk calls
  caller,     \* who mounts: "init", "formatted", "attempt" or "open"
  fmt,        \* what the mount made of the last sector it looked at: 0 a volume
              \* it takes, 3 none (check_fs 2 or 3, or rejected), 4 not read
  fsType,     \* filesystem.fs_type
  entry,      \* next entry of the MBR
  left,       \* sectors of this part of the operation still to transfer
  ready,      \* what unlock_file_init returned
  spent,      \* history: ticks since the start-up or the attempt began
  formatted,  \* history: this start-up has formatted the card
  sector0, parts     \* the medium

bootVars == <<pc, caller, fmt, fsType, entry, left, ready, spent, formatted>>
medium == <<sector0, parts>>
vars == <<sdVars, emmcVars, diskVars, bootVars, medium>>

FatKinds == {"FAT32", "FAT16"}
BootKinds == FatKinds \cup {"invalid"}   \* what check_fs takes for FAT
PartKinds == BootKinds \cup {"other", "beyond", "none"}
SectorKinds == BootKinds \cup {"torn", "blank", "MBR"}

\* The decoy volume: what find_volume comes to first, if it is FAT32.
IsDecoy(s, p) ==
  \/ s = "FAT32"
  \/ /\ s = "MBR"
     /\ \E i \in 1 .. PARTS : p[i] = "FAT32" /\ \A j \in 1 .. i - 1 : p[j] \notin BootKinds

NoParts == [i \in 1 .. PARTS |-> "none"]
MaxSpent == 3 * FILE_IO_TIMEOUT + FORMAT_TIMEOUT

FsOff ==
  /\ pc = "main" /\ caller = "init" /\ fmt = 3 /\ fsType = "none" /\ entry = 1 /\ left = 0
  /\ ready = FALSE /\ spent = 0 /\ formatted = FALSE

Init ==
  /\ SdOff /\ EmmcOff /\ DiskOff /\ FsOff
  /\ sector0 \in SectorKinds
  /\ parts \in [1 .. PARTS -> IF sector0 = "MBR" THEN PartKinds ELSE {"none"}]

(* FatFs and its callers go on when the disk call they made has returned.  *)
At(here) == pc = here /\ iopc = "idle" /\ UNCHANGED sdVars
NoDisk == UNCHANGED <<emmcVars, diskVars>>
NoMount == UNCHANGED <<caller, fmt, fsType, entry>>

----------------------------------------------------------------------------
(* main up to unlock_file_init.                                            *)
EnableEmmcIrq ==
  /\ At("main") /\ sdpc = "ok"
  /\ pc' = "init"
  /\ irq' = TRUE
  /\ UNCHANGED <<flags, dma, bus, dat0low, diskVars, caller, fmt, fsType, entry, left,
                 ready, spent, formatted, medium>>

(* f_mount: mount_volume, find_volume and check_fs of FatFs.  Whatever     *)
(* they end with, they end in "mounted".                                   *)
Mount(who) ==
  /\ InitializeAnd("read")
  /\ caller' = who /\ fsType' = "none" /\ entry' = 1
  /\ IF capacity = "large" THEN pc' = "bootSector" /\ fmt' = fmt
                           ELSE pc' = "mounted" /\ fmt' = 4
  /\ UNCHANGED <<left, ready, formatted, medium>>

\* A FAT volume is found; of FAT32 the FSINFO sector is read as well.
Found(kind) ==
  /\ fmt' = 0
  /\ IF kind = "FAT16" THEN pc' = "mounted" /\ fsType' = "FAT16" /\ NoDisk
                       ELSE pc' = "fsInfo" /\ fsType' = fsType /\ StartTransfer("read")
  /\ UNCHANGED <<caller, entry, left, ready, spent, formatted, medium>>

NotFound(f, next) ==
  /\ fmt' = f /\ pc' = next
  /\ entry' = IF next = "entry" /\ pc # "bootSector" THEN entry + 1 ELSE entry
  /\ UNCHANGED <<caller, fsType, left, ready, spent, formatted, medium>>
  /\ NoDisk

BootSector ==
  /\ At("bootSector")
  /\ CASE result # "ok" -> NotFound(4, "mounted")
       [] result = "ok" /\ sector0 \in {"blank", "invalid"} -> NotFound(3, "mounted")
       [] result = "ok" /\ sector0 = "MBR" -> NotFound(3, "entry")
       [] OTHER -> Found(sector0)

Entry ==
  /\ At("entry")
  /\ CASE entry > PARTS -> NotFound(fmt, "mounted")
       [] entry <= PARTS /\ parts[entry] = "none" -> NotFound(3, "entry")
       [] entry <= PARTS /\ parts[entry] = "beyond" -> NotFound(4, "entry")
       [] OTHER -> /\ pc' = "partition"
                   /\ StartTransfer("read")
                   /\ NoMount
                   /\ UNCHANGED <<left, ready, spent, formatted, medium>>

Partition ==
  /\ At("partition")
  /\ CASE result # "ok" -> NotFound(4, "entry")
       [] result = "ok" /\ parts[entry] = "other" -> NotFound(3, "entry")
       [] result = "ok" /\ parts[entry] = "invalid" -> NotFound(3, "mounted")
       [] OTHER -> Found(parts[entry])

FsInfo ==
  /\ At("fsInfo")
  /\ pc' = "mounted" /\ fsType' = "FAT32"
  /\ NoDisk
  /\ UNCHANGED <<caller, fmt, entry, left, ready, spent, formatted, medium>>

----------------------------------------------------------------------------
(* unlock_file_init.                                                       *)
InitFileSystem ==
  /\ At("init") /\ spent' = 0
  /\ Mount("init")

NoFat32 == fsType = "FAT16" \/ (fsType = "none" /\ fmt = 3)
MutMay_AnyStatus == NoFat32
MayFormat == NoFat32 /\ ~NotInitialized

Decide ==
  /\ At("mounted") /\ caller = "init"
  /\ ready' = (fsType = "FAT32")
  /\ pc' = IF MayFormat THEN "mkfs" ELSE "unmount"
  /\ formatting' = MayFormat
  /\ NoMount
  /\ UNCHANGED <<emmcVars, iopc, op, result, initialized, ioAge, transferAge, callAge, polled,
                 left, spent, formatted, medium>>

\* f_mkfs: boot sector, its copy and FSINFO (one transfer here, and its result
\* ignored), FATs and root directory, CTRL_SYNC.
MakeFs ==
  /\ At("mkfs")
  /\ InitializeAnd("write")
  /\ pc' = "vbr" /\ formatted' = TRUE
  /\ NoMount /\ UNCHANGED <<left, ready, spent, medium>>

VbrWritten ==
  /\ At("vbr")
  /\ \/ /\ result = "ok"
        /\ sector0' = "torn" /\ parts' = NoParts
        /\ pc' = "info" /\ StartTransfer("write")
     \/ /\ result # "ok"
        /\ \/ sector0' = "torn" /\ parts' = NoParts
           \/ UNCHANGED medium
        /\ pc' = "formatFailed" /\ NoDisk
  /\ NoMount /\ UNCHANGED <<left, ready, spent, formatted>>

InfoWritten ==
  /\ At("info")
  /\ pc' = "fat" /\ left' = WRITES
  /\ StartTransfer("write")
  /\ NoMount /\ UNCHANGED <<ready, spent, formatted, medium>>

FatWritten ==
  /\ At("fat")
  /\ \/ /\ result # "ok"
        /\ pc' = "formatFailed" /\ NoDisk
        /\ UNCHANGED <<left, medium>>
     \/ /\ result = "ok" /\ left > 1
        /\ pc' = "fat" /\ left' = left - 1 /\ StartTransfer("write")
        /\ UNCHANGED medium
     \/ /\ result = "ok" /\ left = 1
        /\ sector0' = "FAT32" /\ UNCHANGED parts
        /\ pc' = "sync" /\ left' = 0 /\ StartSync
  /\ NoMount /\ UNCHANGED <<ready, spent, formatted>>

Synced ==
  /\ At("sync")
  /\ pc' = IF result = "ok" THEN "formatted" ELSE "formatFailed"
  /\ NoDisk /\ NoMount /\ UNCHANGED <<left, ready, spent, formatted, medium>>

MutEnds_ResultIgnored(failed) == "again"
MutEnds_FormatAgain(failed) == IF failed THEN "mkfs" ELSE "again"
FormatLeadsTo(failed) == IF failed THEN "unmount" ELSE "again"

FormatEnds ==
  /\ At(pc) /\ pc \in {"formatted", "formatFailed"}
  /\ formatting' = FALSE
  /\ pc' = FormatLeadsTo(pc = "formatFailed")
  /\ NoMount
  /\ UNCHANGED <<emmcVars, iopc, op, result, initialized, ioAge, transferAge, callAge, polled,
                 left, ready, spent, formatted, medium>>

MountAgain ==
  /\ At("again") /\ UNCHANGED spent
  /\ Mount("formatted")

MountedAgain ==
  /\ At("mounted") /\ caller = "formatted"
  /\ ready' = (fsType = "FAT32")
  /\ pc' = "unmount"
  /\ NoDisk /\ NoMount /\ UNCHANGED <<left, spent, formatted, medium>>

\* unlock_file_unmount; then main enables USB, or the attempt is over.
Unmount ==
  /\ At("unmount")
  /\ fsType' = "none"
  /\ pc' = "usb"
  /\ NoDisk /\ UNCHANGED <<caller, fmt, entry, left, ready, spent, formatted, medium>>

----------------------------------------------------------------------------
(* phantomdrive_try_unlock: unlock_file_mount, unlock_file_find and        *)
(* unlock_file_delete, whose transfers are as many and of whatever kind.   *)
Attempt ==
  /\ At("usb") /\ spent' = 0
  /\ Mount("attempt")

AttemptMounted ==
  /\ At("mounted") /\ caller = "attempt"
  /\ pc' = IF fsType = "FAT32" THEN "open" ELSE "unmount"
  /\ NoDisk /\ NoMount /\ UNCHANGED <<left, ready, spent, formatted, medium>>

\* f_opendir mounts again if reading FSINFO failed, which f_mount ignores.
OpenDir ==
  /\ At("open") /\ UNCHANGED spent
  /\ IF NotInitialized THEN Mount("open")
     ELSE /\ pc' = "find" /\ left' = WRITES
          /\ NoDisk /\ NoMount /\ UNCHANGED <<ready, formatted, medium>>

DirMounted ==
  /\ At("mounted") /\ caller = "open"
  /\ IF fsType = "none" THEN pc' = "unmount" /\ UNCHANGED left
                        ELSE pc' = "find" /\ left' = WRITES
  /\ NoDisk /\ NoMount /\ UNCHANGED <<ready, spent, formatted, medium>>

\* The directory and the files in it; any error ends the search.
ReadOn ==
  /\ At("find") /\ left > 0
  /\ StartTransfer("read")
  /\ pc' = "found" /\ left' = left - 1
  /\ NoMount /\ UNCHANGED <<ready, spent, formatted, medium>>

FindEnds ==
  /\ At("found")
  /\ pc' \in IF result = "ok" THEN {"find", "delete", "unmount"} ELSE {"unmount"}
  /\ pc' = "find" => left > 0
  /\ NoDisk /\ NoMount /\ UNCHANGED <<left, ready, spent, formatted, medium>>

\* unlock_file_diskio_reset_timeout
DeleteBegins ==
  /\ At("delete")
  /\ ioAge' = 0
  /\ pc' = "deleteOn" /\ left' = WRITES
  /\ NoMount
  /\ UNCHANGED <<emmcVars, iopc, op, result, initialized, formatting, transferAge, callAge,
                 polled, ready, spent, formatted, medium>>

DeleteOn ==
  /\ At("deleteOn")
  /\ StartTransfer("read") \/ StartTransfer("write") \/ StartSync
  /\ pc' = "deleted" /\ left' = left - 1
  /\ NoMount /\ UNCHANGED <<ready, spent, formatted, medium>>

DeleteEnds ==
  /\ At("deleted")
  /\ pc' \in IF result = "ok" /\ left > 0 THEN {"deleteOn", "unmount"} ELSE {"unmount"}
  /\ NoDisk /\ NoMount /\ UNCHANGED <<left, ready, spent, formatted, medium>>

FatFsStep ==
  \/ EnableEmmcIrq \/ InitFileSystem \/ BootSector \/ Entry \/ Partition \/ FsInfo
  \/ Decide \/ MakeFs \/ VbrWritten \/ InfoWritten \/ FatWritten \/ Synced \/ FormatEnds
  \/ MountAgain \/ MountedAgain \/ Unmount
  \/ AttemptMounted \/ OpenDir \/ DirMounted \/ ReadOn \/ FindEnds
  \/ DeleteBegins \/ DeleteOn \/ DeleteEnds

----------------------------------------------------------------------------
Cpu == \/ SdStep /\ UNCHANGED <<diskVars, bootVars, medium>>
       \/ DiskStep /\ UNCHANGED <<sdVars, bootVars, medium>>
       \/ FatFsStep

Clock ==
  /\ Tick
  /\ spent' = IF spent = MaxSpent THEN spent ELSE spent + 1
  /\ UNCHANGED <<sdVars, pc, caller, fmt, fsType, entry, left, ready, formatted, medium>>

Block == BlockEnds /\ UNCHANGED <<sdVars, diskVars, bootVars, medium>>
Others == \/ (CommandEnds \/ Programmed) /\ UNCHANGED <<sdVars, diskVars, bootVars, medium>>
          \/ PowerOn /\ UNCHANGED <<diskVars, bootVars, medium>>

(* Power is lost, at any step; the sector written at that moment is or is  *)
(* not on the card, and what a host does to the volume is its own affair.  *)
PowerLoss ==
  /\ sdpc # "off"
  /\ sdpc' = "off" /\ tries' = 0 /\ card' = "idle" /\ wide' = FALSE /\ fast' = FALSE
  /\ hostWide' = FALSE /\ fastClock' = FALSE /\ capacity' = "none"
  /\ flags' = {} /\ irq' = FALSE /\ dma' = FALSE /\ bus' = "none" /\ dat0low' = FALSE
  /\ iopc' = "idle" /\ op' = "sync" /\ result' = "ok"
  /\ initialized' = FALSE /\ formatting' = FALSE
  /\ ioAge' = 0 /\ transferAge' = 0 /\ callAge' = 0 /\ polled' = FALSE
  /\ pc' = "main" /\ caller' = "init" /\ fmt' = 3 /\ fsType' = "none" /\ entry' = 1
  /\ left' = 0 /\ ready' = FALSE /\ spent' = 0 /\ formatted' = FALSE
  /\ \/ UNCHANGED medium
     \/ pc = "vbr" /\ iopc # "idle" /\ sector0' = "torn" /\ parts' = NoParts

Next == Cpu \/ Clock \/ Block \/ Others \/ Attempt \/ PowerLoss

(* The processor runs, time passes, and R8_EMMC_TIMEOUT ends every block.  *)
Fairness == WF_vars(Cpu) /\ WF_vars(Clock) /\ WF_vars(Block)

Spec == Init /\ [][Next]_vars /\ Fairness

----------------------------------------------------------------------------
(* Type invariant.                                                         *)
TypeOK ==
  /\ EmmcTypeOK /\ SdTypeOK /\ DiskTypeOK
  /\ pc \in {"main", "init", "bootSector", "entry", "partition", "fsInfo", "mounted",
             "mkfs", "vbr", "info", "fat", "sync", "formatted", "formatFailed", "again",
             "unmount", "usb", "open", "find", "found", "delete", "deleteOn", "deleted"}
  /\ caller \in {"init", "formatted", "attempt", "open"}
  /\ fmt \in {0, 3, 4} /\ fsType \in FatKinds \cup {"none"}
  /\ entry \in 1 .. PARTS + 1 /\ left \in 0 .. WRITES
  /\ ready \in BOOLEAN /\ formatted \in BOOLEAN /\ spent \in 0 .. MaxSpent
  /\ sector0 \in SectorKinds /\ parts \in [1 .. PARTS -> PartKinds]

(* A card that holds the decoy volume is never written to before the host  *)
(* sees it: unlock_file_init formats only what it could read and found not *)
(* to be FAT32.  A partition that cannot be read looks to FatFs like one   *)
(* that is not there; the check of disk_status (unlock_file.c:42) is all   *)
(* that keeps the volume then.                                             *)
DecoyKept ==
  [][ IsDecoy(sector0, parts) => UNCHANGED medium ]_medium

(* When unlock_file_init reports success the card holds a FAT32 volume,    *)
(* whole if this start-up made it.  A start-up that loses power while it   *)
(* formats leaves "torn", which the next one cannot tell from a volume.    *)
ReadyMeansWhole ==
  ready => IsDecoy(sector0, parts) \/ (sector0 = "torn" /\ ~formatted)

(* Outside disk calls the controller is at rest, so that neither a late    *)
(* block reaches a buffer nor a late error the interrupt handler, and the  *)
(* data path of msc_read.c and msc_write.c finds the interrupt on.         *)
EmmcQuiet ==
  /\ irq => flags = {} /\ bus = "none" /\ ~dma
  /\ pc = "usb" => irq

(* However the card behaves, start-up spends at most two file operations   *)
(* and a format on it, and an unlock attempt, with the USB interrupt off,  *)
(* three file operations: f_opendir may mount a second time, and           *)
(* unlock_file_delete restarts the clock.  The time of a start-up is that  *)
(* of unlock_file_init; what sd.c takes before it has no limit.            *)
InTime ==
  spent <= IF caller \in {"init", "formatted"} THEN 2 * FILE_IO_TIMEOUT + FORMAT_TIMEOUT
                                              ELSE 3 * FILE_IO_TIMEOUT

(* From every step of start-up, and of an attempt, the drive comes to the  *)
(* main loop, unless main gave the card up (main.c:64), power is lost, or  *)
(* a block is waited for that is not to come: the loops of SD_ReadSCR and  *)
(* SD_SwitchFunction have no other way out (sd.c:318, sd.c:353).           *)
NoBlock == sdpc \in DataPcs /\ bus = "none" /\ "TRANDONE" \notin flags
BootEnds == sdpc # "off" ~> (pc = "usb" \/ sdpc \in {"failed", "off"} \/ NoBlock)

(* What is left to do of SDCardInit, of the command or block the card is   *)
(* busy with, of the disk call, of the time, and of unlock_file.c.         *)
SdLeft ==
  CASE sdpc = "cmd8" -> 18 + OCR_TRIES + (CMD8_TRIES - tries)
    [] sdpc = "acmd41" -> 18 + (OCR_TRIES - tries)
    [] OTHER -> [cmd2 |-> 18, cmd3 |-> 17, cmd9 |-> 16, cmd7 |-> 15, acmd6 |-> 14, acmd51 |-> 13,
                 scrData |-> 10, scrDataFailed |-> 10, check |-> 9, checkData |-> 6,
                 switch |-> 5, switchData |-> 2, clock |-> 1,
                 ok |-> 0, failed |-> 0, off |-> 0][sdpc]
CardLeft ==
  [readCommand |-> 3, writeCommand |-> 3, read |-> 2, write |-> 2, none |-> 0][bus]
  + (IF dat0low THEN 1 ELSE 0)
CallLeft == [ready |-> 7, command |-> 3, data |-> 2, programming |-> 1, sync |-> 1, idle |-> 0][iopc]
TimeLeft == 2 * (MaxSpent - spent) + (IF polled THEN 0 ELSE 1)

\* A mount, the format that may follow it, and what comes after a mount.
MountLeft == 20 + 10 * PARTS
FormatLeft == MountLeft + 32 + 9 * WRITES
MountedLeft == [init |-> FormatLeft, formatted |-> 2, attempt |-> MountLeft + 20 * WRITES + 4,
                open |-> 20 * WRITES + 3][caller]
FsLeft ==
  [main |-> FormatLeft + MountLeft + 1, init |-> FormatLeft + MountLeft,
   bootSector |-> MountedLeft + 11 + 10 * PARTS,
   entry |-> MountedLeft + 20 + 10 * (PARTS - entry),
   partition |-> MountedLeft + 11 + 10 * (PARTS - entry),
   fsInfo |-> MountedLeft + 1, mounted |-> MountedLeft,
   mkfs |-> FormatLeft - 1, vbr |-> FormatLeft - 10, info |-> FormatLeft - 19,
   fat |-> MountLeft + 4 + 9 * left, sync |-> MountLeft + 4,
   formatted |-> MountLeft + 3, formatFailed |-> MountLeft + 3, again |-> MountLeft + 2,
   unmount |-> 1, usb |-> 0,
   open |-> MountLeft + 20 * WRITES + 3,
   find |-> 10 * WRITES + 2 + 10 * left, found |-> 10 * WRITES + 3 + 10 * left,
   delete |-> 10 * WRITES + 2, deleteOn |-> 1 + 10 * left, deleted |-> 2 + 10 * left][pc]

Effort == SdLeft + CardLeft + CallLeft + TimeLeft + FsLeft
\* Power is lost; or start-up or an attempt begins, with at most so much to do.
Begins ==
  \/ sdpc' = "off"
  \/ /\ sdpc = "off"
     /\ Effort' <= OCR_TRIES + 20 * PARTS + 9 * WRITES + 2 * MaxSpent + 96
  \/ /\ pc = "usb" /\ pc' # "usb"
     /\ Effort' <= 20 * PARTS + 20 * WRITES + 2 * MaxSpent + 44

(* However the card answers, start-up (main.c, sd.c) and an unlock attempt *)
(* are a bounded number of steps: no command, mount, MBR entry or sector   *)
(* is taken up twice but for the retries and second mounts of the code,    *)
(* and a polling loop makes one pass in every tick of a limited time.      *)
BootIsBounded == [][ Begins \/ Effort' \in 0 .. Effort - 1 ]_vars
=============================================================================
