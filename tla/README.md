# PhantomDrive: TLA+ models and proofs

PhantomDrive is firmware for a CH569 USB stick. To the host it is a mass storage
device with a small unencrypted ("decoy") volume. A file on it that contains
`password:...` makes the firmware capture the password, blank it before it
reaches the SD card, delete the file, leave the bus and come back as the rest of
the card, decrypted ("hidden" volume).

These modules model the firmware's control: which actor writes which flag, in
which order, and what can happen in between. Contents are abstracted to what the
properties tell apart. Paths below are relative to the firmware's `src/`
directory.

## 1. The system

### 1.1 Actors

| actor | where | what it does |
| --- | --- | --- |
| host | outside | one command at a time: CBW, data phase, CSW; recovers from stalls; control requests and bus resets at any time |
| USB interrupt | board support package (a submodule, not in the sources), calling `bot_handle_bulk_out` and `bot_handle_bulk_in` | parses CBWs, answers short commands, leaves reads and writes to the main loop |
| main loop | `main.c:89`, `bot_poll` | runs the data phases of READ(10) and WRITE(10) with the USB interrupt off, then tries to unlock |
| USB controller | hardware | answers ACK, NAK or STALL per endpoint; sets `RB_USB_IF_TRANSFER` |
| SD controller and card | hardware | fills or drains RAM by DMA, raises BKGAP, TRANDONE or an error |

There is no operating system and no lock: actors share `g_bot`, `g_cbw_csw`,
`UDisk_In_Buf`, `UDisk_Out_Buf` and the controllers' registers. Mutual exclusion
is `PFIC_DisableIRQ(USBHS_IRQn)` and the endpoint response bits.

### 1.2 Components

| component | state | operations | what makes it correct |
| --- | --- | --- | --- |
| READ(10) pipeline (`msc_read.c`, `emmc_ops.h`) | ring of 60 sectors, `read_pipe_t`, DMA addresses | two polling loops: hand a sector to USB, take a block from the card, pause and release the card | every sector once, in order, decrypted once; no slot shared by two DMA engines; the loops end |
| Bulk-Only Transport and SCSI (`bot.c`, `bot_state.*`, `scsi_tables.c`) | `transfer_flags`, sense, status, tag, LBA, byte count, pending flags | CBW dispatch, 17 SCSI handlers, response data, CSW, idle check, `bot_poll` | each command takes effect once and gets its own answer; the idle check is right |
| WRITE(10) data phase (`msc_write.c`) | two 30 KiB buffers, chunk counters | receive a chunk, snoop or encrypt it, write it | data of packet *i* lands on sector *i*; a failure is reported and the rest drained |
| Unlock sequence (`phantomdrive.c`, end of `bot_poll`) | `phantomdrive_state`, pending password, clocks | snoop, try to unlock, time out | host detached only between commands; USB given back on every way out; keys derived once |
| Password snooper (`phantomdrive.c:145-259`) | prefix match length, partial flag, next LBA | scan each locked chunk | every value captured and blanked, across chunks; the place remembered is where the search looks |
| Unlock file (`unlock_file.c`) | FatFs volume | find the scrubbed file, blank and unlink it, format at boot | only the file typed into is deleted |
| Disk I/O for FatFs (`unlock_file_diskio.c`) | `initialized`, two start times | one-sector reads and writes, polled | bounded time (checked); never beyond the decoy volume (not checked: addresses are abstracted) |
| SD initialisation (`sd.c`) | card parameters | command sequence, retries, 4-bit bus, high speed | right order; clock within what was negotiated |
| Sector encryption (`phantomdrive_aes_xts.c`) | tweak batch, ECDC registers | XTS in batches | tweak of each sector is its card address |
| Key derivation (`crypto.c`, `phantomdrive_aes_ctr.c`) | keys, salt | SHA-256, PBKDF2, key check | once per boot, since it increments the salt |
| Boot (`main.c`) | - | GPIO, card, state, FAT32, then USB | USB is enabled last, with the decoy volume as it was |

Not firmware logic, and not modelled: `third_party/fatfs`, the board and case
designs (`ee`, `mech`), `scripts`, `test` (host-side tests of disk images),
`write_profile.c` and `debug.h` (counters and logging of the DEBUG build).

### 1.3 What is hard

Interleavings of the interrupt with the main loop on `transfer_flags`; three
actors on one ring; a check (`bot_usb_is_idle`) and the act it allows
(`USB20_Device_Init(DISABLE)`) many milliseconds apart; partial failures (a chunk,
a file operation) inside a protocol that goes on; the timeout that may fall at
any step of an attempt; loops without an exit when the card or the host is gone.
`PROJECT.json` lists them at their lines, with the properties that cover them.

## 2. Modules

| module | models | abstracts |
| --- | --- | --- |
| `SectorSink` | what a WRITE(10) promises: the packets on their sectors, in order, once, and "passed" only when all are there | - |
| `WriteStream` | `write_stream_usb2`, `receive_chunk_usb2` and `write_chunk_to_sd` against host and card | sector contents: index and form (raw, sealed, snooped, garbled) |
| `MCWriteStream` | instance for TLC | |
| `WriteStreamProofs` | the invariant of `WriteStream` and the theorems | |
| `Emmc` | the eMMC controller: flags, interrupt, DMA, the command or block on the bus, DAT0 | one error flag for all of `EMMC_ERROR_FLAGS` |
| `SdInit` | `sd.c`: `SDCardInit`, command by command | registers, but for the capacity |
| `DiskIo` | `unlock_file_diskio.c`, each pass of its polling loops | sector contents and addresses |
| `Boot` | `main.c` up to the main loop, `unlock_file_init`, the disk calls of an unlock attempt; loss of power | what the medium holds: the kind of sector 0 and of the MBR's partitions |
| `MCBoot` | instance for TLC | |
| `BootProofs` | the invariant of `Boot` and the theorems | |
| `SectorStream` | what a READ(10) delivers: the sectors, in order, once, in the right form | - |
| `ReadRing` | `read_stream_usb2` against card and host, one flag access per step | sector contents: index and form (raw, plain, garbled) |
| `MCReadRing` | instance for TLC | |
| `ReadRingProofs` | the invariant of `ReadRing` and the theorems | |
| `BlockVolume` | what the drive promises: two volumes, commands accepted, performed once, answered | - |
| `Bot` | `bot.c`, `msc_write.c`, the end of `msc_read_sectors`; host and interrupt | packets and sectors are counted, answers fit one packet |
| `MCBot` | CBWs for TLC | |
| `BotProofs` | the phases of a command, the invariant of `Bot` and the theorems | |
| `Unlock` | `phantomdrive_try_unlock` and the clocks of `bot_poll`, on top of `Bot` | the file system: listed or not, by the two sectors that decide it |
| `MCUnlock` | CBWs for TLC | |
| `UnlockProofs` | the invariant of `Unlock`, on top of `BotProofs`, and the theorems | |
| `VolumeProofs` | `Bot` and `Unlock` implement `BlockVolume` and leave nobody waiting; what reaches the card; the types of `Unlock` | |
| `Snoop` | the scan of `phantomdrive.c:145-259`, a byte per step, over chunks that may or may not follow one another; `file_contains_scrubbed_password` | bytes are a few symbols |
| `MCSnoop` | prefix for TLC | |
| `SnoopProofs` | the invariant of `Snoop`: types and blanking | |
| `SnoopValueProofs` | what is kept of a value, where the file search finds it, what the card keeps of it | |
| `SnoopCard` | `Snoop` and what it leaves on the decoy volume | |
| `MCSnoopCard` | prefix for TLC | |

`Boot` composes `DiskIo`, `SdInit` and `Emmc` (each extends the next) with FatFs
and its callers. `WriteStream` refines `SectorSink`, `ReadRing` refines
`SectorStream`; `Bot` and `Unlock` refine `BlockVolume`.
`Bot`'s step `ReadStream` is the whole of `ReadRing`: `RingImplementsStream`
justifies taking it as one step, since nothing else runs while the interrupt is
off and the host sees the sectors one after the other. In the same way
`WriteImplementsSink` justifies `Bot`'s one-step `WriteStream`, and `AlwaysInTime`
and `EmmcIsQuiet` the `Find` and `Delete` of `Unlock`, which end, well or badly,
and leave nothing behind in the controller that `Bot`'s streams use next.

### 2.1 ReadRing

`pc` is the place in the function: `usb` (sampling `usb_tx_done`), `clear`,
`queue`, `emmc` (looking at `R16_EMMC_INT_FG`) in the first loop; `drain`,
`drainClear`, `drainQueue` in the second; `stop`, `done`. The card is `fill`ing
the slot in `dma`, in a `gap` after a block, at the `end`, has had a `fault`, or is
`stopped`. The host takes a sector whenever the endpoint is armed; a slot that is
being filled is read as garbage, a sector decrypted twice, or with another
sector's tweak, is garbled.

### 2.2 Bot

`dev` gathers `g_bot`, the parts of `g_cbw_csw` that outlive the CBW and endpoint
1's response bits, so that a handler that runs in the interrupt is a function from
`dev` to `dev`, composed as the code composes its calls. `TEST_READY` stands for
the five handlers that only acknowledge, `MODE_SENSE` for both sizes of it. The
main loop's steps end wherever the interrupt may come in; the load and the store
of `transfer_flags &= ~BOT_FLAG_DATA_IN` (`msc_read.c:203`) are two steps.

The interrupt handler is external. It is taken to do what `bot.c` is written for:
NAK after an IN packet was sent, NAK after an OUT packet that `bot_poll` has to
fetch, `bot_handle_bulk_in` after the host clears a halted IN endpoint, and no new
packet while `RB_USB_IF_TRANSFER` is set.

Assumptions about the host, each a constant, an `ASSUME` or a guard:

* it follows Bulk-Only Transport (`CommandAssumption`): `DataLen` of a read or a
  write agrees with its CDB and no command is longer than the card. In the runs
  direction agrees too (`WellFormed`), and reads and writes stay in the capacity it
  was told (`WritesWithinCapacity`), except for reads of the decoy volume, which also
  straddle its end and lie beyond it. `PagesHaveData` says that MODE SENSE(10) asks
  for data, and `ReadsWithinCapacity` that unlocked reads stay in the capacity: a
  host that breaks either may be left without an answer (`bot.c:188`, `bot.c:163`);
* `PoliteSense`: it sends REQUEST SENSE only after a command that did not pass, and
  MODE SENSE only after one that did. It may also ignore a failure and go on.
  Operating systems ask for the sense at once, which is stricter.
  `BotStaleSense.cfg` drops this;
* `TailInterrupted = FALSE`: the host's next CBW does not arrive within the last
  machine instructions of `msc_read_sectors`. The CSW was queued a few
  instructions before, so it takes another interrupt to stretch that window.
  `BotTailRace.cfg` drops this.

### 2.3 Unlock

The actions of `Bot` with the unlock logic's variables, and
`phantomdrive_try_unlock` statement by statement between `IrqOff` and `Attach` or
`Resume`. `setup` stands for `RB_USB_IF_SETUOACT` and `RB_USB_IF_BUSRST`: control
requests arrive while the interrupt is off; when it is on they are dealt with at
once. The unlock file is two sectors, the directory sector and the one the
password was typed into: the file can be found when the first was written and the
second is scrubbed. `Find` and `Delete` may fail at each of their card accesses.

### 2.4 Snoop

`at` is the loop the scan is in: the one of `continue_partial_password`, the search
of `snoop_new_password` or the loop over a value inside it. A step reads one byte,
chosen when it is read; blanking and copying it is part of the step, where the code
does it with `memset` and `memcpy` after the loop: nothing reads the buffer in
between. `stream` and `out` are histories of what the host wrote since the last
write that did not follow its predecessor, and of what the card gets for it.
`pwLen` is the length *counted*, up to one more than the limit; `pw` is what is kept.

The reference is `Open(k)`: among the first k bytes there is a prefix with no
terminator after it. It knows nothing of chunks or of a match in progress.
The place of a password is two numbers computed from the chunk, `pending_pw_lba` and
`pending_pw_offset`; `LbaOf(j)` is the sector of byte j counted from the first sector
of the stream, `FirstLba`, and `PasswordCaptured` compares the two.

`Contains` is `file_contains_scrubbed_password` of a file whose first sector is
`sect`, with `Matches` for `matches_scrubbed_password`, and `FileRecognised` relates
them to the snooper that left the traces they look for: the file is recognised, in the
sector the prefix went to, just if no byte of the value it holds was beyond the limit.
It supposes that the file lies in one sector, as `UNLOCK_FILE_MAX_SIZE` (256 bytes
from the start of a cluster) ensures; FatFs then has its sector in `file.sect`. Sizes
up to a whole sector are a superset of those the code reads.

`Unlock` uses a coarser snooper, in which a whole line is written at once; the
unlock attempts, which only happen between writes, are there.

### 2.5 WriteStream

`pc` is the place in `write_stream_usb2` or in the function it is in: `receive`,
`arm`, `wait` in `receive_chunk_usb2`; `ready` is `wait_dat0_ready` between two
chunks; `filter` the snooping or encryption of a chunk; `write` the range check and
`card` the call of `EMMCCardWriteMulSec`; `settle` the last wait for DAT0; `leave` the
return. `buf` alternates between `UDisk_Out_Buf` and `UDisk_In_Buf`; `rxBuf` and
`rxSlot` are `R32_UEP1_RX_DMA`. The card programs `mem[prog]` from `next` to `end`, a
sector per step, and DAT0 is low as long as there is one to go.

`EMMCCardWriteMulSec` is external. It is taken to hand the chunk to the card and
return at any time after that, as its callers do not trust it to wait: both of
`wait_dat0_ready`'s calls would be superfluous otherwise. The host has sent the
first packet when `msc_write_sectors` is called. `room`, which no host knows, puts
the end of the card anywhere.

### 2.6 Boot

Three programs take turns, and all of them poll, since no interrupt they could wait
for is on.

* `SdInit`: `sdpc` is the next command of `SD_do_init`. A command ends in one of
  three ways: the card did not get it, it carried it out and the answer was lost, or
  all went well. `CheckCMDComp` is external; it is taken to report a lost answer as
  a failure. `card`, `wide` and `fast` are the card's own state, `hostWide` and
  `fastClock` the controller's: that they are different variables is what
  `WidthAgrees` and `ClockFitsCard` are about.
* `DiskIo`: `iopc` is the loop `transfer_sector` or `wait_for_ready` is in. A pass of
  a loop looks at the error flags and both time limits, then at what it waits for.
  `ioAge` and `transferAge` are the time since `io_started_ticks` and
  `transfer_started_ticks`. `callAge` is a history: the time since the call began, which
  `transferAge` had better be. `initialized` and `formatting` are the statics of that
  name. FatFs, configured as it is here, moves one sector per call.
* `Boot`: `pc` is the disk call FatFs or its caller waits for, or the step between
  two of them. `fmt` is what `check_fs` returned, or that
  `mount_volume` rejected what it had accepted (`"invalid"`), `fsType` is `filesystem.fs_type`,
  `entry` the next entry of the MBR. The order of calls is that of `find_volume`,
  `mount_volume` and `f_mkfs` in `third_party/fatfs/ff.c` (external here); the
  decisions are those of `unlock_file.c`. Files and directories are only a number of
  transfers of either kind: what they find is in `Unlock`.

`PowerLoss` may happen at any step. It resets everything but the medium, where a
boot sector being written may be there or not. The host may change the medium while
it uses the drive; `Init` allows every medium, so that what it leaves is covered.

Time advances in ticks. A tick is much longer than any work of the processor, so it
passes only in a polling loop, after at least one pass. Ages stop at
`FORMAT_TIMEOUT`, beyond which no comparison can tell them apart.

## 3. Runs

| run | instance | distinct states | shows |
| --- | --- | --- | --- |
| `read_ring` | ring of 5, reads of 1 to 11 sectors, locked or not | 4,216 | type invariant, `UsbSlotStable`, `NoSectorLost`, `NobodyStuck`, `ReadIsBounded`, refinement of `SectorStream`, `ReadTerminates` |
| `bot` | decoy of 2, card of 5, chunks of 1; 17 CBWs | 411,668 | type invariant, `IdleMeansNoCommand`, `NobodyStuck`, `CommandIsBounded`, refinement of `BlockVolume`, `CommandAnswered` |
| `unlock` | decoy of 2, card of 4, chunks of 2, timeout of 2 units; 4 CBWs | 361,095 | type invariant, `UsbGivenBack`, `KeysDerivedOnce`, `DetachBetweenCommands`, `FileGoneOrTimeout`, refinement of `BlockVolume`, `PendingUnlocks`, `CommandAnswered` |
| `snoop` | sectors of 4 bytes, streams of 8, 3 symbols, 2 bytes kept of a value; `password:` is 2 symbols | 3,410,509 | type invariant, `ValuesScrubbed`, `PasswordCaptured`, `FileRecognised` |
| `write_stream` | buffers of 3 sectors, writes of 0 to 8 sectors, the end of the card anywhere | 15,589 | type invariant, `BufferNotShared`, `NobodyStuck`, `WriteIsBounded`, refinement of `SectorSink`, `WriteTerminates` |
| `boot` | 2 attempts at ACMD41, limits of 2 and 3 ticks, 2 partitions, 2 sectors of FAT or file | 293,772 | type invariant, `WidthAgrees`, `ReadyMeansWhole`, `EmmcQuiet`, `InTime`, `DecoyKept`, `NoFalseFailure`, `BootIsBounded`, `BootEnds` |
| `sd_clock` | as `boot` | - | violates `ClockFitsCard` |
| `snoop_card` | a card of 3 sectors of 3 bytes | - | violates `FollowingValuesZeroed` |
| `bot_tail_race` | as `bot`, `TailInterrupted` | - | violates `IdleMeansNoCommand` |
| `bot_stale_sense` | as `bot`, not `PoliteSense` | - | violates `SenseIsOfPreviousCommand` |
| `bot_verify` | as `bot`, VERIFY(10) with data | - | violates `OnlyWritesChangeTheCard` |
| `unlock_delete` | as `unlock` | - | violates `DeletedBeforeUnlock` |

The liveness properties are checked in two halves that name what is wrong when one
fails. `NobodyStuck` says that as long as something is in progress, some actor's next
step is enabled; it is a state predicate, written out of the guards. `ReadIsBounded`,
`WriteIsBounded` and `CommandIsBounded` say that `Effort`, a number bounded by the
length of the command, falls with every step but a poll that finds nothing, so that
no work is ever done twice. Termination adds fairness to the two. `BootIsBounded` says
the same of start-up and of an unlock attempt, where the number is bounded by the
attempts at a command, the entries of the MBR, the sectors and the time limits; a poll
that finds nothing counts there, because a loop makes one pass in a tick and time is
limited. Only a loss of power, power-on and the beginning of an attempt may raise it.
That somebody can move needs no property of its own there: a loop polls or time
passes, FatFs goes on when its call has returned, and the loops of `sd.c` that may wait
for ever are `NoBlock`.

### 3.1 Bounds

* The ring: with 5 slots at most 3 sectors wait, so the card is paused and
  released; 11 sectors wrap both slot counters twice; 1 and 2 sectors never
  satisfy `read_pipe_has_safe_usb_sector` in the first loop. The theorems are for
  every ring size from 4 and every length.
* The volumes: a decoy of 2 sectors has reads inside it, across its end and behind
  it. The hidden volume has 3 (2 in `unlock`), so that a wrong offset shows.
  Two-sector writes with one-sector chunks fail in the first or the second chunk.
* Tags alternate between two values: one command is in progress at a time.
* Clocks count units of `UNLOCK_IDLE_MS` and stop at the value where they no
  longer make a difference: `TIMEOUT` for the pending password (2 here, 6 in the
  firmware: one unit before the timeout, one at it), 1 for the other two. They
  only run while a password is pending, as nothing reads them otherwise.
* The snooper: a prefix of two symbols, both of which may also be bytes of a value;
  values of up to 6 bytes where 2 are kept and the third is counted; prefixes and
  values that cross from one chunk to the next and from one sector to the next; a
  write that starts somewhere else after any chunk, with the last password and a
  match half way left over. With two symbols a partial match is of length 1 only;
  longer ones are what `SnoopProofs` is for, and a file that holds more of a value than
  is kept (it has to be refused) is what `SnoopFileRecognised` is for. The host does not write the NUL byte
  here, so that a blanked byte shows.
* The write stream: 8 sectors through buffers of 3 are three chunks, so both buffers
  are used and the first again, and the last chunk is shorter; 0, 1, 3 and 4 sectors
  are the boundaries. The theorems are for every buffer and every length.
* Start-up: a time limit of two ticks is used up in part by one transfer and
  exhausted by the next, and that of the format is longer; of two partitions the
  first can hide the second; two transfers have a first and a last; of two attempts
  at ACMD41 one is lost. Again the theorems are for all values.
* `unlock` starts locked; `bot` starts locked or unlocked. There is no bound on the
  number of commands.

### 3.2 Fairness

* The main loop is a `while (1)` and the only thread: weakly fair.
* An enabled interrupt is taken: weakly fair in `Bot`. In `Unlock` the main loop
  turns it off in every attempt, but a pending interrupt preempts the loop at the
  instruction that turns it on again, so it is strongly fair.
* The host goes on with a command it started. In `Unlock` the endpoint answers NAK
  during an attempt and ACK between attempts; the host repeats a packet that was
  answered NAK, so it is strongly fair there. It is never obliged to start a
  command or a control request.
* A card that has not failed delivers its next block. A fault may happen at any
  block and nothing obliges it to.
* Time passes. In `Boot` a tick needs a pass of a polling loop first, which the
  fairness of the processor provides.
* `Boot` also assumes that a block that was asked for ends, with its data or with an
  error: `R8_EMMC_TIMEOUT` is set for that. Commands and programming are under no
  such obligation, which is what the time limits are for.

`BootEnds` says that start-up and attempts come to the main loop under that
fairness alone, however often the card fails or stays busy. It leaves out the case
`NoBlock` by name: `SD_ReadSCR` waits for its block even if the command was not
answered, and `SD_SwitchFunction` for one that ended in an error; neither loop has
another way out (`sd.c:318`, `sd.c:353`), because the interrupt that would set
`EMMCOpErr` is enabled only after initialisation (`main.c:71`).

`PendingUnlocks` supposes that the host leaves the drive alone from some time on;
a host that keeps the drive busy is never cut off, which is the point of
`DetachBetweenCommands`.

### 3.3 Disagreements found

* **Tail of a read** (`msc_read.c:203`). After `bot_send_csw` the main loop clears
  a bit of `transfer_flags` with the interrupt on. A command handled between the
  load and the store loses its flags: the idle check of `bot.c:424` then says idle
  with a command in progress, and the command is not answered. `bot_send_csw` has
  cleared the flags already, so the statement could go. `msc_write.c:172` does it
  in the safe order.
* **Stale sense** (`bot.c:176`, comment at `bot.c:203`). MODE SENSE leaves sense
  and status alone, and REQUEST SENSE the sense: the next REQUEST SENSE reports an error
  that was reported before. A MODE SENSE after a failure that was not asked about
  would be answered with its data and status failed. `BotImplementsVolume` shows that
  these two commands are the only ones affected.
* **VERIFY(10) with data** (`bot.c:356`, comment at `bot.c:239`). It is carried out
  as a write to the address of an earlier command. `OnlyWritesReachTheCard` proves that
  it is the only exception.
* **Unlocking without deletion** (`phantomdrive.c:111`, `readme.md:95`). After three
  seconds the drive unlocks whether or not the file was found and deleted.

* **Clock after a refused high speed** (`sd.c:547`, log lines at `sd.c:375` and
  `sd.c:387`). Whatever `SD_EnableHighSpeed` found, and although it logs "keeping
  default speed", the clock is raised to 48 MHz next.
* **Values in scattered writes** (`phantomdrive.c:248`, `readme.md:95`). The scan
  follows a value from one write to the next only if the second starts where the
  first ended. Otherwise the rest of the value is on the card in clear text.
  `SnoopContinuedZeroed` proves that in the first case it never is.

## 4. Proofs

### 4.1 ReadRingProofs

`ReadRingProofs` proves, for `RING` a natural number of at least 4 and `MAXNUM` a
positive one, and with no other assumption:

* `TypeCorrect`: `Spec => []TypeOK`;
* `UsbSlotSafe`: `Spec => []UsbSlotStable`;
* `RingKeepsSectors`: `Spec => []NoSectorLost`;
* `RingImplementsStream`: `Spec => ImplementsStream`;
* `ReadNeverStuck`: `Spec => []NobodyStuck`;
* `ReadBounded`: `Spec => ReadIsBounded`.

None of the middle three is inductive: they speak of contents and say nothing of
where the counters point. The invariant `IInv` adds

* `Counts`: how many sectors wait, and that the card is ahead of `emmcDone` by the
  one block whose flag is up;
* `Card`: which flags and states of the controller go together, and in which loop;
* `Places`: the waiting sectors are the slots from `usbSlot` on, the slot being
  filled is the next one, the slot being sent the one before;
* `Usb`: what `got`, `usbDone` and the endpoint say about each other at each place
  of the loop;
* `Contents`: what is in the slots that matter.

That two slots stay free (`read_pipe_has_space_for_emmc`) makes the slot being
filled different from the one being sent: one lemma per action uses it. Each of
`InitIInv`, the action lemmas and `NextIInv` is one of the three facts of an
inductive proof; the refinement maps `HostIn` to `Deliver`, CMD12 to `Complete`, a
card fault to `Fail` and everything else to a stutter.

`IInv` says where the data is, not whose turn it is. For `ReadNeverStuck` a second
invariant does (`Turn`): a card in a gap has raised its flag or was paused, and it is
only paused with all but two slots full, so there is a sector to send; and while
the loops poll, the endpoint is armed, has completed or was never used. For
`ReadBounded` the work is counted (`ToDo`): n blocks delivered, n decrypted, n sent
in three steps each, n taken, and `Stage` and `Sound` for what ends the command, 6n + 3
in all. `EffortDrops` has one lemma for the processor and one for the other two.

### 4.2 SnoopProofs and SnoopValueProofs

For any prefix of at least two bytes that does not repeat its first byte and holds
no terminator (`PrefixAssumption`), any positive sector size and limit, and streams
of any length:

* `SnoopTypeCorrect`: `Spec => []TypeOK`, which is inductive as it stands;
* `SnoopValuesScrubbed`: `Spec => []ValuesScrubbed`.

The second needs to know that the scan is in a value exactly when one is open in
the stream (`Follows`, with `Modes` tying `pw_partial` to the loops). To keep that,
a step must know what `prefix_match_len` says of the bytes already read: while the
scan searches, `Suffix(m)` (the stream ends with the first m bytes of the prefix)
holds for m = `matched` and no other m short of the whole. Uniqueness is where the
assumption on the prefix enters: after a longer match a shorter one would need a
second byte equal to the first. `SuffixGrows` and `OpenGrows` say what one byte does
to the two notions; `SearchByte` combines them for the three searching actions.

`SnoopValueProofs` goes on, under the same assumptions, to

* `SnoopPasswordCaptured`: `Spec => []PasswordCaptured`;
* `SnoopFileRecognised`: `Spec => []FileRecognised`;
* `SnoopContinuedZeroed`: `CardSpec => ContinuedValuesZeroed`, for a prefix that fits a
  sector and a volume of any number of sectors.

The first two speak of the moments between two chunks, where the value may be complete or
half read. `Keeps(j, n)` holds at every step of the scan: the last value, which
begins after byte j, has n bytes so far, `pending_pw` holds these bytes up to the
limit, and the value is open exactly when nothing has been written behind it.
`ValueGrows` and `ValueRests` say when n changes. `ValueLength` is a CHOOSE in the
property; `OneLength` shows there is nothing to choose. `Taken` follows
`phantomdrive_state`: a value the chunk has only begun is not pending yet.
`Aligned` says that chunks are whole sectors and where the next one would begin. So the
sector and the offset computed from a place in the chunk are those of the place in the
stream (`SamePlace`), which needs the uniqueness of quotient and remainder (`OneRest`),
and a chunk that continues the stream leaves its first sector (`ChunkFirst`). For the second
theorem `PrefixKept` shows that the prefix
of one value is never blanked as part of another, and `ValueBlanked` that a blanked
value is followed by its terminator: the three things the search looks at.

The third is about the card. `snoop_card` shows that a chunk written after a prefix
may leave the value behind it on the card; the theorem says when it may not: whenever
the chunk continues the write before it, whatever the card held. `OnCard` is its
invariant: the last sector of what was written so far is the sector of the card
before the next chunk (`LastSector`). A prefix found there is therefore one the
scan has seen, and `ValuesScrubbed` does the rest. The prefix has to fit a sector,
as its nine bytes do. No run has `ContinuedValuesZeroed`: a card and a stream together
are too many states to exhaust in minutes. TLC found no violation in the first 44
million states of the instance of `snoop_card`.

### 4.3 WriteStreamProofs

For buffers of at least one sector and commands of any length, including none:

* `WriteTypeCorrect`: `Spec => []TypeOK`;
* `WriteBufferNotShared`: `Spec => []BufferNotShared`;
* `WriteImplementsSink`: `Spec => ImplementsSink`;
* `WriteNeverStuck`: `Spec => []NobodyStuck`;
* `WriteBounded`: `Spec => WriteIsBounded`.

The invariant accounts for every sector of the command. `Counts` places the chunk in
the command, `Usb` says how many packets have been taken and where the next one
lands, `Card` that the medium holds all but at most one chunk of what was handed
over, and that this chunk is in the other buffer while the next is received;
`Contents` and `Stored` say which sectors those are, in which form. `BufferNotShared`
follows from `Usb` and `Card`; the refinement maps `HostOut` to `Take`, `CardStores`
to `Store` and `Leave` to `Pass` or `Fail`.

`WriteNeverStuck` follows from the same invariant: a loop that waits for a packet has
armed the endpoint and the host has one left, since `receive_chunk_usb2` counts what
`Usb` counts. `WriteBounded` gives each place a number (`Stage`) that falls along the
code within a chunk and from one chunk to the next, 8 for each sector left; packets and programmed
sectors add one each (`Ahead` keeps them from being more than were asked for).

### 4.4 BootProofs

For an MBR of any number of entries, volumes of any size, any number of attempts at
ACMD41 and any time limits with `FORMAT_TIMEOUT >= FILE_IO_TIMEOUT`:

* `BootTypeCorrect`, `WidthsAgree`, `ReadyIsWhole`, `EmmcIsQuiet`, `AlwaysInTime`:
  `Spec` implies that `TypeOK`, `WidthAgrees`, `ReadyMeansWhole`, `EmmcQuiet`, `InTime`
  always hold;
* `DecoyIsKept`, `FailuresAreReal` and `BootBounded`: `Spec` implies the action
  properties `DecoyKept`, `NoFalseFailure` and `BootIsBounded`.

The invariant has two sides, so that a step of one leaves the other alone by a
single lemma (`SdFrame`, `CallFrame`, `FsFrame`). `DiskSide` is what disk calls and
initialisation keep: where FatFs is while a call is under way (`Calls`), what can be
on the bus in each loop (`Bus`), what the card and the controller know of each other
(`Width`), and what a failed call leaves in `disk_status` (`Results`). `FsSide` is
what FatFs and its callers keep. Three of its parts carry the argument:

* `Believed`: what FatFs has found so far is true of the medium *as long as the disk
  is initialized*. Once a transfer failed it may believe anything, `finish_io`
  has cleared `initialized`, and the check of `disk_status` at `unlock_file.c:42` keeps
  it from formatting. `DecoyIsKept` follows: where `f_mkfs` writes, there is no decoy.
* `Limits`: in every loop that goes on, the age of the operation is below its limit
  when it was last polled, so at most at the limit after the next tick; and the age of
  the transfer is that of the call.
* `Spent`: the time of the whole operation is bounded by the limits of its finished
  parts plus `ioAge`. `InTime` follows with three limits for an attempt: one for
  mounting and searching, one more if `f_opendir` mounts again, one for deleting.

`BootBounded` adds up what is left of five things (`Effort`), and a step may add to one
of them what it takes from another: a command of `SD_do_init` pays for its data phase
(`SdFalls`), a step of FatFs for the disk call it makes (`FsFalls`: 9, for at most 7
passes and a tick that begins anew), a pass that gets on for the command the card is
given (`DiskFalls`). Time pays for the polls that find nothing, and cannot run out
(`ClockFalls`), because `InTime` keeps every operation below `MaxSpent`. The one thing
`IInv` does not say is that the clock of start-up is at 0 when FatFs is first called
(`Fresh`).

### 4.5 BotProofs

For any size of the decoy and the card, any chunk size and any set of CBWs that
meets `CommandAssumption` (of any direction and operation code), as long as
`~TailInterrupted`:

* `TypesHold`: `Spec => []TypeOK`;
* `IdleVerdictRight`: `Spec => []IdleMeansNoCommand`;
* `CommandBounded`: `Spec => CommandIsBounded`.

`PoliteSense` may have either value. That `TailInterrupted` may not is no weakness of
the proof: `BotTailRace.cfg` shows `IdleMeansNoCommand` violated without it.

The property speaks of one state of the drive; to keep it, one has to know all
others. `Phases` lists them: no command (`Idle`), or one that is on its way
(`CbwSent`), malformed (`Rejected`), refused (`Declined`), being answered
(`Answering`), in a read, in a write before or after its first packet
(`ReadPhase`, `DataPhase`, `WritePhase`), or waiting for its status to be taken
(`CswQueued`). Each says how far the host is, what is on the bus, which flags are
set and where the main loop may be; together with `RxDue`, what endpoint 1 has to
answer to an OUT packet, they are inductive, one lemma per action. In all phases
but `Idle` a flag is set, a packet is under way or the endpoint does not answer NAK.
`DispatchFacts` and `AnswerFacts` do the handlers: the phase in which the interrupt
leaves each operation code. The invariant also shows that `transfer_flags` is empty
whenever the unguarded read-modify-write at `msc_read.c:203` runs (`TailFlags`),
which is all that makes it harmless.

`CommandBounded` needs two facts more than the phases: `Place`, where the main loop is
and whether it turned the interrupt off, and `Sending`, that the first packet of a
write is the only one the host has sent until the main loop takes over. `Effort` is a
sum of six terms, each about one actor (`OutLeft` to `LoopLeft`); a step lowers one of
them by more than it raises the others: handing a command from the interrupt to the
main loop or a status to the endpoint is worth more than the steps it causes there.
The constant 14 leaves room for the tail of the last read, which may still have to
run when the host starts a command.

### 4.6 UnlockProofs

For any timeout and any sector of the root directory, under the same assumptions:

* `NoCommandCutOff`: `USpec => DetachBetweenCommands`;
* `UsbAlwaysGivenBack`: `USpec => []UsbGivenBack`;
* `OneDerivation`: `USpec => []KeysDerivedOnce`;
* `FileGoneOrTimedOut`: `USpec => FileGoneOrTimeout`.

To the phases a try is a place where the main loop polls, so the steps of host,
interrupt and streams are those of `BotProofs`. `Endpoint` adds that within a try
the endpoint answers NAK and `rx_control` is what it ought to answer (`RxDue`);
with `Interrupt` (off) that leaves the host nothing but to take what is queued for
it (`BusStep`). Once `bot_usb_is_idle` held nothing is queued, so it holds until the
detach (`Idleness`), although the code looks only twice and the host is never told.
`Derivation` and `File` say what each place of a try has decided.

### 4.7 VolumeProofs

For any volumes, chunk size, timeout and set of CBWs:

* `BotImplementsVolume`: `Spec /\ []WritesWithinCapacity => ImplementsVolume`;
* `UnlockImplementsVolume`: the same of `USpec`;
* `UnlockTypesHold`: `USpec /\ []WritesWithinCapacity => []UTypeOK`;
* `BotNeverStuck`: `Spec /\ []ReadsWithinCapacity => []NobodyStuck`;
* `UnlockNeverStuck`: the same of `USpec`;
* `OnlyWritesReachTheCard`: `Spec => OnlyWritesChangeTheCard`.

The first three rest on `~TailInterrupted` and three assumptions about the host:

* `PoliteSense`: the sense REQUEST SENSE finds after a success, and the status of a
  MODE SENSE after a failure, are another command's (`BotStaleSense.cfg`);
* `WellFormed`: each operation code has the direction and length the host gives it.
  `MCBot` and `MCUnlock` have TLC evaluate it for the CBWs of the passing runs; with
  a VERIFY(10) that sends data (`BotVerify.cfg`) the theorem would be false;
* `WritesWithinCapacity`: the firmware does not verify it (`bot.c:163`), and a locked
  write beyond the decoy volume would change the hidden one.

`NoCmdApart` says that the model value `NoCmd` is not an answer.

The abstract drive performs a command in one step. `Result` dates that step: a short
answer or a refusal when the CBW is parsed, a read or a write when its stream ends.
What it then says has to be what the host finds in the CSW several steps later, so each phase of
`BotProofs` needs the meaning of the fields it leaves to the next one (`Meaning`):
what was parsed is the host's CBW (`Underway`), `current_lba` and
`transfer_bytes_left` are still those of the CDB while a stream has not run
(`ReadOn`, `WriteOn`), what is queued and what the host holds already are this
command's answer (`Answered`), and between commands the status the drive remembers is
the one the host saw last (`Settled`). A CBW other than REQUEST SENSE clears the error
of the command before it, in the firmware when it is parsed, to the host when it is
sent; `Err` bridges the two.
`StepUMeans` does the same for the steps of a try. The switch of volumes is one step
because no command is in progress then (`UnlockProofs`), and the file's deletion is
invisible in the hidden volume because the sector remembered for the password lies on
the decoy: `SnoopedLba`, which is also what `UTypeOK` needs.

The last three need `~TailInterrupted` and `WellFormed`, and neither `PoliteSense` nor
`WritesWithinCapacity`: the host may ask for sense at any time, and write anywhere on
the card. For nobody to be stuck, each phase has to say what will end it (`Course`): a
status that is owed is either queued, or behind a halted endpoint whose recovery
queues it; a read in progress has the address and length of its CDB, so that it stays
on the card and its stream ends. `PagesHaveData` and
`ReadsWithinCapacity` are exactly the two cases where this is false: MODE SENSE(10) for
another page without a data phase sets an error with nothing to halt (`bot.c:188`),
and a read past the card is never answered (`bot.c:163`). In `Unlock` an attempt is no
exception (`UnlockNeverStuck`): the main loop itself can always go on, and what a
command finds when the interrupt is back is what it would have found before.
`OnlyWritesReachTheCard` shows that an OUT data phase of any other command is
declined (`OutIsWrite`), although `bot.c:356` asks only for the direction.

### 4.8 Only model-checked

`ReadTerminates`, `WriteTerminates`, `BootEnds`, `CommandAnswered`, `PendingUnlocks`:
what follows from fairness needs ENABLED, which is beyond the prover. For a read, a
write and a command the other premises are theorems: somebody can always move, and
only boundedly many moves are left. That the one who can move eventually does, and
that polls do not keep him from it, is what TLC adds on its instances. For start-up and
the disk side of an attempt `BootBounded` leaves to `BootEnds` that some step is
always possible but in `NoBlock`, and that it is taken.

## 5. What the models show of the code

Apart from section 3.3, where the code and its comments disagree:

* A partition that cannot be read is to FatFs one without a file system, so after a
  read error `f_mount` reports `FR_NO_FILESYSTEM`. Without the second condition of
  `unlock_file.c:42` the decoy volume would be formatted over. The mutant that drops
  it violates `DecoyKept`.
* A start-up that loses power between the boot sector and the FATs leaves a card the
  next start-up takes for a FAT32 volume: `ReadyMeansWhole` has to except it.
* An unlock attempt may take three file time limits with USB off, not two.
* `wait_dat0_ready` before a chunk is looked at is what keeps the two buffers apart;
  without it the host overtakes a slow card after two chunks.
* A card that does not answer ACMD51 stops start-up for good (`BootEnds`, `NoBlock`).

## 6. Not modelled

* SHA-256, HMAC and PBKDF2 (`crypto.c`), AES and the tweaks of
  `phantomdrive_aes_xts.c`: computations without interaction. A sector's form says
  whether it was encrypted once with its own address, which is as far as the streams
  can get it wrong.
* `write_profile.c`, `debug.h`: counters and logging of the DEBUG build.
* FatFs beyond the order of its disk calls, GPT and exFAT volumes. Which parameters of
  a boot sector `mount_volume` rejects is a matter of the medium (`"invalid"`).
* What the controller does after a CMD6 whose answer arrived damaged. `sd.c:337-351`
  leaves `R32_EMMC_DMA_BEG1` and `R32_EMMC_BLOCK_CFG` set and does not wait. The model
  takes it that no block follows: true of an answer that is missing because the card did
  not get the command, an assumption about the timing of one that was lost or damaged on
  its way. If a block did follow, the clock would be raised while it is under way, against
  the comment at `sd.c:541`, and its TRANDONE or error would meet the first read of
  FatFs or the interrupt that `main` has enabled by then. `EmmcQuiet` is about the transfers of
  `unlock_file_diskio.c` and does not cover this. What the controller does with such a
  block is not in the sources.
* Time in `sd.c`. `spent` starts at `unlock_file_init`, so `InTime` does not count the
  retries and delays of `SD_do_init` nor the loops of `CheckCMDComp`.
* Power lost between blanking the unlock file and unlinking it (`unlock_file.c:184`): the
  decoy shows a blank file, which nothing repairs and no document rules out.
* Cards smaller than the decoy volume beyond start-up: their capacity less
  `LOCKED_SECTORS` wraps at `phantomdrive.c:124`.
* What a bus reset does in the middle of a stream: that is up to the board support
  package, a submodule that is not in the sources.
* Names and attributes in the root directory, and several files with a password.
* CBWs whose `DataLen` contradicts their CDB. The theorems of 4.5 and 4.6 allow any
  direction and addresses beyond the reported capacity; the runs and 4.7 do not, and two
  of those CBWs would leave the host without an answer (4.7).

## 7. Plan

* A bound for an unlock attempt as a whole: `Boot`'s number for its disk side and the
  steps of `Unlock` around it.
* `UnlockFile`: the walk of the root directory with `Snoop`'s `Matches`: which file
  is deleted when several qualify, and that no other is.
