---------------------------- MODULE BlockVolume ----------------------------
(***************************************************************************)
(* What PhantomDrive promises a host that speaks Bulk-Only Transport, with *)
(* interrupts, endpoints, flags and buffers hidden.  There are two volumes *)
(* and one is visible.  A command is accepted, takes effect once, and is   *)
(* answered with a status of its own; the visible volume changes only when *)
(* no command is in progress.                                              *)
(***************************************************************************)
EXTENDS Naturals, Sequences

CONSTANTS LOCKED,   \* LOCKED_SECTORS, the size of the decoy volume
          CARD,     \* sectors on the card
          NoCmd     \* no command in progress

VARIABLES disk,     \* disk[v][l]: what sector l of volume v holds for its reader
          volume,   \* the visible volume
          cmd,      \* the command in progress, a tag and a CBW
          result,   \* NoCmd until the command took effect, then its outcome
          err,      \* the error of the last command, for REQUEST SENSE to report
          seen      \* the last answer the host got

vars == <<disk, volume, cmd, result, err, seen>>

Size(v) == IF v = "decoy" THEN LOCKED ELSE CARD - LOCKED

\* One packet of an answer: a sector's contents, a number or a sense.
Reply(kind, val, num) == [kind |-> kind, val |-> val, num |-> num]

InVolume(c) == c.n = 0 \/ c.lba + c.n <= Size(volume)
Stored(x) == IF volume = "decoy" /\ x = "pw" THEN "scrubbed" ELSE x
Written(c, k) ==
  [disk EXCEPT ![volume] = [l \in DOMAIN @ |->
     IF l \in c.lba .. c.lba + k - 1 THEN Stored(c.data[l - c.lba + 1]) ELSE @[l]]]

Init ==
  /\ volume \in {"decoy", "hidden"}
  /\ DOMAIN disk = {"decoy", "hidden"}
  /\ \A v \in DOMAIN disk : disk[v] \in [0 .. Size(v) - 1 -> {"zero", "garbled"}]
  /\ cmd = NoCmd /\ result = NoCmd /\ err = "none" /\ seen = NoCmd

Accept ==
  /\ cmd = NoCmd
  /\ cmd' # NoCmd
  /\ err' = IF cmd'.cbw.op = "REQUEST_SENSE" THEN err ELSE "none"
  /\ UNCHANGED <<disk, volume, result, seen>>

Effect(data, e) ==
  /\ result' = [tag |-> cmd.tag, data |-> data,
                status |-> IF e = "none" THEN "passed" ELSE "failed"]
  /\ err' = e

Read ==
  /\ cmd.cbw.op = "READ10"
  /\ UNCHANGED disk
  /\ IF InVolume(cmd.cbw)
       THEN Effect([i \in 1 .. cmd.cbw.n |->
                      Reply("sector", disk[volume][cmd.cbw.lba + i - 1], 0)], "none")
       ELSE Effect(<<>>, "range")

\* A write the card refuses may leave its first sectors behind.
Write ==
  /\ cmd.cbw.op = "WRITE10"
  /\ \/ disk' = Written(cmd.cbw, cmd.cbw.n) /\ Effect(<<>>, "none")
     \/ \E k \in 0 .. cmd.cbw.n - 1 : disk' = Written(cmd.cbw, k) /\ Effect(<<>>, "write")

Inquire ==
  /\ cmd.cbw.op \in {"INQUIRY", "READ_CAPACITY", "MODE_SENSE"}
  /\ Effect(<<Reply(cmd.cbw.op, "none",
                    CASE cmd.cbw.op = "READ_CAPACITY" -> Size(volume) - 1
                      [] cmd.cbw.op = "MODE_SENSE" -> Size(volume)
                      [] OTHER -> 0)>>, "none")
  /\ UNCHANGED disk

RequestSense ==
  /\ cmd.cbw.op = "REQUEST_SENSE"
  /\ result' = [tag |-> cmd.tag, status |-> "passed",
                data |-> <<Reply("REQUEST_SENSE", err, 0)>>]
  /\ err' = "none"
  /\ UNCHANGED disk

Acknowledge ==
  /\ cmd.cbw.op \in {"TEST_READY", "VERIFY10"}
  /\ Effect(<<>>, "none")
  /\ UNCHANGED disk

Refuse ==
  /\ cmd.cbw.op \in {"UNSUPPORTED", "MODE_SENSE10_PAGE"}
  /\ Effect(<<>>, "illegal")
  /\ UNCHANGED disk

\* A malformed CBW has no effect on the medium and gets no status.
Malformed ==
  /\ cmd.cbw.op = "BAD_SIGNATURE"
  /\ err' = "illegal"
  /\ UNCHANGED <<disk, result>>

Perform ==
  /\ cmd # NoCmd /\ result = NoCmd
  /\ Read \/ Write \/ Inquire \/ RequestSense \/ Acknowledge \/ Refuse \/ Malformed
  /\ UNCHANGED <<volume, cmd, seen>>

Complete ==
  /\ cmd # NoCmd /\ result # NoCmd
  /\ seen' = result
  /\ cmd' = NoCmd /\ result' = NoCmd
  /\ UNCHANGED <<disk, volume, err>>

Discard ==
  /\ cmd # NoCmd /\ cmd.cbw.op = "BAD_SIGNATURE"
  /\ cmd' = NoCmd
  /\ seen' = [tag |-> cmd.tag, status |-> "phase", data |-> <<>>]
  /\ UNCHANGED <<disk, volume, result, err>>

Switch ==
  /\ cmd = NoCmd
  /\ volume = "decoy" /\ volume' = "hidden"
  /\ UNCHANGED <<disk, cmd, result, err, seen>>

\* Before it switches, the firmware may blank sectors of the decoy volume: the
\* file the password was typed into.
Tidy ==
  /\ cmd = NoCmd
  /\ volume = "decoy"
  /\ disk'.hidden = disk.hidden
  /\ \A l \in DOMAIN disk.decoy : disk'.decoy[l] \in {disk.decoy[l], "zero"}
  /\ UNCHANGED <<volume, cmd, result, err, seen>>

Next == Accept \/ Perform \/ Complete \/ Discard \/ Switch \/ Tidy

Spec == Init /\ [][Next]_vars
=============================================================================
