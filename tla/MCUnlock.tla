------------------------------ MODULE MCUnlock ------------------------------
(***************************************************************************)
(* A decoy of two sectors: the file's data and the root directory.  The    *)
(* host writes the password with the directory entry (which a card failure *)
(* may keep off the card), writes an empty password line, reads a sector   *)
(* and asks for the capacity.                                              *)
(***************************************************************************)
EXTENDS Unlock

Cbw(op, dir, len) == [op |-> op, dir |-> dir, len |-> len, lba |-> 0, n |-> 0, data |-> <<>>]
Write(lba, data) ==
  [op |-> "WRITE10", dir |-> "out", len |-> Len(data), lba |-> lba, n |-> Len(data), data |-> data]
Read(lba, n) ==
  [op |-> "READ10", dir |-> "in", len |-> n, lba |-> lba, n |-> n, data |-> <<>>]

UnlockCommands ==
  {Write(0, <<"pw", "dir">>), Write(0, <<"empty">>), Read(0, 1),
   Cbw("READ_CAPACITY", "in", 1)}

\* What VolumeProofs assumes of the CBWs.
ASSUME WellFormedAssumption == WellFormed /\ PagesHaveData
=============================================================================
