------------------------------- MODULE MCBot -------------------------------
(***************************************************************************)
(* Two sectors of decoy, three of hidden volume.  Two-sector writes fail   *)
(* after the first or the second chunk; reads lie in the decoy, straddle   *)
(* its end and lie beyond it.                                              *)
(***************************************************************************)
EXTENDS Bot

Cbw(op, dir, len) == [op |-> op, dir |-> dir, len |-> len, lba |-> 0, n |-> 0, data |-> <<>>]
ReadCbw(lba, n) == [op |-> "READ10", dir |-> "in", len |-> n, lba |-> lba, n |-> n, data |-> <<>>]
WriteCbw(lba, data) ==
  [op |-> "WRITE10", dir |-> "out", len |-> Len(data), lba |-> lba, n |-> Len(data), data |-> data]

Inquiries ==
  {Cbw("INQUIRY", "in", 1), Cbw("READ_CAPACITY", "in", 1), Cbw("MODE_SENSE", "in", 1),
   Cbw("REQUEST_SENSE", "in", 1)}
Acknowledged == {Cbw("TEST_READY", "in", 0), Cbw("VERIFY10", "out", 0)}
Refused ==
  {Cbw("UNSUPPORTED", "in", 0), [Cbw("UNSUPPORTED", "out", 1) EXCEPT !.data = <<"a">>],
   Cbw("MODE_SENSE10_PAGE", "in", 1),
   Cbw("BAD_SIGNATURE", "in", 1)}
Reads == {ReadCbw(0, 2), ReadCbw(1, 2), ReadCbw(2, 1), ReadCbw(0, 0)}
Writes == {WriteCbw(0, <<"pw", "a">>), WriteCbw(1, <<"a">>)}
BotCommands == Inquiries \cup Acknowledged \cup Refused \cup Reads \cup Writes

\* What VolumeProofs assumes of the CBWs.
ASSUME WellFormedAssumption == Commands = BotCommands => WellFormed /\ PagesHaveData

\* VERIFY(10) with BYTCHK: the host sends the data to compare.
VerifyCommands == {[Cbw("VERIFY10", "out", 1) EXCEPT !.data = <<"a">>], WriteCbw(1, <<"a">>)}
=============================================================================
