----------------------------- MODULE SnoopCard -----------------------------
(***************************************************************************)
(* Snoop and the decoy volume it guards: what the card holds after writes  *)
(* that need not follow one another.                                       *)
(***************************************************************************)
EXTENDS Snoop

CONSTANT SECTORS              \* LOCKED_SECTORS

VARIABLE card                 \* the bytes of the decoy volume, from 1

cardVars == <<vars, card>>

CardInit == Init /\ card = [k \in 1 .. SECTORS * SECTOR |-> Zero]

\* A write in the volume's range.
CardChunk == NewChunk /\ lba' * SECTOR + len' <= SECTORS * SECTOR /\ UNCHANGED card

\* write_chunk_to_sd, with the bytes as the snooper left them.
CardChunkEnds ==
  /\ ChunkEnds
  /\ card' = [k \in DOMAIN card |->
                LET i == k - lba * SECTOR
                IN IF i \in 1 .. len THEN out[Len(out) - len + i] ELSE card[k]]

CardNext == CardChunk \/ (ScanByte /\ UNCHANGED card) \/ CardChunkEnds

CardSpec == CardInit /\ [][CardNext]_cardVars

\* The card holds the whole prefix just before the chunk.
PrefixBefore ==
  LET first == lba * SECTOR
  IN /\ first >= Len(PREFIX)
     /\ SubSeq(card, first - Len(PREFIX) + 1, first) = PREFIX

(* readme.md:95, "values following it are captured in RAM and zeroed       *)
(* before SD writes": a chunk whose first byte follows a prefix that is    *)
(* already on the card begins with a blank or with the value's end.        *)
FollowingValuesZeroed ==
  [][ (at # "idle" /\ at' = "idle" /\ PrefixBefore)
      => Terminator(card'[lba * SECTOR + 1]) ]_cardVars

(* phantomdrive.c:248, the scan goes on if start_lba is next_write_lba:    *)
(* a chunk that continues the write before it does keep the promise.       *)
ContinuedValuesZeroed ==
  [][ (at # "idle" /\ at' = "idle" /\ PrefixBefore /\ Len(stream) > len)
      => Terminator(card'[lba * SECTOR + 1]) ]_cardVars
=============================================================================
