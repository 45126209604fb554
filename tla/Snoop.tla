------------------------------- MODULE Snoop -------------------------------
(***************************************************************************)
(* The password snooper of phantomdrive.c: every chunk of a write to the   *)
(* decoy volume is scanned for "password:", and what follows it, up to a   *)
(* terminator, is copied to RAM and blanked before the chunk goes to the   *)
(* card.  The scan goes on from chunk to chunk as long as each begins      *)
(* where the last one ended.  A step is one iteration of one of the loops; *)
(* a byte of the chunk is chosen when the scan reads it.  The search for   *)
(* the scrubbed file, unlock_file.c, is at the end.                        *)
(***************************************************************************)
EXTENDS Integers, Sequences

CONSTANTS
  Bytes,        \* the bytes the host writes
  Zero,         \* what memset leaves
  Terminators,  \* '\n', '\r' and '\0'
  PREFIX,       \* "password:"
  SECTOR,       \* SECTOR_SIZE
  MAXPW,        \* UNLOCK_PASSWORD_MAX
  Lbas,         \* where the host starts a write that does not follow another
  ChunkSizes,   \* lengths of a chunk, in sectors
  MAXRUN        \* bound: bytes of contiguous writes

ASSUME ByteAssumption == Zero \in Terminators
ASSUME PrefixAssumption ==
  /\ PREFIX \in Seq(Bytes \ Terminators) /\ Len(PREFIX) > 1
  \* which is why a mismatch has to look at one byte only
  /\ \A m \in 2 .. Len(PREFIX) : PREFIX[m] # PREFIX[1]
ASSUME SizeAssumption ==
  /\ SECTOR \in Nat \ {0} /\ MAXPW \in Nat \ {0}
  /\ Lbas \subseteq Nat /\ ChunkSizes \subseteq Nat \ {0} /\ MAXRUN \in Nat

VARIABLES
  at,           \* "idle", or the loop: "continue", "search" or "value"
  lba, len,     \* the chunk: its first sector, its length in bytes
  pos,          \* index of the next byte in it
  matched,      \* prefix_match_len
  partial,      \* pw_partial
  pw, pwLen,    \* pending_pw as far as it is filled, pending_pw_len
  pwLba,        \* pending_pw_lba
  pwOffset,     \* pending_pw_offset
  nextLba,      \* next_write_lba
  pstate,       \* phantomdrive_state: "LOCKED" or "PENDING"
  stream,       \* history: what the host wrote since the last gap
  out           \* history: the same as it goes to the card

chunk == <<lba, len, nextLba>>
pending == <<pw, pwLen, pwLba, pwOffset>>
vars == <<at, chunk, pos, matched, partial, pending, pstate, stream, out>>

Least(a, b) == IF a < b THEN a ELSE b
Terminator(c) == c \in Terminators

Init ==
  /\ at = "idle" /\ lba = 0 /\ len = 0 /\ pos = 0
  /\ matched = 0 /\ partial = FALSE
  /\ pw = <<>> /\ pwLen = 0 /\ pwLba = 0 /\ pwOffset = 0
  /\ nextLba = 0 /\ pstate = "LOCKED"
  /\ stream = <<>> /\ out = <<>>

(* phantomdrive_snoop_write: a chunk that does not follow the last one     *)
(* starts afresh; one that does goes on with the value left open.          *)
Chunk(l, n) ==
  /\ at = "idle"
  /\ lba' = l /\ len' = n * SECTOR /\ pos' = 0
  /\ nextLba' = l + n
  /\ IF l # nextLba
       THEN partial' = FALSE /\ matched' = 0 /\ stream' = <<>> /\ out' = <<>>
       ELSE UNCHANGED <<partial, matched, stream, out>>
  /\ Len(stream') + len' <= MAXRUN
  /\ at' = IF partial' THEN "continue" ELSE "search"
  /\ UNCHANGED <<pending, pstate>>

\* The byte under the scan, and what becomes of it.
Take(c, d) ==
  /\ pos < len
  /\ pos' = pos + 1
  /\ stream' = Append(stream, c)
  /\ out' = Append(out, d)

\* A byte of the value: beyond the limit it is counted once more and lost.
KeepByte(c) ==
  /\ pw' = IF pwLen < MAXPW THEN Append(pw, c) ELSE pw
  /\ pwLen' = IF pwLen <= MAXPW THEN pwLen + 1 ELSE pwLen

ValueByte(c) ==
  /\ at \in {"continue", "value"}
  /\ ~Terminator(c)
  /\ Take(c, Zero)
  /\ KeepByte(c)
  /\ UNCHANGED <<at, chunk, matched, partial, pwLba, pwOffset, pstate>>

(* finish_password_snoop: an empty value is forgotten.                     *)
ValueEnds(c) ==
  /\ at \in {"continue", "value"}
  /\ Terminator(c)
  /\ Take(c, c)
  /\ partial' = FALSE /\ matched' = 0
  /\ IF pwLen = 0 THEN pw' = <<>> /\ UNCHANGED pstate
                  ELSE pstate' = "PENDING" /\ UNCHANGED pw
  /\ at' = "search"
  /\ UNCHANGED <<chunk, pwLen, pwLba, pwOffset>>

\* Searching: the byte continues the prefix, completes it, or does neither.
Continues(c) == c = PREFIX[matched + 1]

Match(c) ==
  /\ at = "search"
  /\ Continues(c) /\ matched + 1 < Len(PREFIX)
  /\ Take(c, c)
  /\ matched' = matched + 1
  /\ UNCHANGED <<at, chunk, partial, pending, pstate>>

MutPrefix_KeepLength(c) ==
  /\ at = "search"
  /\ Continues(c) /\ matched + 1 = Len(PREFIX)
  /\ Take(c, c)
  /\ partial' = FALSE /\ matched' = 0
  /\ pw' = <<>> /\ UNCHANGED pwLen
  /\ pwLba' = lba + (pos \div SECTOR)
  /\ pwOffset' = (pos % SECTOR) + 1
  /\ at' = "value"
  /\ UNCHANGED <<chunk, pstate>>
MutPrefix_OffsetOfColon(c) ==
  /\ at = "search"
  /\ Continues(c) /\ matched + 1 = Len(PREFIX)
  /\ Take(c, c)
  /\ partial' = FALSE /\ matched' = 0
  /\ pw' = <<>> /\ pwLen' = 0
  /\ pwLba' = lba + (pos \div SECTOR)
  /\ pwOffset' = pos % SECTOR
  /\ at' = "value"
  /\ UNCHANGED <<chunk, pstate>>
MutPrefix_ChunkLba(c) ==
  /\ at = "search"
  /\ Continues(c) /\ matched + 1 = Len(PREFIX)
  /\ Take(c, c)
  /\ partial' = FALSE /\ matched' = 0
  /\ pw' = <<>> /\ pwLen' = 0
  /\ pwLba' = lba
  /\ pwOffset' = (pos % SECTOR) + 1
  /\ at' = "value"
  /\ UNCHANGED <<chunk, pstate>>
PrefixFound(c) ==
  /\ at = "search"
  /\ Continues(c) /\ matched + 1 = Len(PREFIX)
  /\ Take(c, c)
  /\ partial' = FALSE /\ matched' = 0
  /\ pw' = <<>> /\ pwLen' = 0
  /\ pwLba' = lba + (pos \div SECTOR)
  /\ pwOffset' = (pos % SECTOR) + 1
  /\ at' = "value"
  /\ UNCHANGED <<chunk, pstate>>

MutMismatch_Forget(c) ==
  /\ at = "search"
  /\ ~Continues(c)
  /\ Take(c, c)
  /\ matched' = 0
  /\ UNCHANGED <<at, chunk, partial, pending, pstate>>
Mismatch(c) ==
  /\ at = "search"
  /\ ~Continues(c)
  /\ Take(c, c)
  /\ matched' = IF c = PREFIX[1] THEN 1 ELSE 0
  /\ UNCHANGED <<at, chunk, partial, pending, pstate>>

Scan(c) == ValueByte(c) \/ ValueEnds(c) \/ Match(c) \/ PrefixFound(c) \/ Mismatch(c)

(* The chunk goes to the card; a value it left open stays open.            *)
ChunkEnds ==
  /\ at # "idle"
  /\ pos = len
  /\ partial' = (at = "value" \/ partial)
  /\ pstate' = IF at = "value" THEN "PENDING" ELSE pstate
  /\ at' = "idle"
  /\ UNCHANGED <<chunk, pos, matched, pending, stream, out>>

NewChunk == \E l \in Lbas \cup {nextLba}, n \in ChunkSizes : Chunk(l, n)
ScanByte == \E c \in Bytes : Scan(c)

Next == NewChunk \/ ScanByte \/ ChunkEnds

Spec == Init /\ [][Next]_vars

----------------------------------------------------------------------------
(* Reference: what is a password value in a stream, whatever its chunks.   *)
PrefixEnds(j) ==
  /\ j \in Len(PREFIX) .. Len(stream)
  /\ \A m \in 1 .. Len(PREFIX) : stream[j - Len(PREFIX) + m] = PREFIX[m]

\* A value is open after k bytes: a prefix, and no terminator since.
Open(k) == \E j \in 1 .. k : PrefixEnds(j) /\ \A t \in j + 1 .. k : ~Terminator(stream[t])
InValue(k) == Open(k - 1) /\ ~Terminator(stream[k])

Begins(j) == PrefixEnds(j) /\ ~Open(j - 1)
LastBegins(j) == Begins(j) /\ \A i \in j + 1 .. Len(stream) : ~Begins(i)

\* The length of the value that begins after j.
ValueLength(j) ==
  CHOOSE n \in 0 .. Len(stream) - j :
    /\ \A k \in j + 1 .. j + n : InValue(k)
    /\ j + n < Len(stream) => ~InValue(j + n + 1)

\* The sector of the stream's first byte, and that of its byte j.
FirstLba == lba - ((Len(stream) - pos) \div SECTOR)
LbaOf(j) == FirstLba + ((j - 1) \div SECTOR)

(* matches_scrubbed_password of unlock_file.c, for the first size bytes of *)
(* a file: where the snooper says the password was, it has been blanked.   *)
Matches(contents, size) ==
  LET length == Least(pwLen, size - pwOffset)
      end == pwOffset + length
  IN /\ pwOffset >= Len(PREFIX) /\ pwOffset < size
     /\ SubSeq(contents, pwOffset - Len(PREFIX) + 1, pwOffset) = PREFIX
     /\ length \in 1 .. MAXPW
     /\ \A k \in pwOffset + 1 .. end : contents[k] = Zero
     /\ end < size => Terminator(contents[end + 1])

(* file_contains_scrubbed_password: of a file whose first sector is sect,  *)
(* which FatFs holds in file.sect after reading less than a sector.        *)
Contains(sect, contents, size) == sect = pwLba /\ Matches(contents, size)

----------------------------------------------------------------------------
(* Type invariant: no index leaves pending_pw or the prefix.               *)
TypeOK ==
  /\ at \in {"idle", "continue", "search", "value"}
  /\ lba \in Nat /\ len \in Nat /\ nextLba \in Nat /\ pos \in 0 .. len
  /\ matched \in 0 .. Len(PREFIX) - 1 /\ partial \in BOOLEAN
  /\ pw \in Seq(Bytes) /\ Len(pw) = Least(pwLen, MAXPW) /\ pwLen \in 0 .. MAXPW + 1
  /\ pwLba \in Nat /\ pwOffset \in 0 .. SECTOR
  /\ pstate \in {"LOCKED", "PENDING"}
  /\ stream \in Seq(Bytes) /\ out \in Seq(Bytes \cup {Zero})

(* However contiguous writes are cut into chunks, every byte of every      *)
(* value is blanked on its way to the card and no other byte is touched.   *)
ValuesScrubbed ==
  /\ Len(out) = Len(stream)
  /\ \A k \in 1 .. Len(stream) : out[k] = IF InValue(k) THEN Zero ELSE stream[k]

(* The pending password is the last value of the stream, from its first    *)
(* byte on and as far as there is room, together with its length and the   *)
(* place where the file search will look for it: the sector in which its   *)
(* prefix ends, wherever the chunk began, and the offset behind it.        *)
PasswordCaptured ==
  at = "idle" =>
    \A j \in 1 .. Len(stream) : LastBegins(j) =>
      /\ pwLen = Least(ValueLength(j), MAXPW + 1)
      /\ pw = SubSeq(stream, j + 1, j + Least(ValueLength(j), MAXPW))
      /\ pwLba = LbaOf(j) /\ pwOffset = ((j - 1) % SECTOR) + 1
      /\ pwLen > 0 => pstate = "PENDING"
      /\ partial = (j + ValueLength(j) = Len(stream))

(* The file search recognises the file the password was typed into, a file *)
(* in one sector, of any size that holds the prefix and a first byte, just *)
(* if all of the value in the file was kept: never a password cut short.   *)
FileRecognised ==
  at = "idle" =>
    \A j \in 1 .. Len(stream) : LastBegins(j) /\ ValueLength(j) > 0 =>
      LET first == ((j - 1) \div SECTOR) * SECTOR
          inSector == j - first
          contents == SubSeq(out, first + 1, first + SECTOR)
      IN \A size \in 1 .. SECTOR :
           (inSector >= Len(PREFIX) /\ inSector < size) =>
             (Contains(LbaOf(j), contents, size)
                <=> Least(ValueLength(j), size - inSector) <= MAXPW)
=============================================================================
