-------------------------- MODULE SnoopValueProofs --------------------------
(***************************************************************************)
(* Proofs about the password itself, for any prefix whose first byte       *)
(* occurs in it once, any sector size and limit, and writes of any length: *)
(* what Snoop keeps is the last value of the stream, and the file search   *)
(* finds that value where the snooper says it was.                         *)
(*                                                                         *)
(* Neither is inductive: both speak of the moments between two chunks.     *)
(* Within a chunk, Keeps says how much of the last value has been kept so  *)
(* far and that nothing more has been seen of it; Aligned ties a place in  *)
(* the chunk to one in the stream, which is what makes pending_pw_lba and  *)
(* pending_pw_offset, computed from the chunk, a place in the stream.      *)
(***************************************************************************)
EXTENDS SnoopProofs, SnoopCard

\* The value that begins after j has n bytes in the stream so far.
ValueIs(j, n) ==
  /\ n \in 0 .. Len(stream) - j
  /\ \A k \in j + 1 .. j + n : InValue(k)
  /\ j + n < Len(stream) => ~InValue(j + n + 1)

Keeps(j, n) ==
  /\ ValueIs(j, n)
  /\ Open(Len(stream)) <=> j + n = Len(stream)
  /\ pwLen = Least(n, MAXPW + 1)
  /\ \A i \in 1 .. Least(n, MAXPW) : pw[i] = stream[j + i]
  /\ pwOffset = ((j - 1) % SECTOR) + 1
  /\ pwLba = LbaOf(j)

Captured == \A j \in 1 .. Len(stream) : LastBegins(j) => \E n \in Nat : Keeps(j, n)

\* A password kept so far is pending, but for one the chunk has only begun.
Taken == partial \/ (at # "value" /\ pwLen > 0) => pstate = "PENDING"

Aligned ==
  /\ \E q \in Nat : Len(stream) = q * SECTOR + pos
  /\ \E r \in Nat : len = r * SECTOR /\ nextLba = lba + r
  /\ at = "idle" => pos = len

(* The inductive invariant, on top of that of SnoopProofs.                 *)
VInv == IInv /\ Captured /\ Taken /\ Aligned

USE ByteAssumption, PrefixFacts, SizeAssumption

----------------------------------------------------------------------------
(* What one more byte leaves as it was.                                    *)

\* A value that begins at an earlier byte, and the bytes of values.
LEMMA ValuesStay ==
  ASSUME TypeOK, NEW c \in Bytes, stream' = Append(stream, c),
         NEW j \in 1 .. Len(stream)
  PROVE  (Begins(j)' <=> Begins(j)) /\ (InValue(j)' <=> InValue(j))
<1>1. PrefixEnds(j)' <=> PrefixEnds(j)
  BY PrefixStays
<1>2. j - 1 \in 0 .. Len(stream)
  BY Appended
<1>3. Open(j - 1)' <=> Open(j - 1)
  BY <1>2, OpenStays
<1>4. stream'[j] = stream[j]
  BY Appended
<1> QED
  BY <1>1, <1>3, <1>4 DEF Begins, InValue, Terminator

\* The new byte is in a value if one was open and it does not end it.
LEMMA NewByteInValue ==
  ASSUME TypeOK, NEW c \in Bytes, stream' = Append(stream, c),
         NEW k, k = Len(stream) + 1
  PROVE  InValue(k)' <=> Open(Len(stream)) /\ ~Terminator(c)
<1>1. Len(stream) \in Nat /\ stream'[k] = c
  BY Appended
<1>2. k - 1 \in 0 .. Len(stream) /\ k - 1 = Len(stream)
  BY <1>1
<1>3. Open(k - 1)' <=> Open(k - 1)
  BY <1>2, OpenStays
<1> QED
  BY <1>1, <1>2, <1>3 DEF InValue, Terminator

\* If no value begins at the new byte, the last one is what it was.
LEMMA LastStays ==
  ASSUME TypeOK, NEW c \in Bytes, stream' = Append(stream, c), ~Begins(Len(stream))',
         NEW j \in 1 .. Len(stream'), LastBegins(j)'
  PROVE  j \in 1 .. Len(stream) /\ LastBegins(j)
<1>1. Len(stream) \in Nat /\ Len(stream') = Len(stream) + 1
  BY Appended
<1>2. Begins(j)' /\ \A i \in j + 1 .. Len(stream') : ~Begins(i)'
  BY DEF LastBegins
<1>3. j # Len(stream')
  BY <1>2
<1>4. j \in 1 .. Len(stream)
  BY <1>1, <1>3
<1>5. \A i \in j + 1 .. Len(stream) : i \in 1 .. Len(stream) /\ i \in j + 1 .. Len(stream')
  BY <1>1, <1>4
<1>6. Begins(j) /\ \A i \in j + 1 .. Len(stream) : ~Begins(i)
  BY <1>2, <1>4, <1>5, ValuesStay
<1> QED
  BY <1>4, <1>6 DEF LastBegins

\* An open value grows by a byte that does not end it.
LEMMA ValueGrows ==
  ASSUME TypeOK, NEW c \in Bytes, stream' = Append(stream, c),
         Open(Len(stream)), ~Terminator(c),
         NEW j \in 1 .. Len(stream), NEW n \in Nat, ValueIs(j, n), j + n = Len(stream)
  PROVE  ValueIs(j, n + 1)'
<1>1. Len(stream) \in Nat /\ Len(stream') = Len(stream) + 1
  BY Appended
<1>2. ASSUME NEW k \in j + 1 .. j + (n + 1) PROVE InValue(k)'
  <2>1. CASE k = Len(stream) + 1
    BY <2>1, NewByteInValue
  <2>2. CASE k # Len(stream) + 1
    <3>1. k \in Nat /\ j + 1 <= k /\ k <= (j + n) + 1 /\ k # (j + n) + 1
      BY <2>2
    <3>2. k \in j + 1 .. j + n
      BY <3>1
    <3>3. k \in 1 .. Len(stream)
      BY <3>1
    <3> QED
      BY <3>2, <3>3, ValuesStay DEF ValueIs
  <2> QED
    BY <2>1, <2>2
<1>3. n + 1 \in 0 .. Len(stream') - j /\ ~(j + (n + 1) < Len(stream'))
  BY <1>1
<1> QED
  BY <1>2, <1>3 DEF ValueIs

\* A value that has ended, or that the byte ends, stays as it is.
LEMMA ValueRests ==
  ASSUME TypeOK, NEW c \in Bytes, stream' = Append(stream, c),
         NEW j \in 1 .. Len(stream), NEW n \in Nat, ValueIs(j, n),
         j + n < Len(stream) \/ Terminator(c)
  PROVE  ValueIs(j, n)'
<1>1. Len(stream) \in Nat /\ Len(stream') = Len(stream) + 1
  BY Appended
<1>2. n \in 0 .. Len(stream) - j
  BY DEF ValueIs
<1>3. ASSUME NEW k \in j + 1 .. j + n PROVE InValue(k)'
  <2>1. k \in 1 .. Len(stream)
    BY <1>1, <1>2
  <2> QED
    BY <2>1, ValuesStay DEF ValueIs
<1>4. ~InValue(j + n + 1)'
  <2>1. CASE j + n < Len(stream)
    <3>1. j + n + 1 \in 1 .. Len(stream) /\ ~InValue(j + n + 1)
      BY <1>1, <2>1 DEF ValueIs
    <3> QED
      BY <3>1, ValuesStay
  <2>2. CASE j + n >= Len(stream)
    <3>1. j + n + 1 = Len(stream) + 1 /\ Terminator(c)
      BY <1>1, <1>2, <2>2
    <3> QED
      BY <3>1, NewByteInValue
  <2>3. j + n < Len(stream) \/ j + n >= Len(stream)
    BY <1>1
  <2> QED
    BY <2>1, <2>2, <2>3
<1>5. n \in 0 .. Len(stream') - j
  BY <1>1, <1>2
<1> QED
  BY <1>3, <1>4, <1>5 DEF ValueIs

\* Of a value that has ended, what was kept is still what there is to keep.
LEMMA KeepsRests ==
  ASSUME TypeOK, NEW c \in Bytes, stream' = Append(stream, c),
         NEW j \in 1 .. Len(stream), NEW n \in Nat, Keeps(j, n),
         j + n < Len(stream) \/ Terminator(c), ~Open(Len(stream))',
         pwLen' = pwLen, pwOffset' = pwOffset, pwLba' = pwLba, LbaOf(j)' = LbaOf(j),
         n > 0 => pw' = pw
  PROVE  Keeps(j, n)'
<1>1. Len(stream) \in Nat /\ Len(stream') = Len(stream) + 1
  BY Appended
<1>2. ValueIs(j, n)'
  BY ValueRests DEF Keeps
<1>3. n \in 0 .. Len(stream) - j
  BY DEF Keeps, ValueIs
<1>4. j + n # Len(stream')
  BY <1>1, <1>3
<1>5. ASSUME NEW i \in 1 .. Least(n, MAXPW) PROVE pw'[i] = stream'[j + i]
  <2>1. n > 0 /\ i \in 1 .. n
    BY DEF Least
  <2>2. j + i \in 1 .. Len(stream) /\ pw' = pw
    BY <1>1, <1>3, <2>1
  <2>3. pw[i] = stream[j + i]
    BY DEF Keeps
  <2> QED
    BY <2>2, <2>3, Appended
<1>6. /\ pwLen' = Least(n, MAXPW + 1) /\ pwOffset' = ((j - 1) % SECTOR) + 1
      /\ pwLba' = LbaOf(j)'
  BY DEF Keeps
<1> QED
  BY <1>2, <1>4, <1>5, <1>6 DEF Keeps, Least

----------------------------------------------------------------------------
(* Where a byte lies in its sector.                                        *)

\* Quotient and remainder of a place in the stream.
LEMMA Division ==
  ASSUME NEW x \in Nat
  PROVE  /\ x \div SECTOR \in Nat /\ x % SECTOR \in 0 .. SECTOR - 1
         /\ x = SECTOR * (x \div SECTOR) + (x % SECTOR)
  OBVIOUS

\* A multiple of the sector beyond another is a whole sector beyond it.
LEMMA Multiples ==
  ASSUME NEW a \in Nat, NEW b \in Nat, a < b
  PROVE  SECTOR * a + SECTOR <= SECTOR * b
<1>1. PICK d \in Nat : b = a + 1 + d
  <2>1. b - a - 1 \in Nat /\ b = a + 1 + (b - a - 1)
    OBVIOUS
  <2> QED
    BY <2>1
<1>2. SECTOR * b = SECTOR * a + SECTOR + SECTOR * d
  BY <1>1
<1>3. SECTOR * d >= 0
  OBVIOUS
<1>4. SECTOR * a \in Nat
  OBVIOUS
<1> QED
  BY <1>2, <1>3, <1>4

\* There is one way to write a place as whole sectors and a rest.
LEMMA OneRest ==
  ASSUME NEW a \in Nat, NEW b \in Nat,
         NEW r \in 0 .. SECTOR - 1, NEW s \in 0 .. SECTOR - 1,
         SECTOR * a + r = SECTOR * b + s
  PROVE  a = b /\ r = s
<1>1. PICK x \in Nat : x = SECTOR * a
  OBVIOUS
<1>2. PICK y \in Nat : y = SECTOR * b
  OBVIOUS
<1>3. a < b => x + SECTOR <= y
  BY <1>1, <1>2, Multiples
<1>4. b < a => y + SECTOR <= x
  BY <1>1, <1>2, Multiples
<1>5. x + r = y + s
  BY <1>1, <1>2
<1>6. ~(x + SECTOR <= y) /\ ~(y + SECTOR <= x)
  BY <1>5
<1>7. a = b
  BY <1>3, <1>4, <1>6
<1>8. x = y
  BY <1>1, <1>2, <1>7
<1> QED
  BY <1>5, <1>7, <1>8

\* Whole sectors before a byte do not change its place in its own, and
\* move that sector by their number.
LEMMA SamePlace ==
  ASSUME NEW q \in Nat, NEW p \in Nat
  PROVE  /\ (q * SECTOR + p) % SECTOR = p % SECTOR
         /\ (q * SECTOR + p) \div SECTOR = q + (p \div SECTOR)
<1>1. PICK x \in Nat : x = q * SECTOR + p
  <2>1. q * SECTOR \in Nat
    OBVIOUS
  <2> QED
    BY <2>1
<1>2. PICK a \in Nat : a = x \div SECTOR /\ x = SECTOR * a + (x % SECTOR)
  BY Division
<1>3. PICK d \in Nat : d = p \div SECTOR /\ p = SECTOR * d + (p % SECTOR)
  BY Division
<1>4. x % SECTOR \in 0 .. SECTOR - 1 /\ p % SECTOR \in 0 .. SECTOR - 1
  BY Division
<1>5. PICK r \in 0 .. SECTOR - 1 : r = x % SECTOR
  BY <1>4
<1>6. PICK s \in 0 .. SECTOR - 1 : s = p % SECTOR
  BY <1>4
<1>7. SECTOR * (q + d) = q * SECTOR + SECTOR * d
  OBVIOUS
<1>8. PICK u \in Nat : u = q * SECTOR
  OBVIOUS
<1>9. PICK v \in Nat : v = SECTOR * d
  OBVIOUS
<1>10. SECTOR * (q + d) + s = SECTOR * a + r
  <2>1. SECTOR * (q + d) = u + v
    BY <1>7, <1>8, <1>9
  <2>2. x = u + p /\ p = v + s
    BY <1>1, <1>3, <1>6, <1>8, <1>9
  <2>3. u + v + s = x
    BY <2>2
  <2> QED
    BY <1>2, <1>5, <2>1, <2>3
<1>11. q + d \in Nat
  OBVIOUS
<1>12. q + d = a /\ r = s
  BY <1>10, <1>11, OneRest
<1> QED
  BY <1>1, <1>2, <1>3, <1>5, <1>6, <1>12

\* The whole sectors before a place.
LEMMA SectorsBefore ==
  ASSUME NEW q \in Nat, NEW p \in Nat, NEW k, k = q * SECTOR + p
  PROVE  (k - p) \div SECTOR = q
<1>1. k - p = q * SECTOR + 0
  <2>1. q * SECTOR \in Nat
    OBVIOUS
  <2> QED
    BY <2>1
<1>2. (q * SECTOR + 0) \div SECTOR = q + (0 \div SECTOR)
  BY SamePlace
<1>3. 0 \div SECTOR = 0
  OBVIOUS
<1> QED
  BY <1>1, <1>2, <1>3

\* A byte moves the scan and the end of the stream alike.
LEMMA ScanFirst ==
  ASSUME TypeOK, NEW c \in Bytes, NEW d, Take(c, d), UNCHANGED lba
  PROVE  FirstLba' = FirstLba
<1>1. Len(stream) \in Nat /\ Len(stream') = Len(stream) + 1 /\ pos' = pos + 1 /\ pos \in Nat
  BY Appended DEF Take, TypeOK
<1>2. Len(stream') - pos' = Len(stream) - pos
  BY <1>1
<1> QED
  BY <1>2 DEF FirstLba

\* A chunk that continues the stream begins where the one before it ended.
LEMMA ChunkFirst ==
  ASSUME TypeOK, Aligned, NEW n \in ChunkSizes, Chunk(nextLba, n)
  PROVE  FirstLba' = FirstLba
<1>1. PICK q \in Nat : Len(stream) = q * SECTOR + pos
  BY DEF Aligned
<1>2. PICK r \in Nat : len = r * SECTOR /\ nextLba = lba + r
  BY DEF Aligned
<1>3. /\ pos = len /\ stream' = stream /\ lba' = nextLba /\ pos' = 0
  BY DEF Aligned, Chunk
<1>4. pos \in Nat /\ pos' \in Nat
  BY <1>3 DEF TypeOK
<1>5. q * SECTOR + r * SECTOR = (q + r) * SECTOR /\ q + r \in Nat
  OBVIOUS
<1>6. Len(stream') = (q + r) * SECTOR + pos'
  <2>1. (q + r) * SECTOR \in Nat
    BY <1>5
  <2> QED
    BY <1>1, <1>2, <1>3, <1>5, <2>1
<1>7. FirstLba = lba - q
  BY <1>1, <1>4, SectorsBefore DEF FirstLba
<1>8. FirstLba' = lba' - (q + r)
  BY <1>4, <1>5, <1>6, SectorsBefore DEF FirstLba
<1>9. lba \in Nat
  BY DEF TypeOK
<1>10. PICK m \in Nat : m = lba
  BY <1>9
<1>11. lba' = m + r
  BY <1>2, <1>3, <1>10
<1> QED
  BY <1>7, <1>8, <1>10, <1>11

\* The place of a byte moves with the stream's first sector only.
LEMMA SameLba ==
  ASSUME FirstLba' = FirstLba, NEW j
  PROVE  LbaOf(j)' = LbaOf(j)
BY DEF LbaOf

----------------------------------------------------------------------------
(* The steps.                                                              *)

\* The scan and the stream advance together, a chunk by whole sectors.
LEMMA AlignedStep == TypeOK /\ Aligned /\ [Next]_vars => Aligned'
<1> SUFFICES ASSUME TypeOK, Aligned, [Next]_vars PROVE Aligned'
  OBVIOUS
<1>1. PICK q \in Nat : Len(stream) = q * SECTOR + pos
  BY DEF Aligned
<1>2. PICK r \in Nat : len = r * SECTOR /\ nextLba = lba + r
  BY DEF Aligned
<1>3. q * SECTOR \in Nat /\ r * SECTOR \in Nat /\ pos \in Nat /\ len \in Nat
  BY DEF TypeOK
<1>4. CASE NewChunk
  <2>1. PICK l \in Lbas \cup {nextLba}, n \in ChunkSizes : Chunk(l, n)
    BY <1>4 DEF NewChunk
  <2>2. /\ n \in Nat /\ len' = n * SECTOR /\ pos' = 0 /\ at = "idle" /\ at' # "idle"
        /\ nextLba' = lba' + n
    BY <2>1 DEF Chunk
  <2>3. \E k \in Nat : Len(stream') = k * SECTOR + pos'
    <3>1. CASE l # nextLba
      <4>1. stream' = <<>>
        BY <2>1, <3>1 DEF Chunk
      <4>2. Len(stream') = 0 * SECTOR + pos'
        BY <2>2, <4>1
      <4> QED
        BY <4>2
    <3>2. CASE l = nextLba
      <4>1. stream' = stream
        BY <2>1, <3>2 DEF Chunk
      <4>2. pos = len
        BY <2>2 DEF Aligned
      <4>3. q * SECTOR + r * SECTOR = (q + r) * SECTOR
        OBVIOUS
      <4>4. Len(stream') = (q + r) * SECTOR + pos'
        BY <1>1, <1>2, <1>3, <2>2, <4>1, <4>2, <4>3
      <4>5. q + r \in Nat
        OBVIOUS
      <4> QED
        BY <4>4, <4>5
    <3> QED
      BY <3>1, <3>2
  <2> QED
    BY <2>2, <2>3 DEF Aligned
<1>5. CASE ScanByte
  <2>1. PICK c \in Bytes : Scan(c)
    BY <1>5 DEF ScanByte
  <2>2. /\ at # "idle" /\ at' # "idle" /\ pos' = pos + 1 /\ stream' = Append(stream, c)
        /\ len' = len /\ lba' = lba /\ nextLba' = nextLba
    BY <2>1 DEF Scan, ValueByte, ValueEnds, Match, PrefixFound, Mismatch, Take, chunk
  <2>3. Len(stream') = Len(stream) + 1
    BY <2>2, Appended
  <2>4. Len(stream') = q * SECTOR + pos'
    BY <1>1, <1>3, <2>2, <2>3
  <2> QED
    BY <1>2, <2>2, <2>4 DEF Aligned
<1>6. CASE ChunkEnds
  BY <1>1, <1>2, <1>6 DEF ChunkEnds, chunk, Aligned
<1>7. CASE UNCHANGED vars
  BY <1>1, <1>2, <1>7 DEF vars, chunk, Aligned
<1> QED
  BY <1>4, <1>5, <1>6, <1>7 DEF Next

\* Where a value ends with something kept of it, it is pending by then.
LEMMA TakenStep == IInv /\ Taken /\ [Next]_vars => Taken'
<1> SUFFICES ASSUME IInv, Taken, [Next]_vars PROVE Taken'
  OBVIOUS
<1>1. pwLen \in Nat /\ partial \in BOOLEAN /\ (at = "continue" => partial)
  BY DEF IInv, TypeOK, Modes
<1>2. CASE NewChunk
  <2>1. PICK l \in Lbas \cup {nextLba}, n \in ChunkSizes : Chunk(l, n)
    BY <1>2 DEF NewChunk
  <2>2. /\ at = "idle" /\ pwLen' = pwLen /\ pstate' = pstate
        /\ (partial' = FALSE \/ partial' = partial)
    BY <2>1 DEF Chunk, pending
  <2> QED
    BY <2>2 DEF Taken
<1>3. CASE ScanByte
  <2>1. PICK c \in Bytes : Scan(c)
    BY <1>3 DEF ScanByte
  <2>2. CASE ValueByte(c)
    <3>1. at' = at /\ partial' = partial /\ pstate' = pstate /\ at \in {"continue", "value"}
      BY <2>2 DEF ValueByte
    <3> QED
      BY <1>1, <3>1 DEF Taken
  <2>3. CASE ValueEnds(c)
    <3>1. partial' = FALSE /\ pwLen' = pwLen /\ (pwLen = 0 \/ pstate' = "PENDING")
      BY <2>3 DEF ValueEnds
    <3> QED
      BY <3>1 DEF Taken
  <2>4. CASE Match(c) \/ Mismatch(c)
    <3>1. at' = at /\ partial' = partial /\ pwLen' = pwLen /\ pstate' = pstate
      BY <2>4 DEF Match, Mismatch, pending
    <3> QED
      BY <3>1 DEF Taken
  <2>5. CASE PrefixFound(c)
    <3>1. at' = "value" /\ partial' = FALSE
      BY <2>5 DEF PrefixFound
    <3> QED
      BY <3>1 DEF Taken
  <2> QED
    BY <2>1, <2>2, <2>3, <2>4, <2>5 DEF Scan
<1>4. CASE ChunkEnds
  <2>1. /\ partial' = (at = "value" \/ partial) /\ pwLen' = pwLen
        /\ pstate' = IF at = "value" THEN "PENDING" ELSE pstate
    BY <1>4 DEF ChunkEnds, pending
  <2> QED
    BY <2>1 DEF Taken
<1>5. CASE UNCHANGED vars
  BY <1>5 DEF vars, pending, Taken
<1> QED
  BY <1>2, <1>3, <1>4, <1>5 DEF Next

\* With neither a byte written nor a place forgotten, what is kept is kept.
LEMMA SameKept ==
  ASSUME Captured, stream' = stream, FirstLba' = FirstLba, UNCHANGED pending
  PROVE  Captured'
<1>1. ASSUME NEW j PROVE PrefixEnds(j)' <=> PrefixEnds(j)
  BY DEF PrefixEnds
<1>2. ASSUME NEW k PROVE Open(k)' <=> Open(k)
  BY <1>1 DEF Open
<1>3. ASSUME NEW k PROVE InValue(k)' <=> InValue(k)
  BY <1>2 DEF InValue
<1>4. ASSUME NEW k PROVE Begins(k)' <=> Begins(k)
  BY <1>1, <1>2 DEF Begins
<1>5. ASSUME NEW j PROVE LastBegins(j)' <=> LastBegins(j)
  BY <1>4 DEF LastBegins
<1>6. ASSUME NEW j, NEW n PROVE ValueIs(j, n)' <=> ValueIs(j, n)
  BY <1>3 DEF ValueIs
<1>7. Open(Len(stream))' <=> Open(Len(stream))
  BY <1>2
<1>8. ASSUME NEW j, NEW n PROVE Keeps(j, n)' <=> Keeps(j, n)
  BY <1>6, <1>7, SameLba DEF Keeps, pending
<1> QED
  BY <1>5, <1>8 DEF Captured

\* A byte of the value is kept behind the others while there is room.
LEMMA CapturedByte ==
  ASSUME IInv, Captured, NEW c \in Bytes, ValueByte(c)
  PROVE  Captured'
<1>1. /\ stream' = Append(stream, c) /\ ~Terminator(c)
      /\ pwOffset' = pwOffset /\ pwLba' = pwLba
      /\ pw' = (IF pwLen < MAXPW THEN Append(pw, c) ELSE pw)
      /\ pwLen' = (IF pwLen <= MAXPW THEN pwLen + 1 ELSE pwLen)
  BY DEF ValueByte, Take, KeepByte
<1>2. TypeOK /\ Open(Len(stream))
  BY DEF IInv, Follows, Valuing, ValueByte
<1>3. Len(stream) \in Nat /\ Len(stream') = Len(stream) + 1 /\ stream'[Len(stream) + 1] = c
  BY <1>1, <1>2, Appended
<1>4. Open(Len(stream))'
  BY <1>1, <1>2, OpenGrows
<1>5. ~Begins(Len(stream))'
  <2>1. PICK k : k = Len(stream) + 1
    OBVIOUS
  <2>2. k - 1 = Len(stream) /\ k - 1 \in 0 .. Len(stream)
    BY <1>3, <2>1
  <2>3. Open(k - 1)'
    BY <1>1, <1>2, <2>2, OpenStays
  <2>4. ~Begins(k)'
    BY <2>3 DEF Begins
  <2> QED
    BY <1>3, <2>1, <2>4
<1>6. ASSUME NEW j \in 1 .. Len(stream'), LastBegins(j)' PROVE \E n \in Nat : Keeps(j, n)'
  <2>1. j \in 1 .. Len(stream) /\ LastBegins(j)
    BY <1>1, <1>2, <1>5, <1>6, LastStays
  <2>2. PICK n \in Nat : Keeps(j, n)
    BY <2>1 DEF Captured
  <2>3. j + n = Len(stream)
    BY <1>2, <2>2 DEF Keeps
  <2>4. /\ ValueIs(j, n) /\ pwLen = Least(n, MAXPW + 1)
        /\ pwOffset = ((j - 1) % SECTOR) + 1 /\ pwLba = LbaOf(j)
        /\ \A i \in 1 .. Least(n, MAXPW) : pw[i] = stream[j + i]
    BY <1>2, <2>2 DEF Keeps
  <2>5. ValueIs(j, n + 1)'
    BY <1>1, <1>2, <2>1, <2>4, <2>3, ValueGrows
  <2>6. j + (n + 1) = Len(stream')
    BY <1>3, <2>1, <2>3
  <2>7. pwLen' = Least(n + 1, MAXPW + 1)
    BY <1>1, <2>4 DEF Least
  <2>8. ASSUME NEW i \in 1 .. Least(n + 1, MAXPW) PROVE pw'[i] = stream'[j + i]
    <3>1. pw \in Seq(Bytes) /\ Len(pw) = Least(n, MAXPW) /\ Len(pw) \in Nat
      <4>1. pw \in Seq(Bytes) /\ Len(pw) = Least(pwLen, MAXPW)
        BY <1>2 DEF TypeOK
      <4>2. Least(pwLen, MAXPW) = Least(n, MAXPW) /\ Least(n, MAXPW) \in Nat
        BY <2>4 DEF Least
      <4> QED
        BY <4>1, <4>2
    <3>2. CASE i <= Least(n, MAXPW)
      <4>1. i \in 1 .. Least(n, MAXPW) /\ i \in 1 .. Len(pw) /\ j + i \in 1 .. Len(stream)
        BY <2>1, <2>3, <3>1, <3>2 DEF Least
      <4>2. pw'[i] = pw[i]
        BY <1>1, <3>1, <4>1, AppendProperties
      <4>3. stream'[j + i] = stream[j + i]
        BY <1>1, <1>2, <4>1, Appended
      <4> QED
        BY <2>4, <4>1, <4>2, <4>3
    <3>3. CASE i > Least(n, MAXPW)
      <4>1. n < MAXPW /\ i = n + 1 /\ Len(pw) = n
        BY <3>1, <3>3 DEF Least
      <4>2. pw' = Append(pw, c)
        BY <1>1, <2>4, <4>1 DEF Least
      <4>3. pw'[i] = c
        BY <3>1, <4>1, <4>2, AppendProperties
      <4>4. j + i = Len(stream) + 1
        BY <2>3, <4>1
      <4> QED
        BY <1>3, <4>3, <4>4
    <3>4. Least(n, MAXPW) \in Nat
      BY DEF Least
    <3> QED
      BY <3>2, <3>3, <3>4
  <2>9. Keeps(j, n + 1)'
    <3>1. pwOffset' = ((j - 1) % SECTOR) + 1 /\ pwLba' = LbaOf(j)'
      <4>1. FirstLba' = FirstLba
        BY <1>2, ScanFirst DEF ValueByte, chunk
      <4> QED
        BY <1>1, <2>4, <4>1, SameLba
    <3>2. \A i \in 1 .. Least(n + 1, MAXPW) : pw'[i] = stream'[j + i]
      BY <2>8
    <3> QED
      BY <1>4, <2>5, <2>6, <2>7, <3>1, <3>2 DEF Keeps, Least
  <2> QED
    BY <2>9
<1> QED
  BY <1>6 DEF Captured

\* Bytes that neither open nor prolong a value leave what was kept of it.
LEMMA CapturedRests ==
  ASSUME IInv, Captured, NEW c \in Bytes, stream' = Append(stream, c),
         Open(Len(stream)) => Terminator(c), ~Open(Len(stream))', FirstLba' = FirstLba,
         pwLen' = pwLen, pwOffset' = pwOffset, pwLba' = pwLba, pwLen > 0 => pw' = pw
  PROVE  Captured'
<1>1. TypeOK /\ Len(stream) \in Nat /\ Len(stream') = Len(stream) + 1
  BY Appended DEF IInv
<1>2. ~Begins(Len(stream))'
  <2>1. ~PrefixEnds(Len(stream))'
    BY <1>1, OpenGrows
  <2> QED
    BY <2>1 DEF Begins
<1>3. ASSUME NEW j \in 1 .. Len(stream'), LastBegins(j)' PROVE \E n \in Nat : Keeps(j, n)'
  <2>1. j \in 1 .. Len(stream) /\ LastBegins(j)
    BY <1>1, <1>2, <1>3, LastStays
  <2>2. PICK n \in Nat : Keeps(j, n)
    BY <2>1 DEF Captured
  <2>3. j + n < Len(stream) \/ Terminator(c)
    <3>1. n \in 0 .. Len(stream) - j /\ (Open(Len(stream)) <=> j + n = Len(stream))
      BY <2>2 DEF Keeps, ValueIs
    <3> QED
      BY <1>1, <3>1
  <2>4. n > 0 => pw' = pw
    BY <2>2 DEF Keeps, Least
  <2>5. Keeps(j, n)'
    BY <1>1, <2>1, <2>2, <2>3, <2>4, KeepsRests, SameLba
  <2> QED
    BY <2>5
<1> QED
  BY <1>3 DEF Captured

\* The value a prefix opens begins at the next byte, with nothing kept.
LEMMA CapturedPrefix ==
  ASSUME IInv, Aligned, NEW c \in Bytes, PrefixFound(c)
  PROVE  Captured'
<1>1. /\ at = "search" /\ stream' = Append(stream, c) /\ pwLen' = 0
      /\ pwOffset' = (pos % SECTOR) + 1 /\ pwLba' = lba + (pos \div SECTOR)
  BY DEF PrefixFound, Take
<1>2. TypeOK /\ TypeOK'
  <2>1. [Next]_vars
    BY DEF Next, ScanByte, Scan
  <2> QED
    BY <2>1, TypeStep DEF IInv
<1>3. ~Open(Len(stream)) /\ Open(Len(stream))'
  BY <1>1, PrefixFoundStep DEF IInv, Modes, Follows, Valuing, PrefixFound
<1>4. Len(stream) \in Nat /\ Len(stream') = Len(stream) + 1
  BY <1>1, <1>2, Appended
<1>5. PrefixEnds(Len(stream))'
  BY <1>1, <1>2, <1>3, OpenGrows
<1>6. PICK k \in Nat : k = Len(stream) + 1
  BY <1>4
<1>7. Begins(k)'
  <2>1. ~Open(k - 1)'
    <3>1. k - 1 = Len(stream) /\ k - 1 \in 0 .. Len(stream)
      BY <1>4, <1>6
    <3> QED
      BY <1>1, <1>2, <1>3, <3>1, OpenStays
  <2>2. PrefixEnds(k)'
    BY <1>4, <1>5, <1>6
  <2> QED
    BY <2>1, <2>2 DEF Begins
<1>8. Keeps(k, 0)'
  <2>1. ValueIs(k, 0)'
    BY <1>4, <1>6 DEF ValueIs
  <2>2. pwOffset' = ((k - 1) % SECTOR) + 1 /\ pwLba' = LbaOf(k)'
    <3>1. PICK q \in Nat : Len(stream) = q * SECTOR + pos
      BY DEF Aligned
    <3>2. k - 1 = q * SECTOR + pos /\ pos \in Nat
      BY <1>2, <1>4, <1>6, <3>1 DEF TypeOK
    <3>3. /\ (q * SECTOR + pos) % SECTOR = pos % SECTOR
          /\ (q * SECTOR + pos) \div SECTOR = q + (pos \div SECTOR)
      BY <3>2, SamePlace
    <3>4. FirstLba' = lba - q
      <4>1. FirstLba' = FirstLba
        BY <1>2, ScanFirst DEF PrefixFound, chunk
      <4> QED
        BY <3>1, <3>2, <4>1, SectorsBefore DEF FirstLba
    <3>5. PICK e \in Nat : e = pos \div SECTOR
      BY <3>2, Division
    <3>6. PICK m \in Nat : m = lba
      BY <1>2 DEF TypeOK
    <3>7. FirstLba' + ((k - 1) \div SECTOR) = m + e
      BY <3>2, <3>3, <3>4, <3>5, <3>6
    <3> QED
      BY <1>1, <3>2, <3>3, <3>5, <3>6, <3>7 DEF LbaOf
  <2>3. pwLen' = Least(0, MAXPW + 1) /\ 1 .. Least(0, MAXPW) = {}
    BY <1>1 DEF Least
  <2>4. Open(Len(stream))' /\ k + 0 = Len(stream')
    BY <1>3, <1>4, <1>6
  <2> QED
    BY <2>1, <2>2, <2>3, <2>4 DEF Keeps, Least
<1>9. ASSUME NEW j \in 1 .. Len(stream'), LastBegins(j)' PROVE j = k
  BY <1>4, <1>6, <1>7, <1>9 DEF LastBegins
<1> QED
  BY <1>8, <1>9 DEF Captured

\* What is kept of the last value follows it.
LEMMA CapturedStep == IInv /\ Captured /\ Aligned /\ [Next]_vars => Captured'
<1> SUFFICES ASSUME IInv, Captured, Aligned, [Next]_vars PROVE Captured'
  OBVIOUS
<1>1. CASE NewChunk
  <2>1. PICK l \in Lbas \cup {nextLba}, n \in ChunkSizes : Chunk(l, n)
    BY <1>1 DEF NewChunk
  <2>2. CASE l = nextLba
    <3>1. stream' = stream /\ UNCHANGED pending
      BY <2>1, <2>2 DEF Chunk
    <3>2. FirstLba' = FirstLba
      BY <2>1, <2>2, ChunkFirst DEF IInv
    <3> QED
      BY <3>1, <3>2, SameKept
  <2>3. CASE l # nextLba
    <3>1. stream' = <<>>
      BY <2>1, <2>3 DEF Chunk
    <3>2. 1 .. Len(stream') = {}
      BY <3>1
    <3> QED
      BY <3>2 DEF Captured
  <2> QED
    BY <2>2, <2>3
<1>2. CASE ScanByte
  <2>1. PICK c \in Bytes : Scan(c)
    BY <1>2 DEF ScanByte
  <2>2. CASE ValueByte(c)
    BY <2>2, CapturedByte
  <2>3. CASE ValueEnds(c)
    <3>1. stream' = Append(stream, c) /\ Terminator(c) /\ at' = "search" /\ partial' = FALSE
      BY <2>3 DEF ValueEnds, Take
    <3>2. /\ pwLen' = pwLen /\ pwOffset' = pwOffset /\ pwLba' = pwLba
          /\ (pwLen > 0 => pw' = pw) /\ FirstLba' = FirstLba
      BY <2>3, ScanFirst DEF ValueEnds, IInv, chunk
    <3>3. ~Open(Len(stream))'
      BY <2>3, <3>1, ValueEndsStep DEF Follows, Valuing
    <3> QED
      BY <3>1, <3>2, <3>3, CapturedRests
  <2>4. CASE Match(c) \/ Mismatch(c)
    <3>1. /\ stream' = Append(stream, c) /\ at = "search" /\ at' = at /\ partial' = partial
          /\ pw' = pw /\ pwLen' = pwLen /\ pwOffset' = pwOffset /\ pwLba' = pwLba
      BY <2>4 DEF Match, Mismatch, Take, pending
    <3>2. ~Valuing /\ ~Valuing'
      BY <3>1 DEF IInv, Modes, Valuing
    <3>3. ~Open(Len(stream)) /\ ~Open(Len(stream))'
      BY <2>4, <3>2, MatchStep, MismatchStep DEF IInv, Follows
    <3>4. FirstLba' = FirstLba
      BY <2>4, ScanFirst DEF Match, Mismatch, IInv, chunk
    <3> QED
      BY <3>1, <3>3, <3>4, CapturedRests
  <2>5. CASE PrefixFound(c)
    BY <2>5, CapturedPrefix
  <2> QED
    BY <2>1, <2>2, <2>3, <2>4, <2>5 DEF Scan
<1>3. CASE ChunkEnds \/ UNCHANGED vars
  <2>1. stream' = stream /\ FirstLba' = FirstLba /\ UNCHANGED pending
    BY <1>3 DEF ChunkEnds, vars, chunk, FirstLba
  <2> QED
    BY <2>1, SameKept
<1> QED
  BY <1>1, <1>2, <1>3 DEF Next

LEMMA VInvStep == VInv /\ [Next]_vars => VInv'
  BY IInvStep, CapturedStep, TakenStep, AlignedStep DEF VInv, IInv

\* Nothing has been written, so nothing is kept.
LEMMA VInvInit == Init => VInv
<1> SUFFICES ASSUME Init PROVE VInv
  OBVIOUS
<1>1. stream = <<>> /\ pos = 0 /\ len = 0 /\ lba = 0 /\ nextLba = 0 /\ partial = FALSE /\ pwLen = 0
  BY DEF Init
<1>2. Captured
  BY <1>1 DEF Captured
<1>3. Taken
  BY <1>1 DEF Taken
<1>4. Len(stream) = 0 * SECTOR + pos /\ len = 0 * SECTOR /\ nextLba = lba + 0 /\ pos = len
  BY <1>1
<1>5. Aligned
  BY <1>4 DEF Aligned
<1> QED
  BY <1>2, <1>3, <1>5, IInvInit DEF VInv

----------------------------------------------------------------------------
(* The password.                                                           *)

\* A part of a sequence: its type, its length and its elements.
LEMMA PartOf ==
  ASSUME NEW S, NEW s \in Seq(S), NEW a \in Nat, NEW n \in Nat, a + n <= Len(s)
  PROVE  /\ SubSeq(s, a + 1, a + n) \in Seq(S)
         /\ Len(SubSeq(s, a + 1, a + n)) = n
         /\ \A i \in 1 .. n : SubSeq(s, a + 1, a + n)[i] = s[a + i]
<1>1. SubSeq(s, a + 1, a + n) \in Seq(S)
  OBVIOUS
<1>2. Len(SubSeq(s, a + 1, a + n)) = n
  OBVIOUS
<1>3. \A i \in 1 .. n : SubSeq(s, a + 1, a + n)[i] = s[a + i]
  OBVIOUS
<1> QED
  BY <1>1, <1>2, <1>3

LEMMA SameElements ==
  ASSUME NEW S, NEW s \in Seq(S), NEW t \in Seq(S), NEW n,
         Len(s) = n, Len(t) = n, \A i \in 1 .. n : s[i] = t[i]
  PROVE  s = t
  BY SeqEqual

\* A value has one length.
LEMMA OneLength ==
  ASSUME TypeOK, NEW j \in 1 .. Len(stream), NEW n \in Nat, ValueIs(j, n)
  PROVE  ValueLength(j) = n
<1> DEFINE Is(m) ==
      /\ \A k \in j + 1 .. j + m : InValue(k)
      /\ j + m < Len(stream) => ~InValue(j + m + 1)
<1>1. n \in 0 .. Len(stream) - j /\ Is(n) /\ Len(stream) \in Nat
  BY LenProperties DEF ValueIs, TypeOK
<1>2. ASSUME NEW m \in 0 .. Len(stream) - j, Is(m) PROVE m = n
  <2>1. CASE m < n
    <3>1. j + m + 1 \in j + 1 .. j + n /\ j + m < Len(stream)
      BY <1>1, <2>1
    <3> QED
      BY <1>1, <1>2, <3>1
  <2>2. CASE n < m
    <3>1. j + n + 1 \in j + 1 .. j + m /\ j + n < Len(stream)
      BY <1>1, <2>2
    <3> QED
      BY <1>1, <1>2, <3>1
  <2>3. m < n \/ n < m \/ m = n
    BY <1>1
  <2> QED
    BY <2>1, <2>2, <2>3
<1>3. ValueLength(j) = CHOOSE m \in 0 .. Len(stream) - j : Is(m)
  BY DEF ValueLength
<1> HIDE DEF Is
<1> QED
  BY <1>1, <1>2, <1>3

\* Between chunks pending_pw holds the last value as far as there is room.
LEMMA KeptIsCaptured == VInv => PasswordCaptured
<1> SUFFICES ASSUME VInv, at = "idle", NEW j \in 1 .. Len(stream), LastBegins(j)
             PROVE  /\ pwLen = Least(ValueLength(j), MAXPW + 1)
                    /\ pw = SubSeq(stream, j + 1, j + Least(ValueLength(j), MAXPW))
                    /\ pwLba = LbaOf(j) /\ pwOffset = ((j - 1) % SECTOR) + 1
                    /\ pwLen > 0 => pstate = "PENDING"
                    /\ partial = (j + ValueLength(j) = Len(stream))
  BY DEF PasswordCaptured
<1>1. TypeOK /\ Len(stream) \in Nat
  BY LenProperties DEF VInv, IInv, TypeOK
<1>2. PICK n \in Nat : Keeps(j, n)
  BY DEF VInv, Captured
<1>3. ValueLength(j) = n /\ n \in 0 .. Len(stream) - j
  BY <1>1, <1>2, OneLength DEF Keeps, ValueIs
<1>4. pwLen = Least(n, MAXPW + 1) /\ (Open(Len(stream)) <=> j + n = Len(stream))
  BY <1>2 DEF Keeps
<1>5. pw = SubSeq(stream, j + 1, j + Least(n, MAXPW))
  <2> DEFINE m == Least(n, MAXPW)
             value == SubSeq(stream, j + 1, j + m)
  <2>1. m \in Nat /\ m <= n /\ j + m <= Len(stream)
    BY <1>1, <1>3 DEF Least
  <2>2. pw \in Seq(Bytes) /\ Len(pw) = m
    <3>1. pw \in Seq(Bytes) /\ Len(pw) = Least(pwLen, MAXPW)
      BY <1>1 DEF TypeOK
    <3>2. Least(pwLen, MAXPW) = m
      BY <1>4 DEF Least
    <3> QED
      BY <3>1, <3>2
  <2>3. \A i \in 1 .. m : pw[i] = stream[j + i]
    BY <1>2 DEF Keeps
  <2> HIDE DEF m
  <2>4. /\ value \in Seq(Bytes) /\ Len(value) = m
        /\ \A i \in 1 .. m : value[i] = stream[j + i]
    BY <1>1, <2>1, PartOf DEF TypeOK
  <2> HIDE DEF value
  <2>5. \A i \in 1 .. m : pw[i] = value[i]
    BY <2>3, <2>4
  <2>6. value \in Seq(Bytes) /\ Len(value) = Len(pw) /\ \A i \in 1 .. Len(pw) : pw[i] = value[i]
    BY <2>2, <2>4, <2>5
  <2>7. pw = value
    BY <2>2, <2>6, SeqEqual
  <2> QED
    BY <2>7 DEF value, m
<1>6. pwLen > 0 => pstate = "PENDING"
  BY DEF VInv, Taken
<1>7. partial <=> j + n = Len(stream)
  BY <1>4 DEF VInv, IInv, Follows, Valuing
<1>8. partial = (j + n = Len(stream))
  BY <1>1, <1>7 DEF TypeOK
<1>9. pwLba = LbaOf(j) /\ pwOffset = ((j - 1) % SECTOR) + 1
  BY <1>2 DEF Keeps
<1> QED
  BY <1>3, <1>4, <1>5, <1>6, <1>8, <1>9

(* Whatever the chunks, between two of them pending_pw holds the last      *)
(* value the host wrote, from its first byte on and cut at the limit, and  *)
(* the snooper knows the sector and the offset at which it began and       *)
(* whether it has ended: for any prefix, limit and sector size.            *)
THEOREM SnoopPasswordCaptured == Spec => []PasswordCaptured
  BY VInvInit, VInvStep, KeptIsCaptured, PTL DEF Spec

----------------------------------------------------------------------------
(* The file.                                                               *)

\* The prefix itself goes to the card as it is: it is in no other value.
LEMMA PrefixKept ==
  ASSUME TypeOK, ValuesScrubbed, NEW j \in 1 .. Len(stream), Begins(j)
  PROVE  /\ j >= Len(PREFIX)
         /\ \A m \in 1 .. Len(PREFIX) : out[j - Len(PREFIX) + m] = PREFIX[m]
<1>1. /\ Len(stream) \in Nat /\ j >= Len(PREFIX) /\ ~Open(j - 1)
      /\ \A m \in 1 .. Len(PREFIX) : stream[j - Len(PREFIX) + m] = PREFIX[m]
  <2>1. Len(stream) \in Nat
    BY LenProperties DEF TypeOK
  <2>2. PrefixEnds(j) /\ ~Open(j - 1)
    BY DEF Begins
  <2> QED
    BY <2>1, <2>2 DEF PrefixEnds
<1>2. ASSUME NEW m \in 1 .. Len(PREFIX) PROVE out[j - Len(PREFIX) + m] = PREFIX[m]
  <2> DEFINE k == j - Len(PREFIX) + m
  <2>1. k \in 1 .. Len(stream) /\ k <= j /\ stream[k] = PREFIX[m]
    BY <1>1
  <2>2. ASSUME InValue(k) PROVE FALSE
    <3>1. Open(k - 1)
      BY <2>2 DEF InValue
    <3>2. PICK i \in 1 .. k - 1 :
            PrefixEnds(i) /\ \A t \in i + 1 .. k - 1 : ~Terminator(stream[t])
      BY <3>1 DEF Open
    <3>3. ASSUME NEW t \in i + 1 .. j - 1 PROVE ~Terminator(stream[t])
      <4>1. CASE t <= k - 1
        BY <3>2, <4>1
      <4>2. CASE t >= k
        <5>1. t - (j - Len(PREFIX)) \in 1 .. Len(PREFIX)
          BY <1>1, <2>1, <4>2
        <5>2. stream[j - Len(PREFIX) + (t - (j - Len(PREFIX)))] = PREFIX[t - (j - Len(PREFIX))]
          BY <1>1, <5>1
        <5>3. j - Len(PREFIX) + (t - (j - Len(PREFIX))) = t
          OBVIOUS
        <5>4. stream[t] \notin Terminators
          BY <5>1, <5>2, <5>3
        <5> QED
          BY <5>4 DEF Terminator
      <4>3. t <= k - 1 \/ t >= k
        OBVIOUS
      <4> QED
        BY <4>1, <4>2, <4>3
    <3>4. i \in 1 .. j - 1
      BY <2>1, <3>2
    <3>5. Open(j - 1)
      BY <3>2, <3>3, <3>4 DEF Open
    <3> QED
      BY <1>1, <3>5
  <2>3. out[k] = stream[k]
    BY <2>1, <2>2 DEF ValuesScrubbed
  <2> QED
    BY <2>1, <2>3
<1> QED
  BY <1>1, <1>2

\* The value goes to the card as zeros, and what ends it is a terminator.
LEMMA ValueBlanked ==
  ASSUME TypeOK, ValuesScrubbed, NEW j \in 1 .. Len(stream), Begins(j),
         NEW n \in Nat, ValueIs(j, n)
  PROVE  /\ \A k \in j + 1 .. j + n : out[k] = Zero
         /\ j + n < Len(stream) => Terminator(out[j + n + 1])
<1>1. Len(stream) \in Nat /\ n \in 0 .. Len(stream) - j /\ PrefixEnds(j)
  BY LenProperties DEF TypeOK, ValueIs, Begins
<1>2. \A k \in j + 1 .. j + n : k \in 1 .. Len(stream) /\ InValue(k)
  BY <1>1 DEF ValueIs
<1>3. \A k \in j + 1 .. j + n : out[k] = Zero /\ ~Terminator(stream[k])
  BY <1>2 DEF ValuesScrubbed, InValue
<1>4. ASSUME j + n < Len(stream) PROVE Terminator(out[j + n + 1])
  <2>1. j + n + 1 \in 1 .. Len(stream) /\ ~InValue(j + n + 1)
    BY <1>1, <1>4 DEF ValueIs
  <2>2. j \in 1 .. j + n
    BY <1>1
  <2>3. Open(j + n)
    BY <1>1, <1>3, <2>2 DEF Open
  <2>4. j + n + 1 - 1 = j + n
    BY <1>1
  <2>5. Terminator(stream[j + n + 1])
    BY <2>1, <2>3, <2>4 DEF InValue
  <2>6. out[j + n + 1] = stream[j + n + 1]
    BY <2>1 DEF ValuesScrubbed
  <2> QED
    BY <2>5, <2>6
<1> QED
  BY <1>3, <1>4

\* Between chunks the sector of the last prefix is there to its last byte.
LEMMA WholeSector ==
  ASSUME TypeOK, Aligned, at = "idle", NEW j \in 1 .. Len(stream)
  PROVE  /\ (j - 1) \div SECTOR \in Nat /\ ((j - 1) \div SECTOR) * SECTOR \in Nat
         /\ j = ((j - 1) \div SECTOR) * SECTOR + ((j - 1) % SECTOR) + 1
         /\ ((j - 1) \div SECTOR) * SECTOR + SECTOR <= Len(stream)
<1>1. PICK q \in Nat : Len(stream) = q * SECTOR + pos
  BY DEF Aligned
<1>2. PICK r \in Nat : len = r * SECTOR
  BY DEF Aligned
<1>3. pos = len
  BY DEF Aligned
<1>4. q + r \in Nat /\ SECTOR * (q + r) = q * SECTOR + r * SECTOR
  OBVIOUS
<1>5. q * SECTOR \in Nat /\ r * SECTOR \in Nat
  OBVIOUS
<1>6. Len(stream) = SECTOR * (q + r)
  BY <1>1, <1>2, <1>3, <1>4, <1>5
<1>7. j - 1 \in Nat
  OBVIOUS
<1>8. PICK a \in Nat : a = (j - 1) \div SECTOR
  BY <1>7, Division
<1>9. PICK o \in 0 .. SECTOR - 1 : o = (j - 1) % SECTOR
  BY <1>7, Division
<1>10. j - 1 = SECTOR * a + o
  BY <1>7, <1>8, <1>9, Division
<1>11. PICK x \in Nat : x = SECTOR * a /\ x = a * SECTOR
  OBVIOUS
<1>12. PICK y \in Nat : y = SECTOR * (q + r)
  BY <1>4
<1>13. a < q + r
  <2>1. q + r < a => y + SECTOR <= x
    BY <1>4, <1>11, <1>12, Multiples
  <2>2. q + r = a => y = x
    BY <1>11, <1>12
  <2>3. x < y
    BY <1>6, <1>10, <1>11, <1>12
  <2> QED
    BY <1>4, <2>1, <2>2, <2>3
<1>14. x + SECTOR <= y
  BY <1>4, <1>11, <1>12, <1>13, Multiples
<1> QED
  BY <1>6, <1>8, <1>9, <1>10, <1>11, <1>12, <1>14

\* The sector of a byte, as it lies on the card.
LEMMA SectorOf ==
  ASSUME TypeOK, NEW first \in Nat, first + SECTOR <= Len(out)
  PROVE  LET file == SubSeq(out, first + 1, first + SECTOR)
         IN  /\ file \in Seq(Bytes \cup {Zero}) /\ Len(file) = SECTOR
             /\ \A i \in 1 .. SECTOR : file[i] = out[first + i]
  BY PartOf DEF TypeOK

\* A file that has the bytes of the prefix before o has the prefix there.
LEMMA PrefixInFile ==
  ASSUME NEW file \in Seq(Bytes \cup {Zero}), NEW o \in Nat, o <= Len(file), o >= Len(PREFIX),
         \A i \in 1 .. Len(PREFIX) : file[o - Len(PREFIX) + i] = PREFIX[i]
  PROVE  SubSeq(file, o - Len(PREFIX) + 1, o) = PREFIX
<1>1. PICK a \in Nat : a = o - Len(PREFIX)
  <2>1. o - Len(PREFIX) \in Nat
    OBVIOUS
  <2> QED
    BY <2>1
<1>2. o = a + Len(PREFIX) /\ a + Len(PREFIX) <= Len(file)
  BY <1>1
<1>3. /\ SubSeq(file, a + 1, a + Len(PREFIX)) \in Seq(Bytes \cup {Zero})
      /\ Len(SubSeq(file, a + 1, a + Len(PREFIX))) = Len(PREFIX)
      /\ \A i \in 1 .. Len(PREFIX) : SubSeq(file, a + 1, a + Len(PREFIX))[i] = file[a + i]
  BY <1>2, PartOf
<1>4. \A i \in 1 .. Len(PREFIX) : SubSeq(file, a + 1, a + Len(PREFIX))[i] = PREFIX[i]
  BY <1>1, <1>3
<1>5. PREFIX \in Seq(Bytes \cup {Zero})
  BY PrefixAssumption
<1>6. SubSeq(file, a + 1, a + Len(PREFIX)) = PREFIX
  BY <1>3, <1>4, <1>5, SameElements
<1> QED
  BY <1>1, <1>2, <1>6

\* The search finds the prefix, the zeros and the terminator where they are.
LEMMA SectorMatches ==
  ASSUME TypeOK, ValuesScrubbed,
         NEW j \in 1 .. Len(stream), Begins(j), NEW n \in Nat, n > 0, ValueIs(j, n),
         pwLen = Least(n, MAXPW + 1),
         NEW first \in Nat, NEW o \in 1 .. SECTOR, j = first + o, pwOffset = o,
         first + SECTOR <= Len(stream),
         NEW size \in 1 .. SECTOR, o >= Len(PREFIX), o < size,
         Least(n, size - o) <= MAXPW
  PROVE  Matches(SubSeq(out, first + 1, first + SECTOR), size)
<1> DEFINE file == SubSeq(out, first + 1, first + SECTOR)
<1>1. /\ Len(stream) \in Nat /\ Len(out) = Len(stream)
      /\ out \in Seq(Bytes \cup {Zero})
  BY LenProperties DEF TypeOK, ValuesScrubbed
<1>2. /\ file \in Seq(Bytes \cup {Zero}) /\ Len(file) = SECTOR
      /\ \A i \in 1 .. SECTOR : file[i] = out[first + i]
  BY <1>1, SectorOf
<1> HIDE DEF file
<1>3. PICK length \in Nat : length = Least(pwLen, size - o)
  <2>1. pwLen \in Nat /\ size - o \in Nat
    BY DEF Least
  <2> QED
    BY <2>1 DEF Least
<1>4. /\ length \in 1 .. MAXPW /\ length <= n /\ o + length <= size
      /\ o + length < size => length = n
  BY <1>3 DEF Least
<1>5. SubSeq(file, o - Len(PREFIX) + 1, o) = PREFIX
  <2>1. ASSUME NEW i \in 1 .. Len(PREFIX) PROVE file[o - Len(PREFIX) + i] = PREFIX[i]
    <3>1. o - Len(PREFIX) + i \in 1 .. SECTOR
      OBVIOUS
    <3>2. first + (o - Len(PREFIX) + i) = j - Len(PREFIX) + i
      OBVIOUS
    <3>3. file[o - Len(PREFIX) + i] = out[first + (o - Len(PREFIX) + i)]
      BY <1>2, <3>1
    <3>4. out[j - Len(PREFIX) + i] = PREFIX[i]
      BY PrefixKept
    <3> QED
      BY <3>2, <3>3, <3>4
  <2>2. o \in Nat /\ o <= Len(file)
    BY <1>2
  <2>3. file \in Seq(Bytes \cup {Zero})
    BY <1>2
  <2> QED
    BY <2>1, <2>2, <2>3, PrefixInFile
<1>6. ASSUME NEW k \in o + 1 .. o + length PROVE file[k] = Zero
  <2>1. k \in 1 .. SECTOR /\ first + k \in j + 1 .. j + n
    BY <1>4
  <2>2. out[first + k] = Zero
    BY <2>1, ValueBlanked
  <2> QED
    BY <1>2, <2>1, <2>2
<1>7. ASSUME o + length < size PROVE Terminator(file[o + length + 1])
  <2>1. o + length + 1 \in 1 .. SECTOR /\ length = n
    BY <1>4, <1>7
  <2>2. first + (o + length + 1) = j + n + 1 /\ j + n < Len(stream)
    BY <1>1, <1>7, <2>1
  <2>3. Terminator(out[j + n + 1])
    BY <2>2, ValueBlanked
  <2>4. file[o + length + 1] = out[first + (o + length + 1)]
    BY <1>2, <2>1
  <2> QED
    BY <2>2, <2>3, <2>4
<1>8. Matches(file, size)
  BY <1>3, <1>4, <1>5, <1>6, <1>7 DEF Matches
<1> QED
  BY <1>8 DEF file

LEMMA KeptIsRecognised == VInv => FileRecognised
<1> SUFFICES ASSUME VInv, at = "idle", NEW j \in 1 .. Len(stream), LastBegins(j),
                    ValueLength(j) > 0, NEW size \in 1 .. SECTOR,
                    j - ((j - 1) \div SECTOR) * SECTOR >= Len(PREFIX),
                    j - ((j - 1) \div SECTOR) * SECTOR < size
             PROVE  Contains(LbaOf(j), SubSeq(out, ((j - 1) \div SECTOR) * SECTOR + 1,
                                              ((j - 1) \div SECTOR) * SECTOR + SECTOR), size)
                      <=> Least(ValueLength(j), size - (j - ((j - 1) \div SECTOR) * SECTOR))
                            <= MAXPW
  BY DEF FileRecognised
<1>1. TypeOK /\ ValuesScrubbed /\ Aligned /\ Begins(j)
  BY DEF VInv, IInv, LastBegins
<1>2. PICK n \in Nat : Keeps(j, n)
  BY DEF VInv, Captured
<1>3. ValueLength(j) = n
  BY <1>1, <1>2, OneLength DEF Keeps
<1>4. PICK first \in Nat : first = ((j - 1) \div SECTOR) * SECTOR
  BY <1>1, WholeSector
<1>5. PICK o \in 1 .. SECTOR : o = ((j - 1) % SECTOR) + 1
  <2>1. PICK r \in 0 .. SECTOR - 1 : r = (j - 1) % SECTOR
    <3>1. j - 1 \in Nat
      OBVIOUS
    <3> QED
      BY <3>1, Division
  <2>2. r + 1 \in 1 .. SECTOR /\ r + 1 = ((j - 1) % SECTOR) + 1
    BY <2>1
  <2> QED
    BY <2>2
<1>6. j = first + o /\ first + SECTOR <= Len(stream)
  <2>1. PICK r \in Nat : r + 1 = o /\ r = (j - 1) % SECTOR
    <3>1. (j - 1) % SECTOR \in Nat
      BY Division
    <3> QED
      BY <1>5, <3>1
  <2>2. j = first + r + 1
    BY <1>1, <1>4, <2>1, WholeSector
  <2>3. first + SECTOR <= Len(stream)
    BY <1>1, <1>4, WholeSector
  <2> QED
    BY <2>1, <2>2, <2>3
<1>7. pwOffset = o /\ ValueIs(j, n) /\ pwLen = Least(n, MAXPW + 1)
  BY <1>2, <1>5 DEF Keeps
<1>8. n > 0 /\ j - first = o /\ o >= Len(PREFIX) /\ o < size /\ pwLba = LbaOf(j)
  BY <1>2, <1>3, <1>4, <1>6 DEF Keeps
<1> DEFINE file == SubSeq(out, first + 1, first + SECTOR)
<1>9. ASSUME Least(n, size - o) <= MAXPW PROVE Matches(file, size)
  BY <1>1, <1>6, <1>7, <1>8, <1>9, SectorMatches
<1>10. ASSUME Matches(file, size) PROVE Least(n, size - o) <= MAXPW
  <2>1. Least(pwLen, size - o) <= MAXPW
    BY <1>7, <1>10 DEF Matches
  <2> QED
    BY <1>7, <2>1 DEF Least
<1>11. Contains(LbaOf(j), file, size) <=> Least(n, size - o) <= MAXPW
  BY <1>8, <1>9, <1>10 DEF Contains
<1> QED
  BY <1>3, <1>4, <1>8, <1>11

(* A file of one sector that holds the prefix and a first byte of a value  *)
(* is recognised by the search, in the sector and at the offset at which   *)
(* it looks, just if no byte of the value in it was lost: for any prefix,  *)
(* limit and sector size and however the host cut its writes.              *)
THEOREM SnoopFileRecognised == Spec => []FileRecognised
  BY VInvInit, VInvStep, KeptIsRecognised, PTL DEF Spec

----------------------------------------------------------------------------
(* The card behind the snooper.  Where the contiguous writes handed over   *)
(* so far end, on the card and in the stream; their last sector is still   *)
(* as they left it.                                                        *)
CardEnd == (IF at = "idle" THEN nextLba ELSE lba) * SECTOR
StreamEnd == IF at = "idle" THEN Len(stream) ELSE Len(stream) - pos
LastSector ==
  /\ StreamEnd >= SECTOR /\ CardEnd >= SECTOR
  /\ \A i \in 0 .. SECTOR - 1 : card[CardEnd - i] = out[StreamEnd - i]

\* A chunk lies on the volume, and the next one begins where it ends.
OnVolume ==
  at # "idle" => /\ nextLba * SECTOR = lba * SECTOR + len /\ len >= SECTOR
                 /\ lba * SECTOR + len <= SECTORS * SECTOR
OnCard == DOMAIN card = 1 .. SECTORS * SECTOR /\ OnVolume /\ (StreamEnd = 0 \/ LastSector)

CInv == IInv /\ Aligned /\ OnCard

LEMMA CardStep ==
  ASSUME [CardNext]_cardVars
  PROVE  [Next]_vars
BY DEF CardNext, CardChunk, CardChunkEnds, Next, cardVars

LEMMA CardChunkKeeps ==
  ASSUME CInv, CardChunk
  PROVE  OnCard'
<1>1. PICK l \in Lbas \cup {nextLba}, n \in ChunkSizes : Chunk(l, n)
  BY DEF CardChunk, NewChunk
<1>2. /\ at = "idle" /\ at' # "idle" /\ lba' = l /\ len' = n * SECTOR /\ pos' = 0 /\ nextLba' = l + n
      /\ card' = card /\ lba' * SECTOR + len' <= SECTORS * SECTOR
  BY <1>1 DEF Chunk, CardChunk
<1>3. l \in Nat /\ n \in Nat \ {0} /\ Len(stream) \in Nat
  BY DEF CInv, IInv, TypeOK
<1>4. (l + n) * SECTOR = l * SECTOR + n * SECTOR /\ n * SECTOR >= SECTOR
  <2>1. PICK m \in Nat : n = m + 1
    <3>1. n - 1 \in Nat /\ n = (n - 1) + 1
      BY <1>3
    <3> QED
      BY <3>1
  <2>2. m * SECTOR \in Nat /\ n * SECTOR = m * SECTOR + SECTOR
    BY <2>1
  <2> QED
    BY <1>3, <2>2
<1>5. OnVolume'
  BY <1>2, <1>4 DEF OnVolume
<1>6. StreamEnd' = 0 \/ LastSector'
  <2>1. CASE l # nextLba
    <3>1. stream' = <<>>
      BY <1>1, <2>1 DEF Chunk
    <3> QED
      BY <1>2, <3>1 DEF StreamEnd
  <2>2. CASE l = nextLba
    <3>1. stream' = stream /\ out' = out
      BY <1>1, <2>2 DEF Chunk
    <3>2. StreamEnd' = StreamEnd /\ CardEnd' = CardEnd
      BY <1>2, <1>3, <2>2, <3>1 DEF StreamEnd, CardEnd
    <3> QED
      BY <1>2, <3>1, <3>2 DEF CInv, OnCard, LastSector
  <2> QED
    BY <2>1, <2>2
<1> QED
  BY <1>2, <1>5, <1>6 DEF CInv, OnCard

LEMMA ScanKeeps ==
  ASSUME CInv, ScanByte, UNCHANGED card
  PROVE  OnCard'
<1>1. PICK c \in Bytes, d \in Bytes \cup {Zero} :
        /\ at # "idle" /\ at' # "idle" /\ lba' = lba /\ len' = len /\ nextLba' = nextLba
        /\ pos' = pos + 1 /\ stream' = Append(stream, c) /\ out' = Append(out, d)
  BY DEF ScanByte, Scan, ValueByte, ValueEnds, Match, PrefixFound, Mismatch, Take, chunk
<1>2. /\ Len(stream) \in Nat /\ Len(out) = Len(stream) /\ pos \in Nat
      /\ Len(stream') = Len(stream) + 1 /\ \A k \in 1 .. Len(out) : out'[k] = out[k]
  BY <1>1, Appended DEF CInv, IInv, TypeOK, ValuesScrubbed
<1>3. StreamEnd' = StreamEnd /\ CardEnd' = CardEnd
  BY <1>1, <1>2 DEF StreamEnd, CardEnd
<1>4. StreamEnd <= Len(out) /\ StreamEnd \in Int
  BY <1>1, <1>2 DEF StreamEnd
<1>5. ASSUME LastSector PROVE LastSector'
  <2>1. ASSUME NEW i \in 0 .. SECTOR - 1
        PROVE  out'[StreamEnd - i] = out[StreamEnd - i]
    <3>1. StreamEnd - i \in 1 .. Len(out)
      BY <1>2, <1>4, <1>5 DEF LastSector
    <3> QED
      BY <1>2, <3>1
  <2> QED
    BY <1>3, <1>5, <2>1 DEF LastSector
<1> QED
  BY <1>1, <1>3, <1>5 DEF CInv, OnCard, OnVolume

LEMMA CardChunkEndsKeeps ==
  ASSUME CInv, CardChunkEnds, SECTORS \in Nat
  PROVE  OnCard'
<1>1. /\ at # "idle" /\ at' = "idle" /\ pos = len
      /\ lba' = lba /\ len' = len /\ nextLba' = nextLba /\ stream' = stream /\ out' = out
  BY DEF CardChunkEnds, ChunkEnds, chunk
<1>2. /\ Len(stream) \in Nat /\ Len(out) = Len(stream) /\ len \in Nat /\ lba \in Nat /\ nextLba \in Nat
  BY DEF CInv, IInv, TypeOK, ValuesScrubbed
<1>3. PICK e \in Nat : e = lba * SECTOR
  BY <1>2
<1>4. PICK s \in Nat : s = SECTORS * SECTOR
  OBVIOUS
<1>5. CardEnd' = e + len /\ StreamEnd' = Len(stream) /\ len >= SECTOR /\ e + len <= s
  BY <1>1, <1>3, <1>4 DEF CInv, OnCard, OnVolume, CardEnd, StreamEnd
<1>6. Len(stream) >= len
  <2>1. PICK q \in Nat : Len(stream) = q * SECTOR + pos
    BY DEF CInv, Aligned
  <2>2. q * SECTOR \in Nat
    BY <2>1
  <2> QED
    BY <1>1, <1>2, <2>1, <2>2
<1>7. ASSUME NEW i \in 0 .. SECTOR - 1
      PROVE  card'[CardEnd' - i] = out'[StreamEnd' - i]
  <2>1. PICK k \in Int : k = CardEnd' - i
    BY <1>2, <1>5
  <2>2. k \in 1 .. s /\ k - e = len - i /\ k - e \in 1 .. len
    BY <1>2, <1>4, <1>5, <2>1
  <2>3. card'[k] = out[Len(out) - len + (k - e)]
    BY <1>3, <1>4, <2>2 DEF CardChunkEnds, CInv, OnCard
  <2>4. Len(out) - len + (k - e) = StreamEnd' - i
    BY <1>2, <1>5, <2>2
  <2> QED
    BY <1>1, <2>1, <2>3, <2>4
<1>8. LastSector'
  BY <1>2, <1>5, <1>6, <1>7 DEF LastSector
<1> QED
  BY <1>1, <1>8 DEF CInv, OnCard, OnVolume, CardChunkEnds

LEMMA CInvStep ==
  ASSUME CInv, [CardNext]_cardVars, SECTORS \in Nat
  PROVE  CInv'
<1>1. IInv' /\ Aligned'
  BY CardStep, IInvStep, AlignedStep DEF CInv, IInv
<1>2. ASSUME UNCHANGED cardVars PROVE OnCard'
  BY <1>2 DEF cardVars, vars, chunk, CInv, OnCard, OnVolume, LastSector, StreamEnd, CardEnd
<1> QED
  BY <1>1, <1>2, CardChunkKeeps, ScanKeeps, CardChunkEndsKeeps DEF CardNext, CInv

LEMMA CInvInit ==
  ASSUME CardInit
  PROVE  CInv
<1>1. IInv /\ Aligned
  BY IInvInit, VInvInit DEF CardInit, VInv
<1>2. StreamEnd = 0 /\ OnVolume
  BY DEF CardInit, Init, StreamEnd, OnVolume
<1> QED
  BY <1>1, <1>2 DEF CInv, OnCard, CardInit

\* A prefix that was on the card before the chunk was seen by the scan.
LEMMA PrefixWasSeen ==
  ASSUME CInv, PrefixBefore, at # "idle", pos = len, Len(stream) > len, Len(PREFIX) <= SECTOR
  PROVE  PrefixEnds(Len(stream) - len)
<1>1. /\ Len(stream) \in Nat /\ Len(out) = Len(stream) /\ len \in Nat /\ lba \in Nat
  BY DEF CInv, IInv, TypeOK, ValuesScrubbed
<1>2. PICK e \in Nat : e = lba * SECTOR
  BY <1>1
<1>3. PICK j \in Nat : j = Len(stream) - len
  <2>1. Len(stream) - len \in Nat
    BY <1>1
  <2> QED
    BY <2>1
<1>4. /\ CardEnd = e /\ StreamEnd = j /\ j # 0 /\ j <= Len(stream) /\ LastSector
  BY <1>1, <1>2, <1>3 DEF CInv, OnCard, CardEnd, StreamEnd
<1>5. e >= Len(PREFIX) /\ SubSeq(card, e - Len(PREFIX) + 1, e) = PREFIX
  BY <1>2 DEF PrefixBefore
<1>6. ASSUME NEW m \in 1 .. Len(PREFIX)
      PROVE  stream[j - Len(PREFIX) + m] = PREFIX[m]
  <2>1. PICK i \in 0 .. SECTOR - 1 : i = Len(PREFIX) - m
    <3>1. Len(PREFIX) - m \in 0 .. SECTOR - 1
      OBVIOUS
    <3> QED
      BY <3>1
  <2>2. PREFIX[m] = card[e - i]
    <3>1. PREFIX[m] = SubSeq(card, e - Len(PREFIX) + 1, e)[m]
      BY <1>5
    <3>2. SubSeq(card, e - Len(PREFIX) + 1, e)[m] = card[(e - Len(PREFIX) + 1) + m - 1]
      BY <1>5
    <3>3. (e - Len(PREFIX) + 1) + m - 1 = e - i
      BY <1>5, <2>1
    <3> QED
      BY <3>1, <3>2, <3>3
  <2>3. card[e - i] = out[j - i]
    BY <1>4, <2>1 DEF LastSector
  <2>4. j - i \in 1 .. Len(stream)
    BY <1>1, <1>4, <2>1 DEF LastSector
  <2>5. out[j - i] = stream[j - i]
    <3>1. out[j - i] # Zero
      BY <2>2, <2>3
    <3> QED
      BY <2>4, <3>1 DEF CInv, IInv, ValuesScrubbed
  <2>6. j - i = j - Len(PREFIX) + m
    BY <2>1
  <2> QED
    BY <2>2, <2>3, <2>5, <2>6
<1>7. j \in Len(PREFIX) .. Len(stream)
  BY <1>1, <1>4 DEF LastSector
<1> QED
  BY <1>3, <1>6, <1>7 DEF PrefixEnds

LEMMA ContinuedZeroed ==
  ASSUME CInv, CardChunkEnds, PrefixBefore, Len(stream) > len, SECTORS \in Nat, Len(PREFIX) <= SECTOR
  PROVE  Terminator(card'[lba * SECTOR + 1])
<1>1. at # "idle" /\ pos = len
  BY DEF CardChunkEnds, ChunkEnds
<1>2. /\ Len(stream) \in Nat /\ Len(out) = Len(stream) /\ len \in Nat /\ lba \in Nat
  BY DEF CInv, IInv, TypeOK, ValuesScrubbed
<1>3. PICK e \in Nat : e = lba * SECTOR
  BY <1>2
<1>4. PICK s \in Nat : s = SECTORS * SECTOR
  OBVIOUS
<1>5. len >= SECTOR /\ e + len <= s
  BY <1>1, <1>3, <1>4 DEF CInv, OnCard, OnVolume
<1>6. PICK k \in Nat : k = Len(stream) - len + 1
  <2>1. Len(stream) - len + 1 \in Nat
    BY <1>2
  <2> QED
    BY <2>1
<1>7. card'[e + 1] = out[k]
  <2>1. e + 1 \in 1 .. s /\ (e + 1) - e \in 1 .. len /\ (e + 1) - e = 1
    BY <1>2, <1>3, <1>4, <1>5
  <2>2. card'[e + 1] = out[Len(out) - len + 1]
    BY <1>3, <1>4, <2>1 DEF CardChunkEnds, CInv, OnCard
  <2> QED
    BY <1>2, <1>6, <2>2
<1>8. k \in 1 .. Len(stream) /\ k - 1 \in 1 .. Len(stream) /\ k - 1 = Len(stream) - len
  BY <1>2, <1>5, <1>6
<1>9. Open(k - 1)
  <2>1. PrefixEnds(k - 1)
    BY <1>1, <1>8, PrefixWasSeen
  <2>2. \A t \in (k - 1) + 1 .. k - 1 : ~Terminator(stream[t])
    BY <1>6
  <2>3. k - 1 \in 1 .. k - 1
    BY <1>6, <1>8
  <2> QED
    BY <2>1, <2>2, <2>3 DEF Open
<1>10. Terminator(out[k])
  <2>1. out[k] = IF InValue(k) THEN Zero ELSE stream[k]
    BY <1>8 DEF CInv, IInv, ValuesScrubbed
  <2> QED
    BY <1>9, <2>1 DEF InValue, Terminator
<1> QED
  BY <1>3, <1>7, <1>10

(* What readme.md:95 promises of a value holds on the card for every chunk *)
(* that continues the write before it, whatever the card held: the prefix, *)
(* if it is on the card just before such a chunk, was scanned with it.     *)
THEOREM SnoopContinuedZeroed ==
  SECTORS \in Nat /\ Len(PREFIX) <= SECTOR => (CardSpec => ContinuedValuesZeroed)
<1> SUFFICES ASSUME SECTORS \in Nat, Len(PREFIX) <= SECTOR
             PROVE  CardSpec => ContinuedValuesZeroed
  OBVIOUS
<1>1. CardInit => CInv
  BY CInvInit
<1>2. CInv /\ [CardNext]_cardVars => CInv'
  BY CInvStep
<1>3. CInv /\ [CardNext]_cardVars
        => [ (at # "idle" /\ at' = "idle" /\ PrefixBefore /\ Len(stream) > len)
             => Terminator(card'[lba * SECTOR + 1]) ]_cardVars
  <2> SUFFICES ASSUME CInv, CardNext, at # "idle", at' = "idle", PrefixBefore, Len(stream) > len
               PROVE  Terminator(card'[lba * SECTOR + 1])
    OBVIOUS
  <2>1. CardChunkEnds
    BY DEF CardNext, CardChunk, NewChunk, Chunk, ScanByte, Scan, ValueByte, ValueEnds, Match,
       PrefixFound, Mismatch
  <2> QED
    BY <2>1, ContinuedZeroed
<1> QED
  BY <1>1, <1>2, <1>3, PTL DEF CardSpec, ContinuedValuesZeroed
=============================================================================
