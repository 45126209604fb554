---------------------------- MODULE SnoopProofs ----------------------------
(***************************************************************************)
(* Proofs about Snoop for any prefix whose first byte occurs in it once,   *)
(* any sector size and limit, and writes of any length: no index leaves    *)
(* its array, and every byte of every value is blanked, however the        *)
(* writes are cut into chunks.                                             *)
(*                                                                         *)
(* The blanking is not inductive: that the scan is in a value exactly when *)
(* one is open in the stream depends on what prefix_match_len says of the  *)
(* last bytes.  While the scan searches, matched is the only length, short *)
(* of the whole prefix, at which the stream ends with the beginning of the *)
(* prefix; there is only one because PREFIX[1] occurs nowhere else in it.  *)
(***************************************************************************)
EXTENDS Snoop, SequenceTheorems, TLAPS

\* The stream ends with the first m bytes of the prefix.
Suffix(m) ==
  /\ m <= Len(stream)
  /\ \A i \in 1 .. m : stream[Len(stream) - m + i] = PREFIX[i]

Valuing == at \in {"continue", "value"} \/ (at = "idle" /\ partial)

Modes ==
  /\ at = "continue" => partial
  /\ at \in {"search", "value"} => ~partial
  /\ Valuing => matched = 0

Follows ==
  /\ Valuing <=> Open(Len(stream))
  /\ ~Valuing => \A m \in 1 .. Len(PREFIX) - 1 : Suffix(m) <=> matched = m

(* The inductive invariant.                                                *)
IInv == TypeOK /\ Modes /\ Follows /\ ValuesScrubbed

----------------------------------------------------------------------------
\* The prefix has a second byte, no terminator, and no other byte like its first.
LEMMA PrefixFacts ==
  /\ Len(PREFIX) \in Nat /\ Len(PREFIX) >= 2
  /\ \A m \in 1 .. Len(PREFIX) : PREFIX[m] \in Bytes /\ PREFIX[m] \notin Terminators
  /\ \A m \in 2 .. Len(PREFIX) : PREFIX[m] # PREFIX[1]
<1>1. PREFIX \in Seq(Bytes \ Terminators) /\ Len(PREFIX) > 1
  BY PrefixAssumption
<1>2. Len(PREFIX) \in Nat
  BY <1>1, LenProperties
<1>3. \A m \in 1 .. Len(PREFIX) : PREFIX[m] \in Bytes \ Terminators
  BY <1>1, ElementOfSeq
<1> QED
  BY <1>1, <1>2, <1>3, PrefixAssumption

USE ByteAssumption, PrefixFacts, SizeAssumption

\* Least of two lengths.
LEMMA LeastNat == \A a, b \in Nat : Least(a, b) \in Nat /\ Least(a, b) <= a /\ Least(a, b) <= b
  BY DEF Least

\* Where a byte lies: its sector, and a place in it that has a successor.
LEMMA Place ==
  ASSUME NEW p \in Nat
  PROVE  p \div SECTOR \in Nat /\ (p % SECTOR) + 1 \in 1 .. SECTOR
  OBVIOUS

\* A byte is read from inside the chunk.
LEMMA TakeTypes ==
  ASSUME TypeOK, NEW c \in Bytes, NEW d \in Bytes \cup {Zero}, Take(c, d)
  PROVE  /\ pos' \in 0 .. len
         /\ stream' \in Seq(Bytes) /\ out' \in Seq(Bytes \cup {Zero})
  BY DEF TypeOK, Take

\* Every step keeps the indices of the scan and of pending_pw in range.
LEMMA TypeStep == TypeOK /\ [Next]_vars => TypeOK'
<1> SUFFICES ASSUME TypeOK, [Next]_vars PROVE TypeOK'
  OBVIOUS
<1>1. CASE NewChunk
  <2>1. PICK l \in Lbas \cup {nextLba}, n \in ChunkSizes : Chunk(l, n)
    BY <1>1 DEF NewChunk
  <2>2. l \in Nat /\ n \in Nat /\ n * SECTOR \in Nat
    BY DEF TypeOK
  <2>3. matched' \in 0 .. Len(PREFIX) - 1 /\ partial' \in BOOLEAN
    <3>1. (matched' = 0 \/ matched' = matched) /\ (partial' = FALSE \/ partial' = partial)
      BY <2>1 DEF Chunk
    <3>2. matched' \in 0 .. Len(PREFIX) - 1
      BY <3>1 DEF TypeOK
    <3>3. partial' \in BOOLEAN
      BY <3>1 DEF TypeOK
    <3> QED
      BY <3>2, <3>3
  <2>4. stream' \in Seq(Bytes) /\ out' \in Seq(Bytes \cup {Zero})
    <3>1. CASE l # nextLba
      BY <2>1, <3>1 DEF Chunk
    <3>2. CASE l = nextLba
      BY <2>1, <3>2 DEF Chunk, TypeOK
    <3> QED
      BY <3>1, <3>2
  <2>5. at' \in {"idle", "continue", "search", "value"}
    BY <2>1 DEF Chunk
  <2>6. lba' \in Nat /\ len' \in Nat /\ nextLba' \in Nat /\ pos' \in 0 .. len'
    <3>1. lba' = l /\ len' = n * SECTOR /\ nextLba' = l + n /\ pos' = 0
      BY <2>1 DEF Chunk
    <3> QED
      BY <2>2, <3>1
  <2>7. pw' = pw /\ pwLen' = pwLen /\ pwLba' = pwLba /\ pwOffset' = pwOffset /\ pstate' = pstate
    BY <2>1 DEF Chunk, pending
  <2> QED
    BY <2>3, <2>4, <2>5, <2>6, <2>7 DEF TypeOK
<1>2. CASE ScanByte
  <2>1. PICK c \in Bytes : Scan(c)
    BY <1>2 DEF ScanByte
  <2>2. CASE ValueByte(c)
    <3>1. pw' \in Seq(Bytes) /\ Len(pw') = Least(pwLen', MAXPW) /\ pwLen' \in 0 .. MAXPW + 1
      BY <2>2 DEF ValueByte, KeepByte, Least, TypeOK
    <3> QED
      BY <2>2, <3>1, TakeTypes DEF ValueByte, chunk, TypeOK
  <2>3. CASE ValueEnds(c)
    <3>1. pw' \in Seq(Bytes) /\ Len(pw') = Least(pwLen', MAXPW)
      BY <2>3 DEF ValueEnds, Least, TypeOK
    <3>2. /\ partial' = FALSE /\ matched' = 0 /\ at' = "search"
          /\ lba' = lba /\ len' = len /\ nextLba' = nextLba
          /\ pwLen' = pwLen /\ pwLba' = pwLba /\ pwOffset' = pwOffset
      BY <2>3 DEF ValueEnds, chunk
    <3>3. pstate' \in {"LOCKED", "PENDING"}
      BY <2>3 DEF ValueEnds, TypeOK
    <3>4. pos' \in 0 .. len /\ stream' \in Seq(Bytes) /\ out' \in Seq(Bytes \cup {Zero})
      BY <2>3, TakeTypes DEF ValueEnds
    <3>5. matched' \in 0 .. Len(PREFIX) - 1
      BY <3>2
    <3>6. partial' \in BOOLEAN
      BY <3>2
    <3> QED
      BY <3>1, <3>2, <3>3, <3>4, <3>5, <3>6 DEF TypeOK
  <2>4. CASE Match(c)
    BY <2>4, TakeTypes DEF Match, chunk, pending, TypeOK
  <2>5. CASE PrefixFound(c)
    <3>1. pwLba' \in Nat /\ pwOffset' \in 0 .. SECTOR
      <4>1. pos \in Nat /\ lba \in Nat
        BY DEF TypeOK
      <4>2. pos \div SECTOR \in Nat /\ (pos % SECTOR) + 1 \in 1 .. SECTOR
        BY <4>1, Place
      <4>3. pwLba' = lba + (pos \div SECTOR) /\ pwOffset' = (pos % SECTOR) + 1
        BY <2>5 DEF PrefixFound
      <4> QED
        BY <4>1, <4>2, <4>3
    <3>2. pw' \in Seq(Bytes) /\ Len(pw') = Least(pwLen', MAXPW) /\ pwLen' \in 0 .. MAXPW + 1
      BY <2>5 DEF PrefixFound, Least, TypeOK
    <3>3. /\ partial' = FALSE /\ matched' = 0 /\ at' = "value"
          /\ lba' = lba /\ len' = len /\ nextLba' = nextLba /\ pstate' = pstate
      BY <2>5 DEF PrefixFound, chunk
    <3>4. pos' \in 0 .. len /\ stream' \in Seq(Bytes) /\ out' \in Seq(Bytes \cup {Zero})
      BY <2>5, TakeTypes DEF PrefixFound
    <3>5. matched' \in 0 .. Len(PREFIX) - 1
      BY <3>3
    <3>6. partial' \in BOOLEAN
      BY <3>3
    <3> QED
      BY <3>1, <3>2, <3>3, <3>4, <3>5, <3>6 DEF TypeOK
  <2>6. CASE Mismatch(c)
    BY <2>6, TakeTypes DEF Mismatch, chunk, pending, TypeOK
  <2> QED
    BY <2>1, <2>2, <2>3, <2>4, <2>5, <2>6 DEF Scan
<1>3. CASE ChunkEnds
  BY <1>3 DEF ChunkEnds, chunk, pending, TypeOK
<1>4. CASE UNCHANGED vars
  BY <1>4 DEF vars, chunk, pending, TypeOK
<1> QED
  BY <1>1, <1>2, <1>3, <1>4 DEF Next

\* Before the first write nothing is matched and nothing kept.
LEMMA TypeInit == Init => TypeOK
<1> SUFFICES ASSUME Init PROVE TypeOK
  OBVIOUS
<1>1. matched \in 0 .. Len(PREFIX) - 1
  BY DEF Init
<1>2. pw \in Seq(Bytes) /\ stream \in Seq(Bytes) /\ out \in Seq(Bytes \cup {Zero})
  BY DEF Init
<1>3. Len(pw) = Least(pwLen, MAXPW) /\ pwLen \in 0 .. MAXPW + 1
  BY DEF Init, Least
<1>4. pwOffset \in 0 .. SECTOR /\ pos \in 0 .. len /\ pwLba \in Nat /\ nextLba \in Nat
  BY DEF Init
<1>5. partial \in BOOLEAN
  BY DEF Init
<1> QED
  BY <1>1, <1>2, <1>3, <1>4, <1>5 DEF Init, TypeOK

(* Type correctness for every prefix, limit and sector size: pending_pw is *)
(* never written past its end, the prefix never read past its own, and the *)
(* length counter stops one beyond the limit.                              *)
THEOREM SnoopTypeCorrect == Spec => []TypeOK
  BY TypeInit, TypeStep, PTL DEF Spec

----------------------------------------------------------------------------
(* What one more byte does to the stream.                                  *)

\* It joins the end and leaves the rest where it was.
LEMMA Appended ==
  ASSUME TypeOK, NEW c \in Bytes, stream' = Append(stream, c)
  PROVE  /\ Len(stream) \in Nat /\ Len(stream)' = Len(stream) + 1
         /\ stream'[Len(stream) + 1] = c
         /\ \A i \in 1 .. Len(stream) : stream'[i] = stream[i]
  BY AppendProperties DEF TypeOK

\* Whether a prefix ended at an earlier byte does not change.
LEMMA PrefixStays ==
  ASSUME TypeOK, NEW c \in Bytes, stream' = Append(stream, c),
         NEW j \in 1 .. Len(stream)
  PROVE  PrefixEnds(j)' <=> PrefixEnds(j)
<1>1. \A m \in 1 .. Len(PREFIX) : j >= Len(PREFIX) =>
        stream'[j - Len(PREFIX) + m] = stream[j - Len(PREFIX) + m]
  BY Appended
<1>2. Len(stream) \in Nat /\ Len(stream') = Len(stream) + 1
  BY Appended
<1>3. j \in Len(PREFIX) .. Len(stream') <=> j \in Len(PREFIX) .. Len(stream)
  BY <1>2
<1>4. j \in Len(PREFIX) .. Len(stream) => j >= Len(PREFIX)
  BY <1>2
<1>5. ASSUME PrefixEnds(j) PROVE PrefixEnds(j)'
  BY <1>1, <1>3, <1>4, <1>5 DEF PrefixEnds
<1>6. ASSUME PrefixEnds(j)' PROVE PrefixEnds(j)
  BY <1>1, <1>3, <1>4, <1>6 DEF PrefixEnds
<1> QED
  BY <1>5, <1>6

\* Nor whether a value was open after an earlier byte.
LEMMA OpenStays ==
  ASSUME TypeOK, NEW c \in Bytes, stream' = Append(stream, c),
         NEW k \in 0 .. Len(stream)
  PROVE  Open(k)' <=> Open(k)
<1>1. \A j \in 1 .. k : PrefixEnds(j)' <=> PrefixEnds(j)
  BY PrefixStays, Appended
<1>2. k \in Nat /\ \A t \in 1 .. k : stream'[t] = stream[t]
  BY Appended
<1>3. ASSUME NEW j \in 1 .. k
      PROVE  (\A t \in j + 1 .. k : ~Terminator(stream'[t]))
               <=> \A t \in j + 1 .. k : ~Terminator(stream[t])
  <2>1. \A t \in j + 1 .. k : t \in 1 .. k
    BY <1>2
  <2> QED
    BY <1>2, <2>1
<1>4. Open(k)' <=> \E j \in 1 .. k : PrefixEnds(j)' /\ \A t \in j + 1 .. k : ~Terminator(stream'[t])
  BY DEF Open, Terminator
<1> QED
  BY <1>1, <1>3, <1>4 DEF Open

\* A value is open after the new byte if the byte completes a prefix, or if
\* one was open and the byte does not end it.
LEMMA OpenGrows ==
  ASSUME TypeOK, NEW c \in Bytes, stream' = Append(stream, c)
  PROVE  Open(Len(stream))' <=>
           PrefixEnds(Len(stream))' \/ (Open(Len(stream)) /\ ~Terminator(c))
<1> DEFINE n == Len(stream)
<1>1. n \in Nat /\ Len(stream') = n + 1 /\ stream'[n + 1] = c
  BY Appended
<1>2. \A i \in 1 .. n : stream'[i] = stream[i]
  BY Appended
<1>3. \A j \in 1 .. n : PrefixEnds(j)' <=> PrefixEnds(j)
  BY PrefixStays
<1>4. ASSUME Open(Len(stream))', ~PrefixEnds(Len(stream))'
      PROVE  Open(n) /\ ~Terminator(c)
  <2>1. PICK j \in 1 .. n + 1 :
          PrefixEnds(j)' /\ \A t \in j + 1 .. n + 1 : ~Terminator(stream'[t])
    BY <1>1, <1>4 DEF Open, Terminator
  <2>2. j # n + 1
    BY <1>1, <1>4, <2>1 DEF PrefixEnds
  <2>3. j \in 1 .. n /\ n + 1 \in j + 1 .. n + 1
    BY <1>1, <2>1, <2>2
  <2>4. PrefixEnds(j) /\ \A t \in j + 1 .. n : ~Terminator(stream[t])
    BY <1>1, <1>2, <1>3, <2>1, <2>3
  <2> QED
    BY <1>1, <2>1, <2>3, <2>4 DEF Open
<1>5. ASSUME Open(n), ~Terminator(c) PROVE Open(Len(stream))'
  <2>1. PICK j \in 1 .. n : PrefixEnds(j) /\ \A t \in j + 1 .. n : ~Terminator(stream[t])
    BY <1>5 DEF Open
  <2>2. PrefixEnds(j)' /\ \A t \in j + 1 .. n + 1 : ~Terminator(stream'[t])
    BY <1>1, <1>2, <1>3, <1>5, <2>1
  <2> QED
    BY <1>1, <2>1, <2>2 DEF Open, Terminator
<1>6. ASSUME PrefixEnds(Len(stream))' PROVE Open(Len(stream))'
  BY <1>1, <1>6 DEF Open
<1> QED
  BY <1>4, <1>5, <1>6

\* The stream now ends with m bytes of the prefix if it ended with m - 1 of
\* them and the byte is the next.
LEMMA SuffixGrows ==
  ASSUME TypeOK, NEW c \in Bytes, stream' = Append(stream, c),
         NEW m \in 1 .. Len(PREFIX)
  PROVE  Suffix(m)' <=> c = PREFIX[m] /\ (m = 1 \/ Suffix(m - 1))
<1> DEFINE n == Len(stream)
<1>1. n \in Nat /\ Len(stream') = n + 1 /\ stream'[n + 1] = c
  BY Appended
<1>2. \A i \in 1 .. n : stream'[i] = stream[i]
  BY Appended
<1>3. ASSUME Suffix(m)' PROVE c = PREFIX[m] /\ (m = 1 \/ Suffix(m - 1))
  <2>1. m <= n + 1 /\ \A i \in 1 .. m : stream'[n + 1 - m + i] = PREFIX[i]
    <3>1. m <= Len(stream') /\ \A i \in 1 .. m : stream'[Len(stream') - m + i] = PREFIX[i]
      BY <1>3 DEF Suffix
    <3> QED
      BY <1>1, <3>1
  <2>2. stream'[n + 1 - m + m] = PREFIX[m]
    <3>1. m \in 1 .. m
      OBVIOUS
    <3> QED
      BY <2>1, <3>1
  <2>3. \A i \in 1 .. m - 1 : stream[n - (m - 1) + i] = PREFIX[i]
    <3> TAKE i \in 1 .. m - 1
    <3>1. n - (m - 1) + i \in 1 .. n /\ n + 1 - m + i = n - (m - 1) + i
      BY <1>1, <2>1
    <3> QED
      BY <1>2, <2>1, <3>1
  <2> QED
    BY <1>1, <2>1, <2>2, <2>3 DEF Suffix
<1>4. ASSUME c = PREFIX[m], m = 1 \/ Suffix(m - 1) PROVE Suffix(m)'
  <2>1. m <= n + 1 /\ \A i \in 1 .. m - 1 : stream[n - (m - 1) + i] = PREFIX[i]
    BY <1>1, <1>4 DEF Suffix
  <2>2. \A i \in 1 .. m : stream'[n + 1 - m + i] = PREFIX[i]
    <3> TAKE i \in 1 .. m
    <3>1. CASE i = m
      BY <1>1, <1>4, <3>1
    <3>2. CASE i < m
      <4>1. n - (m - 1) + i \in 1 .. n /\ n + 1 - m + i = n - (m - 1) + i /\ i \in 1 .. m - 1
        BY <1>1, <2>1, <3>2
      <4> QED
        BY <1>2, <2>1, <4>1
    <3>3. i = m \/ i < m
      OBVIOUS
    <3> QED
      BY <3>1, <3>2, <3>3
  <2> QED
    BY <1>1, <2>1, <2>2 DEF Suffix
<1> QED
  BY <1>3, <1>4

\* A prefix ends with the stream when the stream ends with all of it.
LEMMA SuffixIsPrefix ==
  ASSUME TypeOK PROVE PrefixEnds(Len(stream)) <=> Suffix(Len(PREFIX))
  BY DEF TypeOK, PrefixEnds, Suffix


----------------------------------------------------------------------------
(* The steps.                                                              *)

\* What has been written to the card stays as it was, and the new byte is
\* blanked if a value was open and it is not what ends it.
LEMMA ScrubStep ==
  ASSUME TypeOK, ValuesScrubbed, NEW c \in Bytes, NEW d \in Bytes \cup {Zero}, Take(c, d),
         d = IF Open(Len(stream)) /\ ~Terminator(c) THEN Zero ELSE c
  PROVE  ValuesScrubbed'
<1> DEFINE n == Len(stream)
<1>1. stream' = Append(stream, c) /\ out' = Append(out, d)
  BY DEF Take
<1>2. n \in Nat /\ Len(stream') = n + 1 /\ stream'[n + 1] = c
  BY <1>1, Appended
<1>3. \A i \in 1 .. n : stream'[i] = stream[i]
  BY <1>1, Appended
<1>4. Len(out') = n + 1 /\ out'[n + 1] = d /\ \A i \in 1 .. n : out'[i] = out[i]
  BY <1>1, AppendProperties DEF TypeOK, ValuesScrubbed
<1>5. ASSUME NEW k \in 1 .. n + 1
      PROVE  out'[k] = IF Open(k - 1)' /\ ~Terminator(stream'[k]) THEN Zero ELSE stream'[k]
  <2>1. Open(k - 1)' <=> Open(k - 1)
    BY <1>1, <1>2, OpenStays
  <2>2. CASE k = n + 1
    BY <1>2, <1>4, <2>1, <2>2
  <2>3. CASE k \in 1 .. n
    BY <1>3, <1>4, <2>1, <2>3 DEF ValuesScrubbed, InValue
  <2>4. k = n + 1 \/ k \in 1 .. n
    BY <1>2
  <2> QED
    BY <2>2, <2>3, <2>4
<1> QED
  BY <1>2, <1>4, <1>5 DEF ValuesScrubbed, InValue, Terminator

\* What is true of the bytes written stays true when none is added.
LEMMA SameStream ==
  ASSUME stream' = stream, out' = out, ValuesScrubbed
  PROVE  /\ ValuesScrubbed'
         /\ Open(Len(stream))' <=> Open(Len(stream))
         /\ \A m : Suffix(m)' <=> Suffix(m)
<1>1. ASSUME NEW j PROVE PrefixEnds(j)' <=> PrefixEnds(j)
  BY DEF PrefixEnds
<1>2. ASSUME NEW k PROVE Open(k)' <=> Open(k)
  BY <1>1 DEF Open
<1>3. ASSUME NEW k PROVE InValue(k)' <=> InValue(k)
  BY <1>2 DEF InValue
<1>4. ValuesScrubbed'
  <2>1. Len(out') = Len(stream')
    BY DEF ValuesScrubbed
  <2>2. ASSUME NEW k \in 1 .. Len(stream')
        PROVE  out'[k] = IF InValue(k)' THEN Zero ELSE stream'[k]
    <3>1. out[k] = IF InValue(k) THEN Zero ELSE stream[k]
      BY DEF ValuesScrubbed
    <3> QED
      BY <1>3, <3>1
  <2> QED
    BY <2>1, <2>2 DEF ValuesScrubbed
<1>5. ASSUME NEW m PROVE Suffix(m)' <=> Suffix(m)
  BY DEF Suffix
<1>6. Open(Len(stream))' <=> Open(Len(stream))
  BY <1>2
<1> QED
  BY <1>4, <1>5, <1>6

\* A write that follows the last one finds what it left; one that does not
\* starts with an empty stream and nothing matched.
LEMMA NewChunkStep == IInv /\ NewChunk => (Modes /\ Follows /\ ValuesScrubbed)'
<1> SUFFICES ASSUME IInv, NewChunk PROVE (Modes /\ Follows /\ ValuesScrubbed)'
  OBVIOUS
<1>1. PICK l \in Lbas \cup {nextLba}, n \in ChunkSizes : Chunk(l, n)
  BY DEF NewChunk
<1>2. CASE l = nextLba
  <2>1. /\ partial' = partial /\ matched' = matched /\ stream' = stream /\ out' = out
        /\ at = "idle" /\ at' = IF partial THEN "continue" ELSE "search"
    BY <1>1, <1>2 DEF Chunk
  <2>2. Valuing' <=> Valuing
    BY <2>1 DEF Valuing
  <2>3. Modes'
    BY <2>1, <2>2 DEF IInv, Modes, Valuing
  <2>4. Follows'
    BY <2>1, <2>2, SameStream DEF IInv, Follows
  <2>5. ValuesScrubbed'
    BY <2>1, SameStream DEF IInv
  <2> QED
    BY <2>3, <2>4, <2>5
<1>3. CASE l # nextLba
  <2>1. /\ partial' = FALSE /\ matched' = 0 /\ stream' = <<>> /\ out' = <<>>
        /\ at' = "search"
    BY <1>1, <1>3 DEF Chunk
  <2>2. Modes' /\ ~Valuing'
    BY <2>1 DEF Modes, Valuing
  <2>3. ~Open(Len(stream))'
    BY <2>1 DEF Open
  <2>4. \A m \in 1 .. Len(PREFIX) - 1 : ~Suffix(m)' /\ matched' # m
    BY <2>1 DEF Suffix
  <2>5. Follows'
    BY <2>2, <2>3, <2>4 DEF Follows
  <2>6. ValuesScrubbed'
    BY <2>1 DEF ValuesScrubbed
  <2> QED
    BY <2>2, <2>5, <2>6
<1> QED
  BY <1>2, <1>3

\* Inside a value a byte that does not end it leaves it open.
LEMMA ValueByteStep ==
  ASSUME IInv, NEW c \in Bytes, ValueByte(c)
  PROVE  (Modes /\ Follows /\ ValuesScrubbed)'
<1>1. at' = at /\ matched' = matched /\ partial' = partial /\ Take(c, Zero)
  BY DEF ValueByte
<1>2. Valuing /\ Valuing' /\ ~Terminator(c)
  BY <1>1 DEF ValueByte, Valuing
<1>3. TypeOK /\ Open(Len(stream)) /\ stream' = Append(stream, c)
  BY <1>1, <1>2 DEF IInv, Follows, Take
<1>4. Modes'
  BY <1>1, <1>2 DEF IInv, Modes
<1>5. Follows'
  BY <1>2, <1>3, OpenGrows DEF Follows
<1>6. ValuesScrubbed'
  BY <1>1, <1>2, <1>3, ScrubStep DEF IInv
<1> QED
  BY <1>4, <1>5, <1>6

\* The terminator closes the value, and is no byte of a prefix.
LEMMA ValueEndsStep ==
  ASSUME IInv, NEW c \in Bytes, ValueEnds(c)
  PROVE  (Modes /\ Follows /\ ValuesScrubbed)'
<1>1. at' = "search" /\ matched' = 0 /\ partial' = FALSE /\ Take(c, c)
  BY DEF ValueEnds
<1>2. Terminator(c) /\ TypeOK /\ stream' = Append(stream, c)
  BY <1>1 DEF IInv, ValueEnds, Take
<1>3. \A m \in 1 .. Len(PREFIX) : ~Suffix(m)'
  BY <1>2, SuffixGrows DEF Terminator
<1>4. ~PrefixEnds(Len(stream))'
  <2>1. TypeOK'
    BY TypeStep DEF IInv, Next, ScanByte, Scan
  <2>2. PrefixEnds(Len(stream))' <=> Suffix(Len(PREFIX))'
    BY <2>1, SuffixIsPrefix, PTL
  <2> QED
    BY <1>3, <2>2
<1>5. ~Open(Len(stream))'
  BY <1>2, <1>4, OpenGrows
<1>6. ~Valuing' /\ Modes'
  BY <1>1 DEF Valuing, Modes
<1>7. Follows'
  BY <1>1, <1>3, <1>5, <1>6 DEF Follows
<1>8. ValuesScrubbed'
  BY <1>1, <1>2, ScrubStep DEF IInv
<1> QED
  BY <1>6, <1>7, <1>8

\* While it searches, the prefix has come as far as matched says, so the
\* stream grows a longer beginning of the prefix only by the byte after it.
LEMMA SearchByte ==
  ASSUME IInv, NEW c \in Bytes, at = "search", Take(c, c)
  PROVE  /\ \A m \in 2 .. Len(PREFIX) : Suffix(m)' <=> (c = PREFIX[m] /\ matched = m - 1)
         /\ Suffix(1)' <=> c = PREFIX[1]
         /\ PrefixEnds(Len(stream))' <=> (Continues(c) /\ matched + 1 = Len(PREFIX))
         /\ Open(Len(stream))' <=> PrefixEnds(Len(stream))'
         /\ ValuesScrubbed'
<1>1. TypeOK /\ stream' = Append(stream, c) /\ ~partial /\ ~Valuing
  BY DEF IInv, Take, Modes, Valuing
<1>2. ~Open(Len(stream)) /\ \A m \in 1 .. Len(PREFIX) - 1 : Suffix(m) <=> matched = m
  BY <1>1 DEF IInv, Follows
<1>3. ASSUME NEW m \in 2 .. Len(PREFIX)
      PROVE  Suffix(m)' <=> (c = PREFIX[m] /\ matched = m - 1)
  <2>1. m \in 1 .. Len(PREFIX) /\ m - 1 \in 1 .. Len(PREFIX) - 1 /\ m # 1
    OBVIOUS
  <2> QED
    BY <1>1, <1>2, <2>1, SuffixGrows
<1>4. Suffix(1)' <=> c = PREFIX[1]
  <2>1. 1 \in 1 .. Len(PREFIX)
    OBVIOUS
  <2> QED
    BY <1>1, <2>1, SuffixGrows
<1>5. PrefixEnds(Len(stream))' <=> Suffix(Len(PREFIX))'
  <2>1. Len(stream') \in Nat
    BY <1>1, Appended
  <2> QED
    BY <2>1 DEF PrefixEnds, Suffix
<1>6. Suffix(Len(PREFIX))' <=> (c = PREFIX[Len(PREFIX)] /\ matched = Len(PREFIX) - 1)
  BY <1>3
<1>7. PrefixEnds(Len(stream))' <=> (Continues(c) /\ matched + 1 = Len(PREFIX))
  BY <1>1, <1>5, <1>6 DEF Continues, TypeOK
<1>8. Open(Len(stream))' <=> PrefixEnds(Len(stream))'
  BY <1>1, <1>2, OpenGrows
<1>9. ValuesScrubbed'
  BY <1>1, <1>2, ScrubStep DEF IInv
<1> QED
  BY <1>3, <1>4, <1>7, <1>8, <1>9

\* One more byte of the prefix.
LEMMA MatchStep ==
  ASSUME IInv, NEW c \in Bytes, Match(c)
  PROVE  (Modes /\ Follows /\ ValuesScrubbed)'
<1>1. /\ at = "search" /\ Continues(c) /\ matched + 1 < Len(PREFIX) /\ Take(c, c)
      /\ at' = at /\ partial' = partial /\ matched' = matched + 1
  BY DEF Match
<1>2. matched \in 0 .. Len(PREFIX) - 1 /\ c = PREFIX[matched + 1] /\ ~partial
  BY <1>1 DEF IInv, TypeOK, Modes, Continues
<1>3. ~Valuing' /\ Modes'
  BY <1>1, <1>2 DEF Valuing, Modes
<1>4. ~Open(Len(stream))' /\ ValuesScrubbed'
  BY <1>1, <1>2, SearchByte
<1>5. ASSUME NEW m \in 1 .. Len(PREFIX) - 1 PROVE Suffix(m)' <=> matched' = m
  <2>1. CASE m = 1
    <3>1. Suffix(m)' <=> c = PREFIX[1]
      BY <1>1, <2>1, SearchByte
    <3>2. c = PREFIX[1] <=> matched = 0
      <4>1. matched # 0 => matched + 1 \in 2 .. Len(PREFIX)
        BY <1>1, <1>2
      <4> QED
        BY <1>2, <4>1
    <3> QED
      BY <1>1, <1>2, <2>1, <3>1, <3>2
  <2>2. CASE m \in 2 .. Len(PREFIX)
    <3>1. Suffix(m)' <=> (c = PREFIX[m] /\ matched = m - 1)
      BY <1>1, <2>2, SearchByte
    <3> QED
      BY <1>1, <1>2, <2>2, <3>1
  <2>3. m = 1 \/ m \in 2 .. Len(PREFIX)
    OBVIOUS
  <2> QED
    BY <2>1, <2>2, <2>3
<1>6. Follows'
  BY <1>3, <1>4, <1>5 DEF Follows
<1> QED
  BY <1>3, <1>4, <1>6

\* A byte that is not the next may still be the first.
LEMMA MismatchStep ==
  ASSUME IInv, NEW c \in Bytes, Mismatch(c)
  PROVE  (Modes /\ Follows /\ ValuesScrubbed)'
<1>1. /\ at = "search" /\ ~Continues(c) /\ Take(c, c)
      /\ at' = at /\ partial' = partial /\ matched' = IF c = PREFIX[1] THEN 1 ELSE 0
  BY DEF Mismatch
<1>2. matched \in 0 .. Len(PREFIX) - 1 /\ c # PREFIX[matched + 1] /\ ~partial
  BY <1>1 DEF IInv, TypeOK, Modes, Continues
<1>3. ~Valuing' /\ Modes'
  BY <1>1, <1>2 DEF Valuing, Modes
<1>4. ~Open(Len(stream))' /\ ValuesScrubbed'
  BY <1>1, <1>2, SearchByte
<1>5. ASSUME NEW m \in 1 .. Len(PREFIX) - 1 PROVE Suffix(m)' <=> matched' = m
  <2>1. CASE m = 1
    BY <1>1, <2>1, SearchByte
  <2>2. CASE m \in 2 .. Len(PREFIX)
    <3>1. Suffix(m)' <=> (c = PREFIX[m] /\ matched = m - 1)
      BY <1>1, <2>2, SearchByte
    <3> QED
      BY <1>1, <1>2, <2>2, <3>1
  <2>3. m = 1 \/ m \in 2 .. Len(PREFIX)
    OBVIOUS
  <2> QED
    BY <2>1, <2>2, <2>3
<1>6. Follows'
  BY <1>3, <1>4, <1>5 DEF Follows
<1> QED
  BY <1>3, <1>4, <1>6

\* The last byte of the prefix opens a value.
LEMMA PrefixFoundStep ==
  ASSUME IInv, NEW c \in Bytes, PrefixFound(c)
  PROVE  (Modes /\ Follows /\ ValuesScrubbed)'
<1>1. /\ at = "search" /\ Continues(c) /\ matched + 1 = Len(PREFIX) /\ Take(c, c)
      /\ at' = "value" /\ partial' = FALSE /\ matched' = 0
  BY DEF PrefixFound
<1>2. Valuing' /\ Modes'
  BY <1>1 DEF Valuing, Modes
<1>3. Open(Len(stream))' /\ ValuesScrubbed'
  BY <1>1, SearchByte
<1>4. Follows'
  BY <1>2, <1>3 DEF Follows
<1> QED
  BY <1>2, <1>3, <1>4

\* A chunk that ends in a value leaves it open for the next.
LEMMA ChunkEndsStep == IInv /\ ChunkEnds => (Modes /\ Follows /\ ValuesScrubbed)'
<1> SUFFICES ASSUME IInv, ChunkEnds PROVE (Modes /\ Follows /\ ValuesScrubbed)'
  OBVIOUS
<1>1. /\ at' = "idle" /\ at # "idle" /\ partial' = (at = "value" \/ partial)
      /\ matched' = matched /\ stream' = stream /\ out' = out
  BY DEF ChunkEnds
<1>2. Valuing' <=> Valuing
  BY <1>1 DEF IInv, TypeOK, Modes, Valuing
<1>3. Modes'
  BY <1>1, <1>2 DEF IInv, Modes
<1>4. Follows'
  BY <1>1, <1>2, SameStream DEF IInv, Follows
<1>5. ValuesScrubbed'
  BY <1>1, SameStream DEF IInv
<1> QED
  BY <1>3, <1>4, <1>5

\* The invariant is inductive.
LEMMA IInvStep == IInv /\ [Next]_vars => IInv'
<1> SUFFICES ASSUME IInv, [Next]_vars PROVE IInv'
  OBVIOUS
<1>1. TypeOK'
  BY TypeStep DEF IInv
<1>2. CASE ScanByte
  <2>1. PICK c \in Bytes : Scan(c)
    BY <1>2 DEF ScanByte
  <2> QED
    BY <1>1, <2>1, ValueByteStep, ValueEndsStep, MatchStep, PrefixFoundStep, MismatchStep
    DEF Scan, IInv
<1>3. CASE UNCHANGED vars
  <2>1. Modes' /\ (Valuing' <=> Valuing) /\ matched' = matched
    BY <1>3 DEF vars, chunk, IInv, Modes, Valuing
  <2>2. stream' = stream /\ out' = out
    BY <1>3 DEF vars
  <2>3. ValuesScrubbed' /\ Follows'
    BY <2>1, <2>2, SameStream DEF IInv, Follows
  <2> QED
    BY <1>1, <2>1, <2>3 DEF IInv
<1> QED
  BY <1>1, <1>2, <1>3, NewChunkStep, ChunkEndsStep DEF IInv, Next

\* Nothing has been written: nothing is open.
LEMMA IInvInit == Init => IInv
<1> SUFFICES ASSUME Init PROVE IInv
  OBVIOUS
<1>1. TypeOK
  BY TypeInit
<1>2. Modes /\ ~Valuing
  BY DEF Init, Modes, Valuing
<1>3. Follows
  BY <1>2 DEF Init, Follows, Open, Suffix
<1>4. ValuesScrubbed
  BY DEF Init, ValuesScrubbed
<1> QED
  BY <1>1, <1>2, <1>3, <1>4 DEF IInv

(* Whatever the host writes and however its writes are cut into chunks,    *)
(* each byte of a password value goes to the card as zero and every other  *)
(* byte as it is: for any prefix whose first byte it does not repeat.      *)
THEOREM SnoopValuesScrubbed == Spec => []ValuesScrubbed
<1>1. IInv => ValuesScrubbed
  BY DEF IInv
<1> QED
  BY IInvInit, IInvStep, <1>1, PTL DEF Spec
=============================================================================
