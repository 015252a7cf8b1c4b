------------------------ MODULE ModbusRtuStream_proof -----------------------
(***************************************************************************)
(* Proofs about one reassembler, for every byte stream, every device       *)
(* address, both policies and every set of byte strings a checksum could   *)
(* accept: types, the bound of the buffer, and the lengths of messages.    *)
(***************************************************************************)
EXTENDS ModbusRtuStream, SequenceTheorems, TLAPS

USE DEF Byte, MAX_DATA_BYTES

-----------------------------------------------------------------------------
(* The length rules.                                                       *)

\* Prefix and Drop cut a byte string in two byte strings.
LEMMA Cutting ==
  ASSUME NEW b \in Seq(Byte), NEW n \in 0 .. Len(b)
  PROVE  /\ Prefix(b, n) \in Seq(Byte)
         /\ Len(Prefix(b, n)) = n
         /\ \A i \in 1 .. n : Prefix(b, n)[i] = b[i]
         /\ Drop(b, n) \in Seq(Byte)
         /\ Len(Drop(b, n)) = Len(b) - n
<1>1. /\ Len(b) \in Nat
      /\ \A i \in 1 .. Len(b) : b[i] \in Byte
  BY LenProperties, ElementOfSeq
<1>2. /\ Prefix(b, n) \in Seq(Byte)
      /\ Len(Prefix(b, n)) = n
      /\ \A i \in 1 .. n : Prefix(b, n)[i] = b[i]
  <2>1. \A i \in 1 .. n : b[i] \in Byte
    BY <1>1
  <2>2. /\ SubSeq(b, 1, n) \in Seq(Byte)
        /\ Len(SubSeq(b, 1, n)) = IF 1 <= n THEN n - 1 + 1 ELSE 0
        /\ \A i \in 1 .. n - 1 + 1 : SubSeq(b, 1, n)[i] = b[1 + i - 1]
    BY <2>1, <1>1, SubSeqProperties
  <2> QED
    BY <2>2, <1>1 DEF Prefix
<1>3. /\ Drop(b, n) \in Seq(Byte)
      /\ Len(Drop(b, n)) = Len(b) - n
  <2>1. \A i \in n + 1 .. Len(b) : b[i] \in Byte
    BY <1>1
  <2>2. /\ SubSeq(b, n + 1, Len(b)) \in Seq(Byte)
        /\ Len(SubSeq(b, n + 1, Len(b))) =
             IF n + 1 <= Len(b) THEN Len(b) - (n + 1) + 1 ELSE 0
    BY <2>1, <1>1, SubSeqProperties
  <2> QED
    BY <2>2, <1>1 DEF Drop
<1> QED
  BY <1>2, <1>3

\* What a candidate layout can be, by function code.
LEMMA CandidateCases ==
  ASSUME NEW b \in Seq(Byte), Len(b) >= 2, NEW c \in Candidates(b)
  PROVE  /\ c \in Candidate
         /\ c.len >= 5
         /\ b[2] \in Byte
         /\ \/ IsException(b[2]) /\ c = Fixed(5, "Response")
            \/ b[2] \in Reads /\ c = Fixed(8, "Request")
            \/ b[2] \in Reads /\ Len(b) >= 3 /\ c = Counted(5 + b[3], "Response")
            \/ b[2] \in WriteSingle /\ c = Fixed(8, "Request")
            \/ b[2] \in WriteMany /\ c = Fixed(8, "Response")
            \/ b[2] \in WriteMany /\ Len(b) >= 7 /\ c = Counted(9 + b[7], "Request")
<1>1. /\ Len(b) \in Nat
      /\ \A i \in 1 .. Len(b) : b[i] \in Byte
  BY LenProperties, ElementOfSeq
<1>2. b[2] \in Byte
  BY <1>1
<1> DEFINE f == b[2]
           Case == \/ IsException(f) /\ c = Fixed(5, "Response")
                   \/ f \in Reads /\ c = Fixed(8, "Request")
                   \/ f \in Reads /\ Len(b) >= 3 /\ c = Counted(5 + b[3], "Response")
                   \/ f \in WriteSingle /\ c = Fixed(8, "Request")
                   \/ f \in WriteMany /\ c = Fixed(8, "Response")
                   \/ f \in WriteMany /\ Len(b) >= 7 /\ c = Counted(9 + b[7], "Request")
<1>3. Case
  <2>1. CASE c \in FixedLayouts(b)
    BY <2>1, Zenon DEF FixedLayouts
  <2>2. CASE c \in CountedLayouts(b)
    BY <2>2, Zenon DEF CountedLayouts
  <2> QED
    BY <2>1, <2>2 DEF Candidates
<1>4. c \in Candidate /\ c.len >= 5
  <2>1. \A n \in Nat, d \in Direction :
          n >= 5 => /\ Fixed(n, d) \in Candidate /\ Fixed(n, d).len >= 5
                    /\ Counted(n, d) \in Candidate /\ Counted(n, d).len >= 5
    BY DEF Fixed, Counted, Candidate
  <2>2. "Request" \in Direction /\ "Response" \in Direction
    BY DEF Direction
  <2>3. /\ Len(b) >= 3 => 5 + b[3] \in Nat /\ 5 + b[3] >= 5
        /\ Len(b) >= 7 => 9 + b[7] \in Nat /\ 9 + b[7] >= 5
    <3>1. Len(b) >= 3 => b[3] \in 0 .. 255
      BY <1>1
    <3>2. Len(b) >= 7 => b[7] \in 0 .. 255
      BY <1>1
    <3>3. \A n \in 0 .. 255 : /\ 5 + n \in Nat /\ 5 + n >= 5
                             /\ 9 + n \in Nat /\ 9 + n >= 5
      OBVIOUS
    <3> QED
      BY <3>1, <3>2, <3>3
  <2> QED
    BY <1>3, <2>1, <2>2, <2>3
<1> QED
  BY <1>2, <1>3, <1>4

\* A layout that fits the head of the buffer is a layout of that head alone.
LEMMA PrefixLayout ==
  ASSUME NEW b \in Seq(Byte), Len(b) >= 2, NEW c \in Candidates(b), c.len <= Len(b)
  PROVE  c \in Candidates(Prefix(b, c.len))
<1> DEFINE r == Prefix(b, c.len)
<1>1. c.len \in Nat /\ c.len >= 5
  BY CandidateCases DEF Candidate
<1>2. r \in Seq(Byte) /\ Len(r) = c.len /\ \A i \in 1 .. c.len : r[i] = b[i]
  <2> DEFINE n == c.len
  <2>1. n \in 0 .. Len(b)
    BY <1>1, LenProperties
  <2> HIDE DEF n
  <2>2. /\ Prefix(b, n) \in Seq(Byte) /\ Len(Prefix(b, n)) = n
        /\ \A i \in 1 .. n : Prefix(b, n)[i] = b[i]
    BY <2>1, Cutting
  <2> QED
    BY <2>2, Zenon DEF n
<1> HIDE DEF r
<1>3. b[2] = r[2] /\ b[3] = r[3] /\ (c.len >= 7 => b[7] = r[7])
  <2> DEFINE n == c.len
  <2>1. n \in Nat /\ n >= 5 /\ \A i \in 1 .. n : r[i] = b[i]
    BY <1>1, <1>2
  <2> HIDE DEF n
  <2>2. 2 \in 1 .. n /\ 3 \in 1 .. n /\ (n >= 7 => 7 \in 1 .. n)
    BY <2>1
  <2>3. b[2] = r[2] /\ b[3] = r[3] /\ (n >= 7 => b[7] = r[7])
    BY <2>1, <2>2, Zenon
  <2> QED
    BY <2>3 DEF n
<1> USE DEF r
<1>4. CASE c \in FixedLayouts(b)
  <2>1. FixedLayouts(b) = FixedLayouts(r)
    BY <1>3, Zenon DEF FixedLayouts
  <2> QED
    BY <2>1, <1>4 DEF Candidates
<1>5. CASE c \in CountedLayouts(b)
  <2>1. CASE b[2] \in Reads /\ Len(b) >= 3
    <3>1. b[2] \notin WriteMany
      BY <2>1 DEF WriteMany, Reads
    <3>2. CountedLayouts(b) = {Counted(5 + b[3], "Response")}
      BY <2>1, <3>1, Zenon DEF CountedLayouts
    <3>3. r[2] \in Reads /\ r[2] \notin WriteMany /\ Len(r) >= 3
      BY <2>1, <3>1, <1>1, <1>2, <1>3
    <3>4. CountedLayouts(r) = {Counted(5 + r[3], "Response")}
      BY <3>3, Zenon DEF CountedLayouts
    <3> QED
      BY <1>3, <1>5, <3>2, <3>4 DEF Candidates
  <2>2. CASE b[2] \in WriteMany /\ Len(b) >= 7
    <3>1. b[2] \notin Reads
      BY <2>2 DEF WriteMany, Reads
    <3>2. CountedLayouts(b) = {Counted(9 + b[7], "Request")}
      BY <2>2, <3>1, Zenon DEF CountedLayouts
    <3>3. c.len = 9 + b[7] /\ b[7] \in Byte
      BY <1>5, <2>2, <3>2, ElementOfSeq, LenProperties DEF Counted
    <3>4. c.len >= 7
      <4>1. \A n \in Byte : 9 + n >= 7
        OBVIOUS
      <4> QED
        BY <3>3, <4>1, Zenon
    <3>5. r[2] \in WriteMany /\ r[2] \notin Reads /\ Len(r) >= 7 /\ b[7] = r[7]
      BY <2>2, <3>1, <3>4, <1>2, <1>3
    <3>6. CountedLayouts(r) = {Counted(9 + r[7], "Request")}
      BY <3>5, Zenon DEF CountedLayouts
    <3> QED
      BY <1>5, <3>2, <3>5, <3>6 DEF Candidates
  <2> QED
    BY <2>1, <2>2, <1>5, Zenon DEF CountedLayouts
<1> QED
  BY <1>4, <1>5 DEF Candidates

\* No plausible layout is longer than 255 bytes: the byte count of a read
\* response is at most MAX_DATA_BYTES, and that of a write must match a
\* quantity the bank can take.
LEMMA PlausibleIsShort ==
  ASSUME NEW b \in Seq(Byte), Len(b) >= 4, NEW c \in Candidates(b), Plausible(b, c)
  PROVE  c.len <= 5 + MAX_DATA_BYTES
<1>1. /\ Len(b) \in Nat
      /\ \A i \in 1 .. Len(b) : b[i] \in Byte
  BY LenProperties, ElementOfSeq
<1>2. b[2] \in Byte
  BY <1>1
<1>3. CASE \E d \in Direction : c = Fixed(5, d) \/ c = Fixed(8, d)
  BY <1>3 DEF Fixed
<1>4. CASE b[2] \in Reads /\ c = Counted(5 + b[3], "Response")
  <2>1. b[3] \in 1 .. MAX_DATA_BYTES
    BY <1>4 DEF Plausible, Counted
  <2>2. c.len = 5 + b[3]
    BY <1>4 DEF Counted
  <2>3. \A n \in 1 .. MAX_DATA_BYTES : 5 + n <= 5 + MAX_DATA_BYTES
    OBVIOUS
  <2> QED
    BY <2>1, <2>2, <2>3, Zenon
<1>5. CASE b[2] \in WriteMany /\ Len(b) >= 7 /\ c = Counted(9 + b[7], "Request")
  <2> DEFINE q == Be(b, 5)
             n == b[7]
  <2>1. q \in 1 .. MaxPerWrite(b[2]) /\ n = DataBytes(b[2], q)
    BY <1>5 DEF Plausible, Counted
  <2>2. c.len = 9 + n
    BY <1>5 DEF Counted
  <2> HIDE DEF q, n
  <2>3. CASE IsRegisterBank(b[2])
    <3>1. q \in 1 .. 123 /\ n = 2 * q
      BY <2>1, <2>3 DEF MaxPerWrite, DataBytes
    <3> QED
      BY <3>1, <2>2
  <2>4. CASE ~IsRegisterBank(b[2])
    <3>1. q \in 1 .. 1968 /\ n = (q + 7) \div 8
      BY <2>1, <2>4 DEF MaxPerWrite, DataBytes
    <3> QED
      BY <3>1, <2>2
  <2> QED
    BY <2>3, <2>4
<1> QED
  BY <1>3, <1>4, <1>5, CandidateCases DEF Direction

-----------------------------------------------------------------------------
(* Stretches of a byte string.                                             *)
HIDE DEF Byte, MAX_DATA_BYTES

\* The bytes after position p up to position f, and what is left of them when
\* they are cut.
LEMMA Stretches ==
  ASSUME NEW s \in Seq(Byte), NEW p \in Nat, NEW f \in Nat, p <= f, f <= Len(s)
  PROVE  /\ SubSeq(s, p + 1, f) \in Seq(Byte)
         /\ Len(SubSeq(s, p + 1, f)) = f - p
         /\ \A i \in 1 .. f - p : SubSeq(s, p + 1, f)[i] = s[p + i]
<1>1. Len(s) \in Nat /\ \A i \in 1 .. Len(s) : s[i] \in Byte
  BY LenProperties, ElementOfSeq
<1>2. p + 1 \in Int /\ f \in Int
  OBVIOUS
<1>3. \A i \in p + 1 .. f : s[i] \in Byte
  BY <1>1
<1>4. /\ SubSeq(s, p + 1, f) \in Seq(Byte)
      /\ Len(SubSeq(s, p + 1, f)) = IF p + 1 <= f THEN f - (p + 1) + 1 ELSE 0
      /\ \A i \in 1 .. f - (p + 1) + 1 : SubSeq(s, p + 1, f)[i] = s[p + 1 + i - 1]
  BY <1>3, SubSeqProperties
<1> QED
  BY <1>1, <1>4

LEMMA CutStretch ==
  ASSUME NEW s \in Seq(Byte), NEW p \in Nat, NEW f \in Nat, p <= f, f <= Len(s),
         NEW k \in 0 .. f - p
  PROVE  /\ Drop(SubSeq(s, p + 1, f), k) = SubSeq(s, p + k + 1, f)
         /\ Prefix(SubSeq(s, p + 1, f), k) = SubSeq(s, p + 1, p + k)
<1> DEFINE b == SubSeq(s, p + 1, f)
<1>1. b \in Seq(Byte) /\ Len(b) = f - p /\ \A i \in 1 .. f - p : b[i] = s[p + i]
  BY Stretches
<1> HIDE DEF b
<1>2. k \in 0 .. Len(b) /\ p + k \in Nat /\ p + k <= f /\ p <= p + k /\ p + k <= Len(s)
  BY <1>1, LenProperties
<1>3. Drop(b, k) = SubSeq(s, p + k + 1, f)
  <2> DEFINE d == SubSeq(s, p + k + 1, f)
             e == SubSeq(b, k + 1, Len(b))
  <2>1. d \in Seq(Byte) /\ Len(d) = f - (p + k)
        /\ \A i \in 1 .. f - (p + k) : d[i] = s[p + k + i]
    BY <1>2, Stretches
  <2>2. e \in Seq(Byte) /\ Len(e) = Len(b) - k
        /\ \A i \in 1 .. Len(b) - k : e[i] = b[k + i]
    BY <1>1, <1>2, Stretches
  <2>3. e = Drop(b, k)
    BY DEF Drop
  <2> HIDE DEF d, e
  <2>4. Len(d) = Len(e) /\ \A i \in 1 .. Len(d) : d[i] = e[i]
    BY <1>1, <1>2, <2>1, <2>2
  <2>5. d = e
    BY <2>1, <2>2, <2>4, SeqEqual
  <2> QED
    BY <2>3, <2>5 DEF d
<1>4. Prefix(b, k) = SubSeq(s, p + 1, p + k)
  <2> DEFINE q == p + k
             d == SubSeq(s, p + 1, q)
  <2>3. /\ q \in Nat /\ p <= q /\ q <= Len(s)
        /\ q - p = k /\ \A i \in 1 .. k : i \in 1 .. f - p
    BY <1>2
  <2> HIDE DEF q
  <2>1. d \in Seq(Byte) /\ Len(d) = q - p
        /\ \A i \in 1 .. q - p : d[i] = s[p + i]
    BY <2>3, Stretches
  <2>2. Prefix(b, k) \in Seq(Byte) /\ Len(Prefix(b, k)) = k
        /\ \A i \in 1 .. k : Prefix(b, k)[i] = b[i]
    BY <1>1, <1>2, Cutting
  <2> HIDE DEF d
  <2>4. Len(d) = Len(Prefix(b, k)) /\ \A i \in 1 .. Len(d) : d[i] = Prefix(b, k)[i]
    BY <1>1, <2>1, <2>2, <2>3, Zenon
  <2>5. d = Prefix(b, k)
    BY <2>1, <2>2, <2>4, SeqEqual
  <2> QED
    BY <2>5 DEF d, q
<1> QED
  BY <1>3, <1>4 DEF b

-----------------------------------------------------------------------------
(* A message of which only the first bytes have arrived.                   *)

\* More bytes offer more layouts, never fewer.
LEMMA LayoutsGrow ==
  ASSUME NEW b \in Seq(Byte), NEW n \in 2 .. Len(b), NEW c \in Candidates(Prefix(b, n))
  PROVE  c \in Candidates(b)
<1> DEFINE r == Prefix(b, n)
<1>1. Len(b) \in Nat /\ n \in Nat /\ n >= 2 /\ n <= Len(b) /\ n \in 0 .. Len(b)
  BY LenProperties
<1>2. r \in Seq(Byte) /\ Len(r) = n /\ \A i \in 1 .. n : r[i] = b[i]
  BY <1>1, Cutting, Zenon
<1>3. /\ r[2] = b[2]
      /\ Len(r) >= 3 => Len(b) >= 3 /\ r[3] = b[3]
      /\ Len(r) >= 7 => Len(b) >= 7 /\ r[7] = b[7]
  BY <1>1, <1>2
<1> HIDE DEF r
<1>4. c \in Candidates(r)
  BY DEF r
<1>5. CASE c \in FixedLayouts(r)
  <2>1. FixedLayouts(b) = FixedLayouts(r)
    BY <1>3, Zenon DEF FixedLayouts
  <2> QED
    BY <2>1, <1>5 DEF Candidates
<1>6. CASE c \in CountedLayouts(r)
  <2>1. CASE r[2] \in Reads /\ Len(r) >= 3
    <3>1. r[2] \notin WriteMany
      BY <2>1 DEF WriteMany, Reads
    <3>2. CountedLayouts(r) = {Counted(5 + r[3], "Response")}
      BY <2>1, <3>1, Zenon DEF CountedLayouts
    <3>3. b[2] \in Reads /\ b[2] \notin WriteMany /\ Len(b) >= 3
      BY <2>1, <3>1, <1>3
    <3>4. CountedLayouts(b) = {Counted(5 + b[3], "Response")}
      BY <3>3, Zenon DEF CountedLayouts
    <3> QED
      BY <1>3, <1>6, <2>1, <3>2, <3>4 DEF Candidates
  <2>2. CASE r[2] \in WriteMany /\ Len(r) >= 7
    <3>1. r[2] \notin Reads
      BY <2>2 DEF WriteMany, Reads
    <3>2. CountedLayouts(r) = {Counted(9 + r[7], "Request")}
      BY <2>2, <3>1, Zenon DEF CountedLayouts
    <3>3. b[2] \in WriteMany /\ b[2] \notin Reads /\ Len(b) >= 7
      BY <2>2, <3>1, <1>3
    <3>4. CountedLayouts(b) = {Counted(9 + b[7], "Request")}
      BY <3>3, Zenon DEF CountedLayouts
    <3> QED
      BY <1>3, <1>6, <2>2, <3>2, <3>4 DEF Candidates
  <2> QED
    BY <2>1, <2>2, <1>6, Zenon DEF CountedLayouts
<1> QED
  BY <1>4, <1>5, <1>6 DEF Candidates

\* A header that is consistent to its last byte is so while it is arriving.
LEMMA PlausibleEarlier ==
  ASSUME NEW b \in Seq(Byte), NEW n \in 4 .. Len(b), NEW c \in Candidates(Prefix(b, n)),
         Plausible(b, c)
  PROVE  Plausible(Prefix(b, n), c)
<1> DEFINE r == Prefix(b, n)
           f == b[2]
<1>1. Len(b) \in Nat /\ n \in Nat /\ n >= 4 /\ n <= Len(b) /\ n \in 0 .. Len(b)
  BY LenProperties
<1>2. r \in Seq(Byte) /\ Len(r) = n /\ \A i \in 1 .. n : r[i] = b[i]
  BY <1>1, Cutting, Zenon
<1>3. /\ r[2] = b[2] /\ r[3] = b[3] /\ Len(b) >= 3
      /\ Len(r) >= 6 => Len(b) >= 6 /\ Be(r, 5) = Be(b, 5)
      /\ Len(r) >= 7 => Len(b) >= 7 /\ r[7] = b[7]
  BY <1>1, <1>2 DEF Be
<1>4. f \in WriteMany /\ c.counted => Len(r) >= 7
  <2>1. /\ f \in WriteMany => f \notin Reads /\ f \notin WriteSingle /\ ~IsException(f)
    BY DEF WriteMany, Reads, WriteSingle, IsException
  <2>2. Len(r) >= 2
    BY <1>1, <1>2
  <2>3. \/ IsException(r[2]) /\ c = Fixed(5, "Response")
        \/ r[2] \in Reads /\ c = Fixed(8, "Request")
        \/ r[2] \in Reads /\ Len(r) >= 3 /\ c = Counted(5 + r[3], "Response")
        \/ r[2] \in WriteSingle /\ c = Fixed(8, "Request")
        \/ r[2] \in WriteMany /\ c = Fixed(8, "Response")
        \/ r[2] \in WriteMany /\ Len(r) >= 7 /\ c = Counted(9 + r[7], "Request")
    BY <1>2, <2>2, CandidateCases, Zenon
  <2> QED
    BY <1>3, <2>1, <2>3 DEF Fixed
<1> HIDE DEF r
<1>5. Plausible(r, c)
  <2>0. Len(r) >= 6 \/ ~(Len(r) >= 6)
    OBVIOUS
  <2>1. IsException(f) /\ Len(r) >= 3 => r[3] \in 1 .. 11
    BY <1>3, Zenon DEF Plausible
  <2>2. f \in Reads /\ ~c.counted /\ Len(r) >= 6 => Be(r, 5) \in 1 .. MaxPerRead(f)
    BY <1>3, Zenon DEF Plausible
  <2>3. f \in Reads /\ c.counted =>
          r[3] \in 1 .. MAX_DATA_BYTES /\ (IsRegisterBank(f) => r[3] % 2 = 0)
    BY <1>3, Zenon DEF Plausible
  <2>4. f \in WriteMany /\ c.counted =>
          /\ Be(r, 5) \in 1 .. MaxPerWrite(f)
          /\ r[7] = DataBytes(f, Be(r, 5))
    <3> SUFFICES ASSUME f \in WriteMany, c.counted
                 PROVE  /\ Be(r, 5) \in 1 .. MaxPerWrite(f)
                        /\ r[7] = DataBytes(f, Be(r, 5))
      OBVIOUS
    <3>1. Len(r) >= 7 /\ Len(r) >= 6
      BY <1>4, <1>1, <1>2 DEF r
    <3>2. Be(b, 5) \in 1 .. MaxPerWrite(f) /\ b[7] = DataBytes(f, Be(b, 5))
      BY Zenon DEF Plausible
    <3> QED
      BY <1>3, <3>1, <3>2
  <2> QED
    BY <1>3, <2>1, <2>2, <2>3, <2>4, Zenon DEF Plausible
<1> QED
  BY <1>5 DEF r

\* Of the layouts of a header, one comes first, and is no shorter than any.
LEMMA FirstExists ==
  ASSUME NEW b \in Seq(Byte), Len(b) >= 2, NEW S \in SUBSET Candidates(b), NEW d \in S
  PROVE  \E c \in S : IsFirst(c, S) /\ c.len >= d.len
<1>1. \A c \in S : c \in Candidates(b) /\ c.len \in Nat
  BY CandidateCases DEF Candidate
<1>2. /\ \A c, e \in FixedLayouts(b) : c = e
      /\ \A c \in FixedLayouts(b) : ~c.counted
  <2>1. FixedLayouts(b) \in {{Fixed(5, "Response")}, {Fixed(8, "Request")},
                             {Fixed(8, "Response")}, {}}
    BY Zenon DEF FixedLayouts
  <2>2. \A n, dir : ~Fixed(n, dir).counted
    BY DEF Fixed
  <2> QED
    BY <2>1, <2>2, Zenon
<1>3. /\ \A c, e \in CountedLayouts(b) : c = e
      /\ \A c \in CountedLayouts(b) : c.counted
  <2>1. CountedLayouts(b) \in {{Counted(5 + b[3], "Response")},
                               {Counted(9 + b[7], "Request")}, {}}
    BY Zenon DEF CountedLayouts
  <2>2. \A n, dir : Counted(n, dir).counted
    BY DEF Counted
  <2> QED
    BY <2>1, <2>2, Zenon
<1>4. CASE \A e \in S : e = d
  <2>1. IsFirst(d, S) /\ d.len >= d.len
    BY <1>1, <1>4 DEF IsFirst
  <2> QED
    BY <2>1
<1>5. ASSUME NEW e \in S, e # d
      PROVE  \E c \in S : IsFirst(c, S) /\ c.len >= d.len
  <2>1. PICK x \in S, y \in S : /\ ~x.counted /\ y.counted
                               /\ {x, y} = {d, e}
    BY <1>1, <1>2, <1>3, <1>5 DEF Candidates
  <2>2. \A z \in S : z = x \/ z = y
    BY <1>1, <1>2, <1>3, <2>1 DEF Candidates
  <2>3. d = x \/ d = y
    BY <2>1
  <2>4. CASE y.len > x.len
    <3>1. IsFirst(y, S)
      BY <2>1, <2>2, <2>4 DEF IsFirst
    <3>2. y.len >= d.len
      BY <1>1, <2>3, <2>4
    <3> QED
      BY <3>1, <3>2
  <2>5. CASE ~(y.len > x.len)
    <3>1. x.len > y.len \/ x.len = y.len
      BY <1>1, <2>5
    <3>2. IsFirst(x, S)
      BY <2>1, <2>2, <3>1 DEF IsFirst
    <3>3. x.len >= d.len
      BY <1>1, <2>3, <2>5
    <3> QED
      BY <3>2, <3>3
  <2> QED
    BY <2>4, <2>5
<1> QED
  BY <1>4, <1>5

\* Mid-stream, the first bytes of a message are waited on.
LEMMA MessageAwaited ==
  ASSUME call = "push", NEW raw \in Seq(Byte), NEW n \in 4 .. Len(raw), n < Len(raw),
         NEW c \in Candidates(raw), Plausible(raw, c), c.len = Len(raw)
  PROVE  Awaited(Prefix(raw, n))
<1> DEFINE b == Prefix(raw, n)
           S == {d \in Candidates(b) : Plausible(b, d)}
<1>1. Len(raw) \in Nat /\ n \in Nat /\ n >= 4 /\ n <= Len(raw) /\ n \in 0 .. Len(raw)
  BY LenProperties
<1>2. b \in Seq(Byte) /\ Len(b) = n /\ \A i \in 1 .. n : b[i] = raw[i]
  BY <1>1, Cutting, Zenon
<1>3. Len(b) >= 2 /\ Len(raw) >= 2 /\ b[2] = raw[2] /\ b[3] = raw[3] /\ Len(b) >= 3
  BY <1>1, <1>2
<1>4. \E d \in Candidates(b) : Plausible(b, d) /\ d.len > Len(b)
  <2>1. CASE c \in Candidates(b)
    <3>1. Plausible(b, c)
      BY <2>1, PlausibleEarlier, Zenon
    <3> QED
      BY <2>1, <3>1, <1>1, <1>2
  <2>2. CASE c \notin Candidates(b)
    <3>1. c \notin FixedLayouts(raw)
      <4>1. FixedLayouts(b) = FixedLayouts(raw)
        BY <1>3, Zenon DEF FixedLayouts
      <4> QED
        BY <2>2, <4>1 DEF Candidates
    <3>2. c \in CountedLayouts(raw) /\ c \notin CountedLayouts(b)
      BY <2>2, <3>1 DEF Candidates
    <3>3. raw[2] \in Reads \/ raw[2] \in WriteMany
      BY <3>2, Zenon DEF CountedLayouts
    <3>4. raw[2] \notin Reads
      <4> SUFFICES ASSUME raw[2] \in Reads PROVE FALSE
        OBVIOUS
      <4>1. Len(raw) >= 3 /\ raw[2] \notin WriteMany
        BY <1>1 DEF Reads, WriteMany
      <4>2. CountedLayouts(raw) = {Counted(5 + raw[3], "Response")}
        BY <4>1, Zenon DEF CountedLayouts
      <4>3. CountedLayouts(b) = {Counted(5 + b[3], "Response")}
        BY <1>3, <4>1, Zenon DEF CountedLayouts
      <4> QED
        BY <3>2, <4>2, <4>3, <1>3
    <3>5. raw[2] \in WriteMany
      BY <3>3, <3>4
    <3>6. ~(n >= 7)
      <4> SUFFICES ASSUME n >= 7 PROVE FALSE
        OBVIOUS
      <4>1. Len(raw) >= 7 /\ Len(b) >= 7 /\ b[7] = raw[7]
        BY <1>1, <1>2
      <4>2. CountedLayouts(raw) = {Counted(9 + raw[7], "Request")}
        BY <3>4, <3>5, <4>1, Zenon DEF CountedLayouts
      <4>3. CountedLayouts(b) = {Counted(9 + b[7], "Request")}
        BY <1>3, <3>4, <3>5, <4>1, Zenon DEF CountedLayouts
      <4> QED
        BY <3>2, <4>1, <4>2, <4>3
    <3> DEFINE d == Fixed(8, "Response")
    <3>7. d \in Candidates(b)
      <4>1. ~IsException(b[2]) /\ b[2] \notin WriteSingle /\ b[2] \notin Reads
        BY <3>5, <1>3 DEF WriteMany, WriteSingle, Reads, IsException
      <4>2. FixedLayouts(b) = {d}
        BY <4>1, <3>5, <1>3, Zenon DEF FixedLayouts
      <4> QED
        BY <4>2 DEF Candidates
    <3>8. Plausible(b, d)
      <4>1. ~IsException(b[2]) /\ b[2] \notin Reads /\ ~d.counted
        BY <3>5, <1>3 DEF WriteMany, Reads, IsException, Fixed
      <4> QED
        BY <4>1, Zenon DEF Plausible
    <3>9. d.len > Len(b)
      BY <1>1, <1>2, <3>6 DEF Fixed
    <3> QED
      BY <3>7, <3>8, <3>9
  <2> QED
    BY <2>1, <2>2
<1>5. PICK d \in S : d.len > Len(b)
  BY <1>4
<1>6. PICK e \in S : IsFirst(e, S) /\ e.len >= d.len
  <2>1. S \in SUBSET Candidates(b)
    OBVIOUS
  <2> QED
    BY <1>2, <1>3, <2>1, FirstExists
<1>7. e.len > Len(b)
  <2>1. e.len \in Nat /\ d.len \in Nat
    BY <1>2, <1>3, CandidateCases DEF Candidate
  <2> QED
    BY <1>1, <1>2, <1>5, <1>6, <2>1
<1> QED
  BY <1>6, <1>7 DEF Awaited

-----------------------------------------------------------------------------
(* Messages.                                                               *)
USE DEF Byte, MAX_DATA_BYTES

LEMMA BeIsWord ==
  ASSUME NEW b \in Seq(Byte), NEW i \in Nat \ {0}, i + 1 <= Len(b)
  PROVE  Be(b, i) \in Word
<1>1. i \in 1 .. Len(b) /\ i + 1 \in 1 .. Len(b)
  BY LenProperties
<1>2. b[i] \in Byte /\ b[i + 1] \in Byte
  BY <1>1, ElementOfSeq, Zenon
<1>3. \A h, l \in Byte : 256 * h + l \in Word
  BY SMT DEF Word
<1> QED
  BY <1>2, <1>3, Zenon DEF Be

LEMMA RegistersAreWords ==
  ASSUME NEW b \in Seq(Byte), NEW i \in Nat \ {0}, NEW n \in Nat,
         i + n <= Len(b) + 1
  PROVE  Registers(b, i, n) \in Seq(Word)
<1> DEFINE h == n \div 2
<1>1. h \in Nat /\ 2 * h <= n
  OBVIOUS
<1>2. Len(b) \in Nat
  BY LenProperties
<1> HIDE DEF h
<1>3. ASSUME NEW k \in 1 .. h
      PROVE  Be(b, i + 2 * (k - 1)) \in Word
  <2> DEFINE j == i + 2 * (k - 1)
  <2>1. j \in Nat \ {0} /\ j + 1 <= Len(b)
    BY <1>1, <1>2
  <2> HIDE DEF j
  <2>2. Be(b, j) \in Word
    BY <2>1, BeIsWord, Zenon
  <2> QED
    BY <2>2 DEF j
<1>4. Registers(b, i, n) = [k \in 1 .. h |-> Be(b, i + 2 * (k - 1))]
  BY DEF Registers, h
<1>5. [k \in 1 .. h |-> Be(b, i + 2 * (k - 1))] \in [1 .. h -> Word]
  BY <1>3
<1>6. h \in Nat
  BY <1>1
<1>7. Seq(Word) = UNION {[1 .. m -> Word] : m \in Nat}
  BY SeqDef, Zenon
<1> QED
  <2>1. Registers(b, i, n) \in [1 .. h -> Word]
    BY <1>4, <1>5, Zenon
  <2> QED
    BY <2>1, <1>6, <1>7, SMT

\* The data block lies inside a message whose length is that of its layout.
LEMMA DataBlockTyped ==
  ASSUME NEW raw \in Seq(Byte), Len(raw) >= 4, NEW c \in Candidates(raw),
         c.len = Len(raw)
  PROVE  DataBlock(raw, c.direction) \in Seq(Word)
<1> DEFINE f == raw[2]
           d == c.direction
<1>1. Len(raw) \in Nat /\ Len(raw) >= 2 /\ Len(raw) >= 5 /\ raw[3] \in Byte
  <2>1. Len(raw) \in Nat /\ Len(raw) >= 2
    BY LenProperties
  <2>2. Len(raw) >= 5
    BY <2>1, CandidateCases
  <2>3. 3 \in 1 .. Len(raw)
    BY <2>1, <2>2
  <2> QED
    BY <2>1, <2>2, <2>3, ElementOfSeq, Zenon
<1>2. f \in Reads /\ d = "Response" => Registers(raw, 4, raw[3]) \in Seq(Word)
  <2> SUFFICES ASSUME f \in Reads, d = "Response"
               PROVE  Registers(raw, 4, raw[3]) \in Seq(Word)
    OBVIOUS
  <2>1. f \notin WriteSingle /\ f \notin WriteMany /\ ~IsException(f)
    BY DEF Reads, WriteSingle, WriteMany, IsException
  <2>2. c.len = 5 + raw[3]
    <3>1. c = Fixed(8, "Request") \/ c = Counted(5 + raw[3], "Response")
      BY <1>1, <2>1, CandidateCases, Zenon
    <3> QED
      BY <3>1 DEF Fixed, Counted
  <2>3. \A n \in Byte : 4 + n <= (5 + n) + 1 /\ n \in Nat
    OBVIOUS
  <2>4. 4 \in Nat \ {0}
    OBVIOUS
  <2> QED
    BY <1>1, <2>2, <2>3, <2>4, RegistersAreWords
<1>3. f \in WriteMany /\ d = "Request" => Registers(raw, 8, raw[7]) \in Seq(Word)
  <2> SUFFICES ASSUME f \in WriteMany, d = "Request"
               PROVE  Registers(raw, 8, raw[7]) \in Seq(Word)
    OBVIOUS
  <2>1. f \notin WriteSingle /\ f \notin Reads /\ ~IsException(f)
    BY DEF Reads, WriteSingle, WriteMany, IsException
  <2>2. c.len = 9 + raw[7] /\ Len(raw) >= 7
    <3>1. \/ c = Fixed(8, "Response")
          \/ c = Counted(9 + raw[7], "Request") /\ Len(raw) >= 7
      BY <1>1, <2>1, CandidateCases, Zenon
    <3> QED
      BY <3>1 DEF Fixed, Counted
  <2>3. raw[7] \in Byte
    <3>1. 7 \in 1 .. Len(raw)
      BY <1>1, <2>2
    <3> QED
      BY <3>1, ElementOfSeq, Zenon
  <2>4. \A n \in Byte : 8 + n <= (9 + n) + 1 /\ n \in Nat
    OBVIOUS
  <2>5. 8 \in Nat \ {0}
    OBVIOUS
  <2> QED
    BY <2>2, <2>3, <2>4, <2>5, RegistersAreWords
<1>4. f \in WriteSingle => <<Be(raw, 5)>> \in Seq(Word)
  <2> SUFFICES ASSUME f \in WriteSingle
               PROVE  <<Be(raw, 5)>> \in Seq(Word)
    OBVIOUS
  <2>1. f \notin WriteMany /\ f \notin Reads /\ ~IsException(f)
    BY DEF Reads, WriteSingle, WriteMany, IsException
  <2>2. Len(raw) = 8
    <3>1. c = Fixed(8, "Request")
      BY <1>1, <2>1, CandidateCases, Zenon
    <3> QED
      BY <3>1 DEF Fixed
  <2>3. Be(raw, 5) \in Word
    <3>1. 5 \in Nat \ {0} /\ 5 + 1 <= Len(raw)
      BY <2>2
    <3> QED
      BY <3>1, BeIsWord, Zenon
  <2> QED
    BY <2>3
<1>5. <<>> \in Seq(Word)
  BY EmptySeq
<1> QED
  BY <1>2, <1>3, <1>4, <1>5, Zenon DEF DataBlock

\* What build makes of a message whose length is that of its layout.
LEMMA BuildTyped ==
  ASSUME TypeOK, NEW raw \in Seq(Byte), Len(raw) >= 4, NEW c \in Candidates(raw),
         c.len = Len(raw), NEW v \in BOOLEAN
  PROVE  LET m == Build(raw, c.direction, v) IN
         /\ m \in Message
         /\ Len(m.raw) = Declared(m.raw, m.direction)
         /\ Outstanding(m) \in OutstandingRequest \cup {None}
         /\ m.direction = "Request" => Outstanding(m) \in OutstandingRequest
<1> DEFINE f == raw[2]
           d == c.direction
           m == Build(raw, d, v)
<1>1. Len(raw) \in Nat /\ Len(raw) >= 2 /\ Len(raw) >= 5
  <2>1. Len(raw) \in Nat /\ Len(raw) >= 2
    BY LenProperties
  <2>2. c.len >= 5
    BY <2>1, CandidateCases, Zenon
  <2> QED
    BY <2>1, <2>2
<1>2. raw[1] \in Byte /\ f \in Byte /\ raw[3] \in Byte
  <2>1. 1 \in 1 .. Len(raw) /\ 2 \in 1 .. Len(raw) /\ 3 \in 1 .. Len(raw)
    BY <1>1
  <2>2. \A i \in 1 .. Len(raw) : raw[i] \in Byte
    BY ElementOfSeq
  <2> QED
    BY <2>1, <2>2
<1>3. \/ IsException(f) /\ c = Fixed(5, "Response")
      \/ f \in Reads /\ c = Fixed(8, "Request")
      \/ f \in Reads /\ c = Counted(5 + raw[3], "Response")
      \/ f \in WriteSingle /\ c = Fixed(8, "Request")
      \/ f \in WriteMany /\ c = Fixed(8, "Response")
      \/ f \in WriteMany /\ Len(raw) >= 7 /\ c = Counted(9 + raw[7], "Request")
  BY <1>1, CandidateCases, Zenon
<1>4. /\ f \in Reads => f \notin WriteSingle /\ f \notin WriteMany /\ ~IsException(f)
      /\ f \in WriteSingle => f \notin WriteMany /\ ~IsException(f)
      /\ f \in WriteMany => ~IsException(f)
  BY DEF Reads, WriteSingle, WriteMany, IsException
<1>5. /\ d \in Direction
      /\ Resolved(f, d) \in Direction
      /\ f \notin WriteSingle => Resolved(f, d) = d
  BY <1>1, CandidateCases DEF Candidate, Resolved, Direction
<1>6. /\ m.direction = Resolved(f, d)
      /\ m.address = raw[1]
      /\ m.function = f
      /\ m.registers = DataBlock(raw, d)
      /\ m.raw = raw
      /\ m.crc_valid = v
      /\ m = [direction |-> m.direction, address |-> m.address,
              function |-> m.function, start |-> m.start, quantity |-> m.quantity,
              registers |-> m.registers, exception |-> m.exception, raw |-> m.raw,
              crc_valid |-> m.crc_valid, frame_count |-> m.frame_count]
  BY DEF Build
<1>7. CarriesAddress(f, d) => Be(raw, 3) \in Word /\ Be(raw, 5) \in Word
  <2>1. ASSUME CarriesAddress(f, d) PROVE c.len >= 8
    <3>1. \/ c = Fixed(8, "Request") \/ c = Fixed(8, "Response")
          \/ Len(raw) >= 7 /\ c = Counted(9 + raw[7], "Request")
      BY <1>3, <1>4, <2>1 DEF CarriesAddress, Counted
    <3>2. ASSUME Len(raw) >= 7, c = Counted(9 + raw[7], "Request") PROVE c.len >= 8
      <4>1. 7 \in 1 .. Len(raw)
        BY <1>1, <3>2
      <4>2. raw[7] \in Byte
        BY <4>1, ElementOfSeq, Zenon
      <4>3. \A n \in Byte : 9 + n >= 8
        OBVIOUS
      <4> QED
        BY <3>2, <4>2, <4>3 DEF Counted
    <3> QED
      BY <3>1, <3>2 DEF Fixed
  <2>2. ASSUME c.len >= 8 PROVE /\ 3 \in Nat \ {0} /\ 3 + 1 <= Len(raw)
                                /\ 5 \in Nat \ {0} /\ 5 + 1 <= Len(raw)
    BY <1>1, <2>2
  <2> QED
    BY <2>1, <2>2, BeIsWord, Zenon
<1>8. lastReq # None => lastReq.start \in Word /\ lastReq.quantity \in Word
  BY DEF TypeOK, OutstandingRequest
<1>9. /\ m.start \in Word \cup {None} /\ m.quantity \in Word \cup {None}
      /\ CarriesAddress(f, d) => m.start \in Word /\ m.quantity \in Word
  <2>1. 1 \in Word
    BY DEF Word
  <2> DEFINE own == CarriesAddress(f, d)
             answers == Resolved(f, d) = "Response" /\ ~own /\ lastReq # None
  <2>2. /\ m.start = IF own THEN Be(raw, 3)
                     ELSE IF answers THEN lastReq.start ELSE None
        /\ m.quantity = IF own THEN IF f \in WriteSingle THEN 1 ELSE Be(raw, 5)
                        ELSE IF answers THEN lastReq.quantity ELSE None
    BY DEF Build
  <2> HIDE DEF m, own
  <2>3. CASE own
    <3>1. Be(raw, 3) \in Word /\ Be(raw, 5) \in Word
      BY <1>7, <2>3 DEF own
    <3> QED
      BY <2>1, <2>2, <2>3, <3>1 DEF own
  <2>4. CASE ~own /\ answers
    BY <1>8, <2>2, <2>4 DEF own
  <2>5. CASE ~own /\ ~answers
    BY <2>2, <2>5 DEF own
  <2> QED
    BY <2>3, <2>4, <2>5
<1>10. m.exception \in Byte \cup {None}
  <2>1. m.exception \in {raw[3], None}
    BY DEF Build
  <2> QED
    BY <2>1, <1>2
<1>11. m.frame_count \in Nat \ {0}
  BY DEF Build, FramesReported, TypeOK
<1>12. m.registers \in Seq(Word)
  BY <1>6, DataBlockTyped, Zenon
<1> HIDE DEF m
<1>13. m \in Message
  BY <1>2, <1>5, <1>6, <1>9, <1>10, <1>11, <1>12 DEF Message
<1>14. Len(m.raw) = Declared(m.raw, m.direction)
  <2>1. m.raw = raw /\ Len(raw) = c.len /\ (f \notin WriteSingle => m.direction = d)
    BY <1>5, <1>6
  <2>2. CASE IsException(f) /\ c = Fixed(5, "Response")
    BY <1>4, <2>1, <2>2 DEF Declared, Fixed
  <2>3. CASE f \in Reads /\ c = Fixed(8, "Request")
    BY <1>4, <2>1, <2>3 DEF Declared, Fixed
  <2>4. CASE f \in Reads /\ c = Counted(5 + raw[3], "Response")
    BY <1>4, <2>1, <2>4 DEF Declared, Counted
  <2>5. CASE f \in WriteSingle /\ c = Fixed(8, "Request")
    BY <1>4, <2>1, <2>5 DEF Declared, Fixed
  <2>6. CASE f \in WriteMany /\ c = Fixed(8, "Response")
    BY <1>4, <2>1, <2>6 DEF Declared, Fixed
  <2>7. CASE f \in WriteMany /\ c = Counted(9 + raw[7], "Request")
    BY <1>4, <2>1, <2>7 DEF Declared, Counted
  <2> QED
    BY <1>3, <2>2, <2>3, <2>4, <2>5, <2>6, <2>7
<1>15. m.direction = "Request" => Outstanding(m) \in OutstandingRequest
  <2>1. m.direction = "Request" => CarriesAddress(f, d)
    BY <1>3, <1>4, <1>5, <1>6 DEF CarriesAddress, Fixed, Counted
  <2> QED
    BY <2>1, <1>2, <1>6, <1>9 DEF Outstanding, OutstandingRequest
<1>16. Outstanding(m) \in OutstandingRequest \cup {None}
  <2>1. CASE m.direction = "Request"
    BY <2>1, <1>15
  <2>2. CASE m.direction # "Request"
    BY <2>2 DEF Outstanding, TypeOK
  <2> QED
    BY <2>1, <2>2
<1> QED
  BY <1>13, <1>14, <1>15, <1>16 DEF m

\* Handing back a message whose length is that of its layout.
LEMMA EmitTyped ==
  ASSUME TypeOK, LengthDeclared,
         NEW raw \in Seq(Byte), Len(raw) >= 4, NEW c \in Candidates(raw),
         c.len = Len(raw), NEW v \in BOOLEAN, Emit(Build(raw, c.direction, v))
  PROVE  /\ out' \in Seq(Message)
         /\ lastReq' \in OutstandingRequest \cup {None}
         /\ LengthDeclared'
<1> DEFINE m == Build(raw, c.direction, v)
<1>1. /\ m \in Message
      /\ Len(m.raw) = Declared(m.raw, m.direction)
      /\ Outstanding(m) \in OutstandingRequest \cup {None}
  BY BuildTyped, Zenon
<1>2. out' = Append(out, m) /\ lastReq' = Outstanding(m)
  BY DEF Emit
<1> HIDE DEF m
<1>3. out \in Seq(Message)
  BY DEF TypeOK
<1>4. /\ out' \in Seq(Message)
      /\ Len(out') = Len(out) + 1
      /\ \A i \in 1 .. Len(out) : out'[i] = out[i]
      /\ out'[Len(out) + 1] = m
  BY <1>1, <1>2, <1>3, AppendProperties
<1>5. Len(out) \in Nat
  BY <1>3, LenProperties
<1>6. ASSUME NEW i \in 1 .. Len(out')
      PROVE  Len(out'[i].raw) = Declared(out'[i].raw, out'[i].direction)
  <2>1. CASE i \in 1 .. Len(out)
    <3>1. out'[i] = out[i]
      BY <2>1, <1>4
    <3>2. Len(out[i].raw) = Declared(out[i].raw, out[i].direction)
      BY <2>1, Zenon DEF LengthDeclared
    <3> QED
      BY <3>1, <3>2, Zenon
  <2>2. CASE i = Len(out) + 1
    BY <2>2, <1>1, <1>4, Zenon
  <2> QED
    BY <2>1, <2>2, <1>4, <1>5
<1>7. LengthDeclared'
  BY <1>6, Zenon DEF LengthDeclared
<1> QED
  BY <1>1, <1>2, <1>4, <1>7, Zenon

-----------------------------------------------------------------------------
(* The steps.                                                              *)

IInv == TypeOK /\ BufferBounded /\ LengthDeclared

\* What a step that hands back nothing leaves alone.
LEMMA Silent ==
  ASSUME IInv, UNCHANGED <<lastReq, out>>,
         buf' \in Seq(Byte), pending' \in Nat, residue' \in Seq(Byte),
         call' \in {"none", "push", "finish"},
         call' = "none" => Len(buf') < 5 + MAX_DATA_BYTES
  PROVE  IInv'
<1>1. TypeOK'
  BY DEF IInv, TypeOK
<1>2. BufferBounded'
  BY DEF BufferBounded
<1>3. LengthDeclared'
  BY Zenon DEF IInv, LengthDeclared
<1> QED
  BY <1>1, <1>2, <1>3 DEF IInv

\* Taking a message off the head of the buffer.
LEMMA TakeStep ==
  ASSUME IInv, call # "none",
         NEW b \in Seq(Byte), Len(b) >= 4, NEW c \in Fits(b), NEW v \in BOOLEAN,
         Take(b, c, v)
  PROVE  IInv'
<1> DEFINE raw == Prefix(b, c.len)
<1>1. Len(b) \in Nat /\ Len(b) >= 2 /\ c \in Candidates(b) /\ c.len <= Len(b)
  BY LenProperties DEF Fits
<1>2. c.len \in Nat /\ c.len >= 5
  BY <1>1, CandidateCases DEF Candidate
<1>3. c.len \in 0 .. Len(b)
  BY <1>1, <1>2
<1>4. /\ raw \in Seq(Byte) /\ Len(raw) = c.len
      /\ Drop(b, c.len) \in Seq(Byte)
  <2> DEFINE n == c.len
  <2>1. n \in 0 .. Len(b)
    BY <1>3
  <2> HIDE DEF n
  <2>2. Prefix(b, n) \in Seq(Byte) /\ Len(Prefix(b, n)) = n /\ Drop(b, n) \in Seq(Byte)
    BY <2>1, Cutting
  <2> QED
    BY <2>2 DEF n
<1>5. c \in Candidates(raw)
  BY <1>1, PrefixLayout, Zenon
<1>6. Len(raw) >= 4
  BY <1>2, <1>4
<1>7. TypeOK /\ LengthDeclared
  BY DEF IInv
<1>8. Emit(Build(raw, c.direction, v))
  BY DEF Take
<1> HIDE DEF raw
<1>9. /\ out' \in Seq(Message)
      /\ lastReq' \in OutstandingRequest \cup {None}
      /\ LengthDeclared'
  BY <1>4, <1>5, <1>6, <1>7, <1>8, EmitTyped, Zenon
<1>10. /\ buf' \in Seq(Byte) /\ pending' \in Nat
       /\ call' = call /\ residue' = residue
  BY <1>4 DEF Take, FramesLeft
<1>11. TypeOK'
  BY <1>7, <1>9, <1>10 DEF TypeOK
<1>12. BufferBounded'
  BY <1>10 DEF BufferBounded
<1> QED
  BY <1>9, <1>11, <1>12 DEF IInv

\* One pass of the loop over a buffer b.
LEMMA PassStep ==
  ASSUME IInv, call # "none", NEW b \in Seq(Byte), Pass(b)
  PROVE  IInv'
<1>1. Len(b) \in Nat
  BY LenProperties
<1>2. /\ lastReq \in OutstandingRequest \cup {None} /\ pending \in Nat
      /\ residue \in Seq(Byte) /\ call \in {"push", "finish"}
      /\ <<>> \in Seq(Byte) /\ Len(<<>>) = 0
  BY EmptySeq DEF IInv, TypeOK
<1>3. CASE TakeValid(b)
  <2>1. PICK c \in Valid(b) : Len(b) >= 4 /\ Take(b, c, TRUE)
    BY <1>3 DEF TakeValid
  <2>2. c \in Fits(b)
    BY DEF Valid
  <2> QED
    BY <2>1, <2>2, TakeStep, Zenon
<1>4. CASE TakeGuess(b)
  <2>1. PICK c \in Guesses(b) : ~NeedMore(b) /\ Take(b, c, FALSE)
    BY <1>4 DEF TakeGuess
  <2>2. c \in Fits(b)
    BY DEF Guesses
  <2>3. Len(b) >= 4
    BY <2>1, Zenon DEF NeedMore
  <2> QED
    BY <2>1, <2>2, <2>3, TakeStep, Zenon
<1>5. CASE DropByte(b)
  <2>1. Len(b) >= 4
    BY <1>5, Zenon DEF DropByte, NoMessage, NeedMore
  <2>2. 1 \in 0 .. Len(b)
    BY <1>1, <2>1
  <2>3. Drop(b, 1) \in Seq(Byte)
    BY <2>2, Cutting, Zenon
  <2> QED
    BY <1>2, <1>5, <2>3, Silent DEF DropByte
<1>6. CASE ReturnFromPush(b)
  <2>1. Len(b) < 5 + MAX_DATA_BYTES
    <3>1. CASE Len(b) < 4
      BY <1>1, <3>1
    <3>2. CASE ~(Len(b) < 4)
      <4>1. Len(b) >= 4
        BY <1>1, <3>2
      <4>2. PICK c \in Candidates(b) : Plausible(b, c) /\ c.len > Len(b)
        BY <1>6, <4>1, Zenon DEF ReturnFromPush, NeedMore, Awaited, IsFirst
      <4>3. c.len <= 5 + MAX_DATA_BYTES
        BY <4>1, <4>2, PlausibleIsShort, Zenon
      <4>4. c.len \in Nat
        BY <1>1, <4>1, CandidateCases DEF Candidate
      <4> QED
        BY <1>1, <4>2, <4>3, <4>4
    <3> QED
      BY <3>1, <3>2
  <2>2. buf' = b
    BY <1>1, <1>6, <2>1 DEF ReturnFromPush, MAX_BUFFER, MAX_RTU_LEN
  <2> QED
    BY <1>2, <1>6, <2>1, <2>2, Silent DEF ReturnFromPush
<1>7. CASE ReturnFromFinish(b)
  BY <1>2, <1>7, Silent DEF ReturnFromFinish
<1> QED
  BY <1>3, <1>4, <1>5, <1>6, <1>7 DEF Pass

LEMMA InitHolds == Init => IInv
<1> SUFFICES ASSUME Init PROVE IInv
  OBVIOUS
<1>1. <<>> \in Seq(Byte) /\ <<>> \in Seq(Message) /\ Len(<<>>) = 0
  BY EmptySeq
<1>2. TypeOK
  BY <1>1 DEF Init, TypeOK
<1>3. BufferBounded
  BY <1>1 DEF Init, BufferBounded
<1>4. LengthDeclared
  BY <1>1 DEF Init, LengthDeclared
<1> QED
  BY <1>2, <1>3, <1>4 DEF IInv

\* Handing bytes over starts a call; the bound is due again when it returns.
LEMMA PushStep ==
  ASSUME IInv, NEW bytes \in Seq(Byte), Push(bytes) \/ PushBytes(bytes)
  PROVE  IInv'
<1>1. /\ buf \in Seq(Byte) /\ pending \in Nat /\ residue \in Seq(Byte)
  BY DEF IInv, TypeOK
<1>2. buf \o bytes \in Seq(Byte)
  BY <1>1, ConcatProperties
<1>3. /\ buf' = buf \o bytes /\ pending' \in {pending, pending + 1}
      /\ residue' = residue /\ call' = "push" /\ UNCHANGED <<lastReq, out>>
  BY DEF Push, PushBytes
<1>4. /\ buf' \in Seq(Byte) /\ pending' \in Nat /\ residue' \in Seq(Byte)
      /\ call' \in {"none", "push", "finish"} /\ call' # "none"
  BY <1>1, <1>2, <1>3
<1> QED
  BY <1>3, <1>4, Silent

LEMMA InterpretStep ==
  ASSUME IInv, NEW raw \in Seq(Byte), Interpret(raw)
  PROVE  IInv'
<1>1. PICK c \in Candidates(raw) :
        c.len = Len(raw) /\ Emit(Build(raw, c.direction, raw \in CrcValid))
  BY Zenon DEF Interpret, IsFirst
<1>2. (raw \in CrcValid) \in BOOLEAN /\ Len(raw) >= 4
  BY DEF Interpret
<1>3. /\ out' \in Seq(Message)
      /\ lastReq' \in OutstandingRequest \cup {None}
      /\ LengthDeclared'
  BY <1>1, <1>2, EmitTyped, Zenon DEF IInv
<1>4. UNCHANGED <<buf, pending, call, residue>>
  BY DEF Interpret
<1> QED
  BY <1>3, <1>4 DEF IInv, TypeOK, BufferBounded

LEMMA DrainStep ==
  ASSUME IInv, DrainPass
  PROVE  IInv'
<1>1. PICK k \in 0 .. Len(buf) : Pass(Drop(buf, k))
  BY DEF DrainPass
<1>2. buf \in Seq(Byte)
  BY DEF IInv, TypeOK
<1>3. Drop(buf, k) \in Seq(Byte)
  BY <1>2, Cutting, Zenon
<1>4. call # "none"
  BY DEF DrainPass
<1> QED
  BY <1>1, <1>3, <1>4, PassStep, Zenon

LEMMA NextHolds == IInv /\ [Next]_vars => IInv'
<1> SUFFICES ASSUME IInv, [Next]_vars PROVE IInv'
  OBVIOUS
<1>1. CASE \E bytes \in Seq(Byte) : Push(bytes) \/ PushBytes(bytes) \/ Interpret(bytes)
  BY <1>1, PushStep, InterpretStep, Zenon
<1>2. CASE Finish
  BY <1>2, Silent DEF Finish, IInv, TypeOK
<1>3. CASE DrainPass
  BY <1>3, DrainStep
<1>4. CASE UNCHANGED vars
  BY <1>4 DEF vars, IInv, TypeOK, BufferBounded, LengthDeclared
<1> QED
  BY <1>1, <1>2, <1>3, <1>4 DEF Next

LEMMA Invariance == Spec => []IInv
  BY InitHolds, NextHolds, PTL DEF Spec

-----------------------------------------------------------------------------
\* The state and every message handed back have their types: the slices of
\* build are inside the message, whatever the bytes of the stream are.
THEOREM TypeCorrect == Spec => []TypeOK
<1>1. IInv => TypeOK
  BY DEF IInv
<1> QED
  BY <1>1, Invariance, PTL

\* Between calls the buffer holds at most 254 bytes, so the MAX_BUFFER
\* eviction of push_bytes never discards one, on any stream whatever.
THEOREM BufferNeverTrimmed == Spec => []BufferBounded
<1>1. IInv => BufferBounded
  BY DEF IInv
<1> QED
  BY <1>1, Invariance, PTL

\* Every message is exactly as long as its own header declares, whether its
\* boundary came from a checksum, from the length rules or from a caller.
THEOREM LengthsAreDeclared == Spec => []LengthDeclared
<1>1. IInv => LengthDeclared
  BY DEF IInv
<1> QED
  BY <1>1, Invariance, PTL
=============================================================================
