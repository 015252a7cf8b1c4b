---------------------------- MODULE RtuLine_proof ---------------------------
(***************************************************************************)
(* Proofs about a line and its reassembler, for every set of marked lines  *)
(* and every way of cutting them into chunks: no byte of a message is      *)
(* dropped, frames are counted exactly, and what is returned implements    *)
(* FramedLine.                                                             *)
(***************************************************************************)
EXTENDS RtuLine, ModbusRtuStream_proof, FiniteSetTheorems

-----------------------------------------------------------------------------
(* The lines.                                                              *)

\* Where the messages of a line stand, and what they are.
LEMMA MarksOfLine ==
  ASSUME NEW l \in Lines
  PROVE  /\ l.bytes \in Seq(Byte) /\ Len(l.bytes) \in Nat
         /\ Len(l.genuine) \in Nat
         /\ \A i \in 1 .. Len(l.genuine) :
              /\ l.genuine[i] \in Spans
              /\ l.genuine[i].first \in Nat /\ l.genuine[i].last \in Nat
              /\ 1 <= l.genuine[i].first
              /\ l.genuine[i].first + 3 <= l.genuine[i].last
              /\ l.genuine[i].last <= Len(l.bytes)
              /\ Genuine(l, i) \in Seq(Byte)
              /\ Len(Genuine(l, i)) = l.genuine[i].last - l.genuine[i].first + 1
              /\ AddressMatches(l.bytes[l.genuine[i].first])
              /\ Genuine(l, i) \in CrcValid
              /\ \E c \in Candidates(Genuine(l, i)) :
                   Plausible(Genuine(l, i), c) /\ c.len = Len(Genuine(l, i))
         /\ \A i, j \in 1 .. Len(l.genuine) :
              i < j => l.genuine[i].last < l.genuine[j].first
<1>1. /\ l.bytes \in Seq(Byte) /\ l.genuine \in Seq(Spans) /\ Marked(l)
  BY LineAssumption
<1>2. Len(l.bytes) \in Nat /\ Len(l.genuine) \in Nat
  BY <1>1, LenProperties
<1>3. ASSUME NEW i \in 1 .. Len(l.genuine)
      PROVE  /\ l.genuine[i] \in Spans
             /\ l.genuine[i].first \in Nat /\ l.genuine[i].last \in Nat
             /\ 1 <= l.genuine[i].first
             /\ l.genuine[i].first + 3 <= l.genuine[i].last
             /\ Genuine(l, i) \in Seq(Byte)
             /\ Len(Genuine(l, i)) = l.genuine[i].last - l.genuine[i].first + 1
  <2>1. l.genuine[i] \in Spans
    BY <1>1, ElementOfSeq
  <2>2. /\ l.genuine[i].first \in Nat /\ l.genuine[i].last \in Nat
        /\ 1 <= l.genuine[i].first
    BY <2>1 DEF Spans
  <2>3. l.genuine[i].last <= Len(l.bytes) /\ Genuine(l, i) \in CrcValid
    BY <1>1 DEF Marked
  <2>4. Len(Genuine(l, i)) >= 4 /\ Genuine(l, i) \in Seq(Byte)
    BY <2>3, StreamAssumption
  <2> DEFINE u == l.genuine[i].first
             v == l.genuine[i].last
  <2>5. \A k \in u .. v : l.bytes[k] \in Byte
    BY <1>1, <1>2, <2>2, <2>3, ElementOfSeq
  <2>6. Len(SubSeq(l.bytes, u, v)) = IF u <= v THEN v - u + 1 ELSE 0
    <3> HIDE DEF u, v
    <3>1. u \in Int /\ v \in Int
      BY <2>2 DEF u, v
    <3> QED
      BY <3>1, <1>1, <2>5, SubSeqProperties
  <2>7. u + 3 <= v /\ Len(Genuine(l, i)) = v - u + 1
    BY <2>2, <2>4, <2>6 DEF Genuine
  <2> QED
    BY <2>1, <2>2, <2>4, <2>7
<1>4. /\ \A i \in 1 .. Len(l.genuine) :
           /\ l.genuine[i].last <= Len(l.bytes)
           /\ AddressMatches(l.bytes[l.genuine[i].first])
           /\ Genuine(l, i) \in CrcValid
           /\ \E c \in Candidates(Genuine(l, i)) :
                Plausible(Genuine(l, i), c) /\ c.len = Len(Genuine(l, i))
      /\ \A i, j \in 1 .. Len(l.genuine) :
           i < j => l.genuine[i].last < l.genuine[j].first
  BY <1>1, Zenon DEF Marked
<1> QED
  BY <1>1, <1>2, <1>3, <1>4, Zenon

\* What the reassembler takes on a good checksum, where a message can start,
\* is one of the messages.
LEMMA ValidIsGenuine ==
  ASSUME NEW l \in Lines, NEW p \in Nat, NEW f \in Nat, f <= Len(l.bytes), p + 2 <= f,
         AddressMatches(l.bytes[p + 1]), NEW c \in Valid(SubSeq(l.bytes, p + 1, f))
  PROVE  \E i \in 1 .. Len(l.genuine) :
           /\ l.genuine[i].first = p + 1
           /\ l.genuine[i].last = p + c.len
           /\ c.len \in Nat /\ p + c.len <= f
           /\ Prefix(SubSeq(l.bytes, p + 1, f), c.len) = Genuine(l, i)
<1> DEFINE b == SubSeq(l.bytes, p + 1, f)
           s == Drop(l.bytes, p)
<1>1. l.bytes \in Seq(Byte) /\ Len(l.bytes) \in Nat /\ Marked(l)
  BY MarksOfLine, LineAssumption
<1>2. b \in Seq(Byte) /\ Len(b) = f - p
  BY <1>1, Stretches
<1>3. s = SubSeq(l.bytes, p + 1, Len(l.bytes)) /\ s \in Seq(Byte)
      /\ Len(s) = Len(l.bytes) - p
  <2>1. p <= Len(l.bytes)
    BY <1>1
  <2> QED
    BY <2>1, <1>1, Stretches DEF Drop
<1>4. b = Prefix(s, f - p)
  <2> DEFINE n == Len(l.bytes)
  <2>1. n \in Nat /\ p <= n /\ n <= Len(l.bytes) /\ f - p \in 0 .. n - p
    BY <1>1
  <2>2. p + (f - p) = f
    OBVIOUS
  <2> HIDE DEF n
  <2>3. Prefix(SubSeq(l.bytes, p + 1, n), f - p) = SubSeq(l.bytes, p + 1, p + (f - p))
    BY <1>1, <2>1, CutStretch, Zenon
  <2> QED
    BY <1>3, <2>2, <2>3 DEF n
<1>5. /\ c \in Candidates(b) /\ c.len <= Len(b) /\ Prefix(b, c.len) \in CrcValid
  BY DEF Valid, Fits
<1> HIDE DEF b, s
<1>6. c.len \in Nat
  <2>1. Len(b) >= 2
    BY <1>2
  <2> QED
    BY <1>2, <1>5, <2>1, CandidateCases DEF Candidate
<1>7. c.len <= Len(s)
  BY <1>1, <1>2, <1>3, <1>5, <1>6
<1>8. c \in Candidates(s)
  <2>1. f - p \in 2 .. Len(s)
    BY <1>1, <1>3
  <2> QED
    BY <1>3, <1>4, <1>5, <2>1, LayoutsGrow
<1>9. /\ Prefix(b, c.len) = SubSeq(l.bytes, p + 1, p + c.len)
      /\ Prefix(s, c.len) = SubSeq(l.bytes, p + 1, p + c.len)
  <2>1. p <= f /\ p <= Len(l.bytes) /\ c.len \in 0 .. f - p /\ c.len \in 0 .. Len(l.bytes) - p
    BY <1>1, <1>2, <1>5, <1>6
  <2>2. Prefix(b, c.len) = SubSeq(l.bytes, p + 1, p + c.len)
    BY <2>1, <1>1, CutStretch, Zenon DEF b
  <2> DEFINE n == Len(l.bytes)
  <2>3. n \in Nat /\ p <= n /\ n <= Len(l.bytes) /\ c.len \in 0 .. n - p
    BY <1>1, <2>1
  <2> HIDE DEF n
  <2>4. Prefix(SubSeq(l.bytes, p + 1, n), c.len) = SubSeq(l.bytes, p + 1, p + c.len)
    BY <2>3, <1>1, CutStretch, Zenon
  <2> QED
    BY <1>3, <2>2, <2>4 DEF n
<1>10. c \in Valid(s)
  BY <1>5, <1>7, <1>8, <1>9 DEF Valid, Fits
<1>11. p \in 0 .. Len(l.bytes) - 2
  BY <1>1
<1>12. PICK i \in 1 .. Len(l.genuine) :
         l.genuine[i] = [first |-> p + 1, last |-> p + c.len]
  BY <1>1, <1>10, <1>11, Zenon DEF Marked, s
<1>13. l.genuine[i].first = p + 1 /\ l.genuine[i].last = p + c.len
  BY <1>12
<1>14. Prefix(b, c.len) = Genuine(l, i)
  BY <1>9, <1>13 DEF Genuine
<1>15. p + c.len <= f
  BY <1>2, <1>5, <1>6
<1> QED
  BY <1>6, <1>13, <1>14, <1>15, Zenon DEF b

-----------------------------------------------------------------------------
(* The invariant of the line.                                              *)

\* What has not left the buffer is a stretch of the line up to the last byte
\* fed, and a call still running is a push before the end or the finish.
Buffered ==
  /\ line \in Lines
  /\ fed \in 0 .. Len(line.bytes)
  /\ ended \in BOOLEAN
  /\ Consumed \in 0 .. fed
  /\ buf = SubSeq(line.bytes, Consumed + 1, fed)
  /\ call = "push" => ~ended
  /\ call = "finish" => ended /\ fed = Len(line.bytes)

\* The messages returned are the first ones of the line, in order.
InOrder ==
  /\ spans \in Seq([first : Nat, last : Nat, frames : Nat])
  /\ Len(spans) = Len(out)
  /\ Len(out) <= Len(line.genuine)
  /\ \A i \in 1 .. Len(out) :
       /\ spans[i].first = line.genuine[i].first
       /\ spans[i].last = line.genuine[i].last
       /\ out[i].raw = Genuine(line, i)
       /\ out[i].frame_count = spans[i].frames
       /\ line.genuine[i].last <= Consumed

\* Until the finish has returned, all the others are still ahead, whole.
Ahead ==
  ~ended \/ call # "none" =>
    \A i \in Len(out) + 1 .. Len(line.genuine) : Consumed < line.genuine[i].first

\* The next message extends past byte n.
NextPast(n) == Len(out) < Len(line.genuine) /\ n < line.genuine[Len(out) + 1].last

\* On a tunnelled line pending counts the frames with bytes in the buffer,
\* all but the newest of which end inside the next message; between calls that
\* message is not complete.
FramesInStep ==
  IF Tunnelled
  THEN /\ cuts \subseteq Consumed + 1 .. fed
       /\ pending = Cardinality(cuts)
       /\ Consumed < fed => fed \in cuts
       /\ \A c \in cuts : c = fed \/ NextPast(c)
       /\ call = "none" /\ Consumed < fed => NextPast(fed)
  ELSE cuts = {} /\ pending \in {0, 1}

LInv == IInv /\ Buffered /\ InOrder /\ Ahead /\ FramesInStep

-----------------------------------------------------------------------------
(* What a pass of the loop finds.                                          *)

\* What the invariant says in numbers.
LEMMA LineNumbers ==
  ASSUME Buffered, InOrder
  PROVE  /\ fed \in Nat /\ Consumed \in Nat /\ Consumed <= fed
         /\ fed <= Len(line.bytes) /\ Len(line.bytes) \in Nat
         /\ line.bytes \in Seq(Byte)
         /\ Len(out) \in Nat /\ Len(line.genuine) \in Nat
         /\ Len(out) <= Len(line.genuine)
         /\ buf \in Seq(Byte) /\ Len(buf) = fed - Consumed
<1>1. line \in Lines /\ fed \in 0 .. Len(line.bytes) /\ Consumed \in 0 .. fed
  BY DEF Buffered
<1>2. line.bytes \in Seq(Byte) /\ Len(line.bytes) \in Nat /\ Len(line.genuine) \in Nat
  BY <1>1, MarksOfLine
<1>3. fed \in Nat /\ Consumed \in Nat /\ Consumed <= fed /\ fed <= Len(line.bytes)
  BY <1>1, <1>2
<1>4. buf \in Seq(Byte) /\ Len(buf) = fed - Consumed
  <2>1. buf = SubSeq(line.bytes, Consumed + 1, fed)
    BY DEF Buffered
  <2> QED
    BY <1>2, <1>3, <2>1, Stretches
<1>5. Len(out) \in Nat /\ Len(out) <= Len(line.genuine)
  BY LenProperties DEF InOrder
<1> QED
  BY <1>2, <1>3, <1>4, <1>5

\* Where a message begins at the head of the buffer, it is there to be taken
\* as soon as its last byte has been fed, and is waited on until then.
LEMMA Arrival ==
  ASSUME Buffered, InOrder, call # "none", call \in {"none", "push", "finish"},
         NEW p \in Consumed .. fed,
         NEW i \in 1 .. Len(line.genuine), line.genuine[i].first = p + 1
  PROVE  LET b == SubSeq(line.bytes, p + 1, fed) IN
         IF line.genuine[i].last <= fed
         THEN Len(b) >= 4 /\ Valid(b) # {}
         ELSE Len(b) >= 4 => Awaited(b)
<1> DEFINE b == SubSeq(line.bytes, p + 1, fed)
           raw == Genuine(line, i)
           v == line.genuine[i].last
<1>1. /\ fed \in Nat /\ p \in Nat /\ p <= fed /\ fed <= Len(line.bytes)
      /\ Len(line.bytes) \in Nat /\ line.bytes \in Seq(Byte)
  BY LineNumbers
<1>2. line \in Lines
  BY DEF Buffered
<1>3. /\ v \in Nat /\ p + 4 <= v /\ v <= Len(line.bytes)
      /\ raw \in Seq(Byte) /\ Len(raw) = v - p /\ raw \in CrcValid
  <2>1. /\ line.genuine[i].first + 3 <= v /\ v \in Nat /\ v <= Len(line.bytes)
        /\ raw \in Seq(Byte) /\ Len(raw) = v - line.genuine[i].first + 1
        /\ raw \in CrcValid
    BY <1>2, MarksOfLine
  <2> HIDE DEF raw, v
  <2>2. p + 4 <= v /\ v - line.genuine[i].first + 1 = v - p
    BY <1>1, <2>1
  <2> QED
    BY <2>1, <2>2
<1>4. PICK c \in Candidates(raw) : Plausible(raw, c) /\ c.len = Len(raw)
  BY <1>2, MarksOfLine
<1>5. raw = SubSeq(line.bytes, p + 1, v)
  BY DEF Genuine
<1>6. b \in Seq(Byte) /\ Len(b) = fed - p
  BY <1>1, Stretches
<1>7. CASE v <= fed
  <2>1. Prefix(b, v - p) = raw
    <3> HIDE DEF v, raw, b
    <3>1. v - p \in 0 .. fed - p /\ p + (v - p) = v
      BY <1>1, <1>3, <1>7
    <3>2. Prefix(SubSeq(line.bytes, p + 1, fed), v - p)
            = SubSeq(line.bytes, p + 1, p + (v - p))
      BY <1>1, <3>1, CutStretch, Zenon
    <3>3. SubSeq(line.bytes, p + 1, p + (v - p)) = SubSeq(line.bytes, p + 1, v)
      BY <3>1
    <3>4. b = SubSeq(line.bytes, p + 1, fed)
      BY DEF b
    <3> QED
      BY <1>5, <3>2, <3>3, <3>4, Zenon
  <2> HIDE DEF b, raw, v
  <2>2. v - p \in 2 .. Len(b) /\ Len(b) >= 4
    BY <1>1, <1>3, <1>6, <1>7
  <2>3. c \in Candidates(b)
    BY <1>4, <1>6, <2>1, <2>2, LayoutsGrow
  <2>4. c.len = v - p /\ c.len <= Len(b)
    BY <1>3, <1>4, <2>2
  <2>5. Prefix(b, c.len) \in CrcValid
    BY <1>3, <2>1, <2>4
  <2>6. c \in Valid(b)
    BY <2>3, <2>4, <2>5, Zenon DEF Valid, Fits
  <2> QED
    BY <1>7, <2>2, <2>6, Zenon DEF b, v
<1>8. CASE ~(v <= fed)
  <2> SUFFICES ASSUME Len(b) >= 4 PROVE Awaited(b)
    BY <1>8, Zenon
  <2>1. call = "push"
    <3>1. call = "finish" => fed = Len(line.bytes)
      BY DEF Buffered
    <3> QED
      BY <1>1, <1>3, <1>8, <3>1
  <2>2. Prefix(raw, fed - p) = b
    <3>1. /\ v \in Nat /\ p <= v /\ v <= Len(line.bytes)
          /\ fed - p \in 0 .. v - p /\ p + (fed - p) = fed
      BY <1>1, <1>3, <1>8
    <3> HIDE DEF v
    <3>2. Prefix(SubSeq(line.bytes, p + 1, v), fed - p)
            = SubSeq(line.bytes, p + 1, p + (fed - p))
      BY <1>1, <3>1, CutStretch, Zenon
    <3> QED
      BY <1>5, <3>1, <3>2
  <2> HIDE DEF b, raw, v
  <2>3. fed - p \in 4 .. Len(raw) /\ fed - p < Len(raw)
    BY <1>1, <1>3, <1>6, <1>8
  <2>4. Awaited(Prefix(raw, fed - p))
    BY <1>3, <1>4, <2>1, <2>3, MessageAwaited
  <2> QED
    BY <2>2, <2>4
<1> QED
  BY <1>7, <1>8

\* A pass of the loop begins where the skip to an address has led it, and has
\* skipped no message; on a line of nothing but messages it skips nothing.
LEMMA SkipKeeps ==
  ASSUME Buffered, InOrder, Ahead, call # "none", NEW k \in 0 .. Len(buf), IsSkip(k)
  PROVE  LET p == Consumed + k IN
         /\ p \in Consumed .. fed
         /\ Drop(buf, k) = SubSeq(line.bytes, p + 1, fed)
         /\ \A i \in Len(out) + 1 .. Len(line.genuine) : p < line.genuine[i].first
         /\ p < fed => AddressMatches(line.bytes[p + 1])
         /\ OnlyMessages(line) =>
              /\ k = 0
              /\ p < fed => /\ Len(out) < Len(line.genuine)
                            /\ line.genuine[Len(out) + 1].first = p + 1
<1> DEFINE p == Consumed + k
<1>1. /\ fed \in Nat /\ Consumed \in Nat /\ Consumed <= fed /\ fed <= Len(line.bytes)
      /\ Len(line.bytes) \in Nat /\ line.bytes \in Seq(Byte)
      /\ Len(out) \in Nat /\ Len(line.genuine) \in Nat
      /\ Len(out) <= Len(line.genuine) /\ Len(buf) = fed - Consumed
  BY LineNumbers
<1>2. line \in Lines /\ buf = SubSeq(line.bytes, Consumed + 1, fed)
  BY DEF Buffered
<1>3. p \in Consumed .. fed /\ k \in 0 .. fed - Consumed
  BY <1>1
<1>4. Drop(buf, k) = SubSeq(line.bytes, p + 1, fed)
  BY <1>1, <1>2, <1>3, CutStretch, Zenon
<1>5. \A i \in 1 .. fed - Consumed : buf[i] = line.bytes[Consumed + i]
  BY <1>1, <1>2, Stretches
<1>6. ASSUME NEW i \in Len(out) + 1 .. Len(line.genuine)
      PROVE  p < line.genuine[i].first
  <2> DEFINE u == line.genuine[i].first
  <2>1. i \in 1 .. Len(line.genuine)
    BY <1>1
  <2>2. u \in Nat /\ AddressMatches(line.bytes[u])
    BY <1>2, <2>1, MarksOfLine
  <2>3. Consumed < u
    BY DEF Ahead
  <2> HIDE DEF u
  <2>4. CASE u <= p
    <3>1. u - Consumed \in 1 .. k /\ u - Consumed \in 1 .. fed - Consumed
          /\ Consumed + (u - Consumed) = u
      BY <1>1, <1>3, <2>2, <2>3, <2>4
    <3>2. buf[u - Consumed] = line.bytes[u]
      BY <1>5, <3>1
    <3>3. ~AddressMatches(buf[u - Consumed])
      BY <3>1, Zenon DEF IsSkip
    <3> QED
      BY <2>2, <3>2, <3>3
  <2>5. CASE ~(u <= p)
    BY <1>1, <1>3, <2>2, <2>5 DEF u
  <2> QED
    BY <2>4, <2>5
<1>7. p < fed => AddressMatches(line.bytes[p + 1])
  <2> SUFFICES ASSUME p < fed PROVE AddressMatches(line.bytes[p + 1])
    OBVIOUS
  <2>1. k < Len(buf) /\ k + 1 \in 1 .. fed - Consumed /\ Consumed + (k + 1) = p + 1
    BY <1>1, <1>3
  <2>2. AddressMatches(buf[k + 1])
    BY <2>1, Zenon DEF IsSkip
  <2>3. buf[k + 1] = line.bytes[p + 1]
    BY <1>5, <2>1
  <2> QED
    BY <2>2, <2>3
\* On a line of nothing but messages the next one starts at the next byte.
<1>8. ASSUME OnlyMessages(line), Consumed < fed
      PROVE  /\ Len(out) < Len(line.genuine)
             /\ line.genuine[Len(out) + 1].first = Consumed + 1
  <2>1. Consumed + 1 \in 1 .. Len(line.bytes)
    BY <1>1, <1>8
  <2>2. PICK i \in 1 .. Len(line.genuine) :
          line.genuine[i].first <= Consumed + 1 /\ Consumed + 1 <= line.genuine[i].last
    BY <1>8, <2>1, Zenon DEF OnlyMessages
  <2>3. line.genuine[i].first \in Nat /\ line.genuine[i].last \in Nat
    BY <1>2, MarksOfLine
  <2>4. ~(i <= Len(out))
    <3> SUFFICES ASSUME i <= Len(out) PROVE FALSE
      OBVIOUS
    <3>1. i \in 1 .. Len(out) /\ Consumed \in Nat
      BY <1>1
    <3>2. line.genuine[i].last <= Consumed
      BY <3>1, Zenon DEF InOrder
    <3> QED
      BY <2>2, <2>3, <3>1, <3>2
  <2>5. i \in Len(out) + 1 .. Len(line.genuine)
    BY <1>1, <2>4
  <2>6. Consumed < line.genuine[i].first
    BY <2>5 DEF Ahead
  <2>7. line.genuine[i].first = Consumed + 1
    BY <1>1, <2>2, <2>3, <2>6
  <2> DEFINE j == Len(out) + 1
  <2>8. j \in 1 .. Len(line.genuine) /\ j \in Len(out) + 1 .. Len(line.genuine) /\ j <= i
    BY <1>1, <2>5
  <2>9. Len(out) < Len(line.genuine)
    BY <1>1, <2>5
  <2> HIDE DEF j
  <2>10. ~(j < i)
    <3> SUFFICES ASSUME j < i PROVE FALSE
      OBVIOUS
    <3>1. /\ line.genuine[j].last < line.genuine[i].first
          /\ line.genuine[j].first \in Nat /\ line.genuine[j].last \in Nat
          /\ line.genuine[j].first + 3 <= line.genuine[j].last
      BY <1>2, <2>8, MarksOfLine
    <3>2. Consumed < line.genuine[j].first
      BY <2>8 DEF Ahead
    <3>3. \A m, u, v \in Nat : m < u /\ u + 3 <= v => ~(v < m + 1)
      OBVIOUS
    <3> QED
      BY <1>1, <2>7, <3>1, <3>2, <3>3, Zenon
  <2>11. j = i
    BY <2>8, <2>10
  <2> QED
    BY <2>7, <2>9, <2>11 DEF j
<1>9. OnlyMessages(line) => k = 0
  <2> SUFFICES ASSUME OnlyMessages(line), k # 0 PROVE FALSE
    OBVIOUS
  <2>1. Consumed < fed /\ 1 \in 1 .. k /\ 1 \in 1 .. fed - Consumed
    BY <1>1, <1>3
  <2>2. ~AddressMatches(buf[1]) /\ buf[1] = line.bytes[Consumed + 1]
    BY <1>5, <2>1, Zenon DEF IsSkip
  <2>3. Len(out) + 1 \in 1 .. Len(line.genuine)
    BY <1>1, <1>8, <2>1
  <2>4. AddressMatches(line.bytes[line.genuine[Len(out) + 1].first])
    BY <1>2, <2>3, MarksOfLine
  <2> QED
    BY <1>8, <2>1, <2>2, <2>4
<1>10. OnlyMessages(line) =>
         /\ k = 0
         /\ p < fed => /\ Len(out) < Len(line.genuine)
                       /\ line.genuine[Len(out) + 1].first = p + 1
  BY <1>1, <1>8, <1>9
<1> HIDE DEF p
<1> QED
  BY <1>3, <1>4, <1>6, <1>7, <1>10, Zenon DEF p

-----------------------------------------------------------------------------
(* The steps.                                                              *)

\* A step that returns nothing and leaves the bytes from position q on.
LEMMA QuietStep ==
  ASSUME Buffered, InOrder, NEW q \in Nat, NEW f \in Nat,
         UNCHANGED <<line, out, spans>>, fed' = f, Consumed <= q, q <= f,
         f <= Len(line.bytes), buf' = SubSeq(line.bytes, q + 1, f),
         ended' \in BOOLEAN, call' = "push" => ~ended',
         call' = "finish" => ended' /\ f = Len(line.bytes),
         ~ended' \/ call' # "none" =>
           \A i \in Len(out) + 1 .. Len(line.genuine) : q < line.genuine[i].first
  PROVE  Consumed' = q /\ Buffered' /\ InOrder' /\ Ahead'
<1>1. line.bytes \in Seq(Byte) /\ Len(line.bytes) \in Nat /\ Consumed \in Nat
      /\ Len(line.genuine) \in Nat /\ Len(out) \in Nat /\ Len(out) <= Len(line.genuine)
  BY LineNumbers
<1>2. Consumed' = q
  <2>1. Len(SubSeq(line.bytes, q + 1, f)) = f - q
    BY <1>1, Stretches
  <2>2. Consumed' = f - (f - q)
    BY <2>1 DEF Consumed
  <2> QED
    BY <2>2
<1>3. Buffered'
  <2>1. line' \in Lines
    BY DEF Buffered
  <2>2. f \in 0 .. Len(line.bytes) /\ q \in 0 .. f
    BY <1>1
  <2> QED
    BY <1>2, <2>1, <2>2, Zenon DEF Buffered
<1>4. InOrder'
  <2>1. ASSUME NEW i \in 1 .. Len(out)
        PROVE  line.genuine[i].last <= q
    <3>1. line.genuine[i].last <= Consumed /\ i \in 1 .. Len(line.genuine)
      <4>1. i \in 1 .. Len(line.genuine)
        BY <1>1
      <4> QED
        BY <4>1, Zenon DEF InOrder
    <3>2. line.genuine[i].last \in Nat /\ Consumed \in Nat
      BY <1>1, <3>1, MarksOfLine DEF Buffered
    <3> QED
      BY <3>1, <3>2
  <2> QED
    BY <1>2, <2>1, Zenon DEF InOrder, Genuine
<1>5. Ahead'
  BY <1>2, Zenon DEF Ahead
<1> QED
  BY <1>2, <1>3, <1>4, <1>5

\* Bytes are handed over between calls, when the message they go on with is
\* still incomplete.
LEMMA FeedStep ==
  ASSUME LInv, NEW n \in ChunkSizes, Feed(n)
  PROVE  LInv'
<1>1. /\ fed \in Nat /\ Consumed \in Nat /\ Consumed <= fed
      /\ fed <= Len(line.bytes) /\ Len(line.bytes) \in Nat
      /\ line.bytes \in Seq(Byte)
      /\ Len(out) \in Nat /\ Len(line.genuine) \in Nat
      /\ Len(out) <= Len(line.genuine)
      /\ buf \in Seq(Byte) /\ Len(buf) = fed - Consumed
  BY LineNumbers DEF LInv
<1>2. n \in Nat /\ n >= 1 /\ Tunnelled \in BOOLEAN
  BY LineAssumption
<1> DEFINE chunk == SubSeq(line.bytes, fed + 1, fed + n)
<1>3. /\ ~ended /\ fed + n <= Len(line.bytes) /\ fed' = fed + n
      /\ UNCHANGED <<line, ended, spans>>
      /\ cuts' = IF Tunnelled THEN cuts \cup {fed + n} ELSE cuts
      /\ IF Tunnelled THEN Push(chunk) ELSE PushBytes(chunk)
  BY Zenon DEF Feed
<1>4. /\ call = "none" /\ call' = "push" /\ buf' = buf \o chunk
      /\ UNCHANGED <<lastReq, out, residue>>
      /\ pending' = IF Tunnelled THEN pending + 1 ELSE pending
  BY <1>3, Zenon DEF Push, PushBytes
<1>5. chunk \in Seq(Byte)
  <2>1. fed + n \in Nat /\ fed <= fed + n
    BY <1>1, <1>2
  <2> QED
    BY <1>1, <1>3, <2>1, Stretches
<1>6. IInv'
  <2>1. Push(chunk) \/ PushBytes(chunk)
    BY <1>3
  <2> HIDE DEF chunk
  <2> QED
    BY <1>5, <2>1, PushStep, Zenon DEF LInv
<1>7. buf' = SubSeq(line.bytes, Consumed + 1, fed + n)
  <2>1. /\ Consumed + 1 \in 1 .. Len(line.bytes) + 1
        /\ fed \in (Consumed + 1) - 1 .. Len(line.bytes)
        /\ fed + n \in fed .. Len(line.bytes)
    BY <1>1, <1>2, <1>3
  <2>2. SubSeq(line.bytes, Consumed + 1, fed) \o SubSeq(line.bytes, fed + 1, fed + n)
          = SubSeq(line.bytes, Consumed + 1, fed + n)
    BY <1>1, <2>1, ConcatAdjacentSubSeq
  <2> QED
    BY <1>4, <2>2 DEF LInv, Buffered
<1>8. Consumed' = Consumed /\ Buffered' /\ InOrder' /\ Ahead'
  <2> DEFINE f == fed + n
             q == Consumed
  <2>1. /\ f \in Nat /\ q \in Nat /\ Consumed <= q /\ q <= f /\ f <= Len(line.bytes)
        /\ fed' = f /\ buf' = SubSeq(line.bytes, q + 1, f)
    BY <1>1, <1>2, <1>3, <1>7
  <2>2. /\ ended' \in BOOLEAN /\ ~ended'
        /\ \A i \in Len(out) + 1 .. Len(line.genuine) : q < line.genuine[i].first
    <3>1. ended \in BOOLEAN
      BY DEF LInv, Buffered
    <3> QED
      BY <1>3, <3>1, Zenon DEF LInv, Ahead
  <2> HIDE DEF f, q
  <2>3. Consumed' = q /\ Buffered' /\ InOrder' /\ Ahead'
    BY <1>3, <1>4, <2>1, <2>2, QuietStep DEF LInv
  <2> QED
    BY <2>3 DEF q
<1>9. FramesInStep'
  <2>1. CASE ~Tunnelled
    BY <1>3, <1>4, <2>1, Zenon DEF LInv, FramesInStep
  <2>2. CASE Tunnelled
    <3>1. /\ cuts \subseteq Consumed + 1 .. fed
          /\ pending = Cardinality(cuts)
          /\ \A c \in cuts : c = fed \/ NextPast(c)
          /\ Consumed < fed => NextPast(fed)
      BY <1>4, <2>2, Zenon DEF LInv, FramesInStep
    <3>2. cuts' = cuts \cup {fed + n} /\ pending' = pending + 1 /\ fed' = fed + n
      BY <1>3, <1>4, <2>2
    <3>3. cuts \cup {fed + n} \subseteq Consumed + 1 .. fed + n /\ fed + n \notin cuts
      BY <1>1, <1>2, <3>1
    <3>4. Cardinality(cuts \cup {fed + n}) = Cardinality(cuts) + 1
      <4>1. IsFiniteSet(cuts)
        <5>1. IsFiniteSet(Consumed + 1 .. fed)
          BY <1>1, FS_Interval
        <5> QED
          BY <3>1, <5>1, FS_Subset
      <4> QED
        BY <3>3, <4>1, FS_AddElement
    <3>5. \A c : NextPast(c)' <=> NextPast(c)
      BY <1>3, <1>4 DEF NextPast
    <3>6. \A c \in cuts : NextPast(c)
      <4> SUFFICES ASSUME NEW c \in cuts PROVE NextPast(c)
        OBVIOUS
      <4>1. CASE c = fed
        <5>1. Consumed < fed
          BY <1>1, <3>1, <4>1
        <5> QED
          BY <3>1, <4>1, <5>1
      <4> QED
        BY <3>1, <4>1
    <3>7. \A c \in cuts' : c = fed' \/ NextPast(c)'
      BY <3>2, <3>5, <3>6
    <3>8. cuts' \subseteq Consumed' + 1 .. fed'
      BY <1>8, <3>2, <3>3
    <3>9. pending' = Cardinality(cuts') /\ fed' \in cuts'
      BY <3>1, <3>2, <3>4
    <3> QED
      BY <1>4, <2>2, <3>7, <3>8, <3>9, Zenon DEF FramesInStep
  <2> QED
    BY <2>1, <2>2
<1> QED
  BY <1>6, <1>8, <1>9 DEF LInv

LEMMA EndStep ==
  ASSUME LInv, EndOfStream
  PROVE  LInv'
<1>1. /\ fed \in Nat /\ Consumed \in Nat /\ Consumed <= fed
      /\ fed <= Len(line.bytes) /\ Len(line.bytes) \in Nat
  BY LineNumbers DEF LInv
<1>2. /\ ~ended /\ fed = Len(line.bytes) /\ call = "none" /\ call' = "finish"
      /\ ended' = TRUE
      /\ UNCHANGED <<buf, pending, lastReq, out, residue, line, fed, cuts, spans>>
  BY Zenon DEF EndOfStream, Finish
<1>3. IInv'
  <2>1. Next
    BY DEF EndOfStream, Next
  <2> QED
    BY <2>1, NextHolds DEF LInv
<1>4. Consumed' = Consumed /\ Buffered' /\ InOrder' /\ Ahead'
  <2> DEFINE f == fed
             q == Consumed
  <2>1. /\ f \in Nat /\ q \in Nat /\ Consumed <= q /\ q <= f /\ f <= Len(line.bytes)
        /\ fed' = f /\ buf' = SubSeq(line.bytes, q + 1, f) /\ f = Len(line.bytes)
    BY <1>1, <1>2 DEF LInv, Buffered
  <2>2. \A i \in Len(out) + 1 .. Len(line.genuine) : q < line.genuine[i].first
    BY <1>2 DEF LInv, Ahead
  <2> HIDE DEF f, q
  <2>3. Consumed' = q /\ Buffered' /\ InOrder' /\ Ahead'
    BY <1>2, <2>1, <2>2, QuietStep DEF LInv
  <2> QED
    BY <2>3 DEF q
<1>5. FramesInStep'
  <2>1. \A c : NextPast(c)' <=> NextPast(c)
    BY <1>2 DEF NextPast
  <2>2. call' # "none"
    BY <1>2
  <2> QED
    BY <1>2, <1>4, <2>1, <2>2, Zenon DEF LInv, FramesInStep
<1> QED
  BY <1>3, <1>4, <1>5 DEF LInv

\* The message taken on a good checksum is the next one of the line.
LEMMA NextTaken ==
  ASSUME LInv, call # "none", NEW k \in 0 .. Len(buf), IsSkip(k),
         NEW c \in Valid(Drop(buf, k)), Len(Drop(buf, k)) >= 4
  PROVE  LET p == Consumed + k
             q == p + c.len
         IN  /\ p \in Nat /\ c.len \in Nat /\ Consumed <= p /\ q <= fed
             /\ Len(out) + 1 \in 1 .. Len(line.genuine)
             /\ line.genuine[Len(out) + 1].first = p + 1
             /\ line.genuine[Len(out) + 1].last = q
             /\ Prefix(Drop(buf, k), c.len) = Genuine(line, Len(out) + 1)
             /\ Len(Prefix(Drop(buf, k), c.len)) = c.len
             /\ Drop(Drop(buf, k), c.len) = SubSeq(line.bytes, q + 1, fed)
             /\ c.len >= 4
<1> DEFINE p == Consumed + k
           b == Drop(buf, k)
           j == Len(out) + 1
<1>1. /\ fed \in Nat /\ Consumed \in Nat /\ Consumed <= fed /\ fed <= Len(line.bytes)
      /\ Len(line.bytes) \in Nat /\ line.bytes \in Seq(Byte)
      /\ Len(out) \in Nat /\ Len(line.genuine) \in Nat
      /\ Len(out) <= Len(line.genuine) /\ Len(buf) = fed - Consumed
  BY LineNumbers DEF LInv
<1>2. line \in Lines
  BY DEF LInv, Buffered
<1>3. /\ p \in Consumed .. fed
      /\ b = SubSeq(line.bytes, p + 1, fed)
      /\ \A i \in Len(out) + 1 .. Len(line.genuine) : p < line.genuine[i].first
      /\ p < fed => AddressMatches(line.bytes[p + 1])
  BY SkipKeeps DEF LInv
<1>4. p \in Nat /\ p <= fed /\ Consumed <= p /\ p + 2 <= fed /\ p < fed
  <2>1. p \in Nat /\ p <= fed /\ Consumed <= p
    BY <1>1, <1>3
  <2>2. Len(SubSeq(line.bytes, p + 1, fed)) = fed - p
    BY <1>1, <2>1, Stretches
  <2> HIDE DEF p
  <2>3. fed - p >= 4
    BY <1>3, <2>2, Zenon
  <2>4. fed \in Nat
    BY <1>1
  <2> QED
    BY <2>1, <2>3, <2>4
<1>5. c \in Valid(SubSeq(line.bytes, p + 1, fed))
  BY <1>3
<1> HIDE DEF p, b
<1>6. PICK i \in 1 .. Len(line.genuine) :
        /\ line.genuine[i].first = p + 1
        /\ line.genuine[i].last = p + c.len
        /\ c.len \in Nat /\ p + c.len <= fed
        /\ Prefix(SubSeq(line.bytes, p + 1, fed), c.len) = Genuine(line, i)
  <2>1. /\ line \in Lines /\ p \in Nat /\ fed \in Nat
        /\ fed <= Len(line.bytes) /\ p + 2 <= fed
        /\ AddressMatches(line.bytes[p + 1])
    BY <1>1, <1>2, <1>3, <1>4
  <2> QED
    BY <1>5, <2>1, ValidIsGenuine
<1>7. line.genuine[i].first + 3 <= line.genuine[i].last
  BY <1>2, MarksOfLine
<1>8. ~(i <= Len(out))
  <2> SUFFICES ASSUME i <= Len(out) PROVE FALSE
    OBVIOUS
  <2>1. line.genuine[i].last <= Consumed
    <3>1. i \in 1 .. Len(out)
      BY <1>1
    <3> QED
      BY <3>1, Zenon DEF LInv, InOrder
  <2> QED
    BY <1>1, <1>4, <1>6, <1>7, <2>1
<1>9. j \in 1 .. Len(line.genuine) /\ j \in Len(out) + 1 .. Len(line.genuine) /\ j <= i
  BY <1>1, <1>8
<1> HIDE DEF j
<1>10. ~(j < i)
  <2> SUFFICES ASSUME j < i PROVE FALSE
    OBVIOUS
  <2>1. /\ line.genuine[j].last < line.genuine[i].first
        /\ line.genuine[j].first \in Nat /\ line.genuine[j].last \in Nat
        /\ line.genuine[j].first + 3 <= line.genuine[j].last
    BY <1>2, <1>9, MarksOfLine
  <2>2. p < line.genuine[j].first
    BY <1>3, <1>9
  <2>3. \A m, u, v \in Nat : m < u /\ u + 3 <= v => ~(v < m + 1)
    OBVIOUS
  <2> QED
    BY <1>4, <1>6, <2>1, <2>2, <2>3, Zenon
<1>11. j = i
  <2>1. j \in Nat /\ i \in Nat
    BY <1>1, <1>9
  <2> QED
    BY <1>9, <1>10, <2>1
<1>12. c.len >= 4
  <2>1. p + 1 + 3 <= p + c.len
    BY <1>6, <1>7, Zenon
  <2> QED
    BY <1>4, <1>6, <2>1
<1>13. /\ Drop(b, c.len) = SubSeq(line.bytes, p + c.len + 1, fed)
       /\ Len(Prefix(b, c.len)) = c.len
  <2>1. c.len \in 0 .. fed - p
    BY <1>1, <1>4, <1>6
  <2>2. Drop(SubSeq(line.bytes, p + 1, fed), c.len) = SubSeq(line.bytes, p + c.len + 1, fed)
    <3> DEFINE n == c.len
    <3>1. n \in 0 .. fed - p
      BY <2>1
    <3> HIDE DEF n
    <3>2. Drop(SubSeq(line.bytes, p + 1, fed), n) = SubSeq(line.bytes, p + n + 1, fed)
      BY <1>1, <1>4, <3>1, CutStretch
    <3> QED
      BY <3>2 DEF n
  <2>3. b \in Seq(Byte) /\ Len(b) = fed - p
    BY <1>1, <1>3, <1>4, Stretches
  <2>4. Len(Prefix(b, c.len)) = c.len
    BY <2>1, <2>3, Cutting
  <2> QED
    BY <1>3, <2>2, <2>4
<1> QED
  BY <1>3, <1>4, <1>6, <1>9, <1>11, <1>12, <1>13, Zenon DEF p, b, j

\* The frames reported for it are those with bytes of it.
LEMMA FramesCounted ==
  ASSUME LInv, call # "none", NEW k \in 0 .. Len(buf), IsSkip(k),
         NEW c \in Valid(Drop(buf, k)), Len(Drop(buf, k)) >= 4
  PROVE  LET q == Consumed + k + c.len IN
         /\ FramesReported = FramesOf(Consumed + k + 1, q)
         /\ FramesReported \in Nat
         /\ Tunnelled => {d \in cuts : d > q} = IF q = fed THEN {} ELSE {fed}
<1> DEFINE p == Consumed + k
           q == p + c.len
           j == Len(out) + 1
<1>1. /\ p \in Nat /\ c.len \in Nat /\ Consumed <= p /\ q <= fed
      /\ line.genuine[j].last = q /\ c.len >= 4
  BY NextTaken
<1>2. fed \in Nat /\ Consumed \in Nat /\ Consumed <= fed /\ q \in Nat
  BY <1>1, LineNumbers DEF LInv
<1>3. CASE ~Tunnelled
  <2>1. cuts = {} /\ pending \in {0, 1}
    BY <1>3, Zenon DEF LInv, FramesInStep
  <2>2. {d \in cuts : p + 1 <= d /\ d < q} = {}
    BY <2>1
  <2>3. FramesOf(p + 1, q) = 1
    BY <2>2, FS_EmptySet DEF FramesOf
  <2>4. FramesReported = 1
    BY <2>1 DEF FramesReported
  <2> QED
    BY <1>3, <2>3, <2>4
<1>4. CASE Tunnelled
  <2>1. /\ cuts \subseteq Consumed + 1 .. fed
        /\ pending = Cardinality(cuts)
        /\ Consumed < fed => fed \in cuts
        /\ \A d \in cuts : d = fed \/ NextPast(d)
    BY <1>4, Zenon DEF LInv, FramesInStep
  <2>2. k = 0
    <3>1. OnlyMessages(line)
      BY <1>4, LineAssumption DEF LInv, Buffered
    <3> QED
      BY <3>1, SkipKeeps DEF LInv
  <2>3. p = Consumed /\ fed \in cuts
    BY <1>1, <1>2, <2>1, <2>2
  <2>4. \A d \in cuts : d \in Nat /\ p + 1 <= d /\ d <= fed /\ (d = fed \/ d < q)
    BY <1>1, <1>2, <2>1, <2>3 DEF NextPast
  <2> HIDE DEF p, q
  <2>5. {d \in cuts : p + 1 <= d /\ d < q} = cuts \ {fed}
    BY <1>1, <1>2, <2>4
  <2>6. IsFiniteSet(cuts)
    <3>1. IsFiniteSet(Consumed + 1 .. fed)
      BY <1>2, FS_Interval
    <3> QED
      BY <2>1, <3>1, FS_Subset
  <2>7. /\ IsFiniteSet(cuts \ {fed})
        /\ Cardinality(cuts \ {fed}) = Cardinality(cuts) - 1
    BY <2>3, <2>6, FS_RemoveElement
  <2>8. Cardinality(cuts \ {fed}) \in Nat /\ Cardinality(cuts) \in Nat
    BY <2>6, <2>7, FS_CardinalityType
  <2>9. FramesOf(p + 1, q) = 1 + Cardinality(cuts \ {fed})
    BY <2>5 DEF FramesOf
  <2>10. FramesReported = pending
    BY <2>1, <2>7, <2>8 DEF FramesReported
  <2>11. {d \in cuts : d > q} = IF q = fed THEN {} ELSE {fed}
    <3>1. CASE q = fed
      BY <1>2, <2>4, <3>1
    <3>2. CASE q # fed
      <4>1. fed > q /\ \A d \in cuts : d > q => d = fed
        BY <1>1, <1>2, <2>4, <3>2
      <4> QED
        BY <2>3, <3>2, <4>1
    <3> QED
      BY <3>1, <3>2
  <2>12. FramesReported = FramesOf(p + 1, q) /\ FramesReported \in Nat
    BY <2>1, <2>7, <2>8, <2>9, <2>10
  <2> QED
    BY <2>11, <2>12, Zenon DEF p, q
<1> QED
  BY <1>3, <1>4, Zenon DEF LInv

\* Taking the next message.
LEMMA TakeLine ==
  ASSUME LInv, Reassemble, NEW k \in 0 .. Len(buf), IsSkip(k),
         NEW c \in Valid(Drop(buf, k)), Len(Drop(buf, k)) >= 4, Take(Drop(buf, k), c, TRUE)
  PROVE  /\ Buffered' /\ InOrder' /\ Ahead' /\ FramesInStep'
         /\ Promise!Deliver
<1> DEFINE p == Consumed + k
           q == p + c.len
           j == Len(out) + 1
           raw == Prefix(Drop(buf, k), c.len)
           m == Build(raw, c.direction, TRUE)
           span == [first |-> p + 1, last |-> q, frames |-> FramesOf(p + 1, q)]
<1>1. /\ call # "none" /\ UNCHANGED <<line, fed, ended>>
      /\ cuts' = {d \in cuts : d > fed - Len(buf')}
      /\ out' # out =>
           spans' = Append(spans,
             [first  |-> fed - Len(buf') + 1 - Len(out'[Len(out')].raw),
              last   |-> fed - Len(buf'),
              frames |-> FramesOf(fed - Len(buf') + 1 - Len(out'[Len(out')].raw),
                                  fed - Len(buf'))])
  BY Zenon DEF Reassemble, DrainPass
<1>2. /\ fed \in Nat /\ Consumed \in Nat /\ Consumed <= fed
      /\ fed <= Len(line.bytes) /\ Len(line.bytes) \in Nat
      /\ line.bytes \in Seq(Byte)
      /\ Len(out) \in Nat /\ Len(line.genuine) \in Nat
      /\ Len(out) <= Len(line.genuine)
  BY LineNumbers DEF LInv
<1>3. /\ p \in Nat /\ c.len \in Nat /\ Consumed <= p /\ q <= fed
      /\ j \in 1 .. Len(line.genuine)
      /\ line.genuine[j].first = p + 1
      /\ line.genuine[j].last = q
      /\ raw = Genuine(line, j)
      /\ Len(raw) = c.len
      /\ Drop(Drop(buf, k), c.len) = SubSeq(line.bytes, q + 1, fed)
      /\ c.len >= 4
  BY <1>1, NextTaken
<1>4. /\ FramesReported = FramesOf(p + 1, q)
      /\ FramesReported \in Nat
      /\ Tunnelled => {d \in cuts : d > q} = IF q = fed THEN {} ELSE {fed}
  BY <1>1, FramesCounted
<1>5. q \in Nat /\ Consumed <= q
  <2>1. \A a, b, n \in Nat : a <= b => b + n \in Nat /\ a <= b + n
    OBVIOUS
  <2> QED
    BY <1>2, <1>3, <2>1, Zenon
<1>6. /\ out' = Append(out, m) /\ buf' = SubSeq(line.bytes, q + 1, fed)
      /\ pending' = FramesLeft(SubSeq(line.bytes, q + 1, fed))
      /\ UNCHANGED <<call, residue>>
  BY <1>3, Zenon DEF Take, Emit
<1>7. m.raw = raw /\ m.frame_count = FramesReported
  BY DEF Build
<1> HIDE DEF m, raw
<1>8. /\ out' \in Seq({out[i] : i \in 1 .. Len(out)} \cup {m})
      /\ Len(out') = j
      /\ \A i \in 1 .. Len(out) : out'[i] = out[i]
      /\ out'[j] = m
  <2> DEFINE S == {out[i] : i \in 1 .. Len(out)} \cup {m}
  <2>1. out \in Seq(Message)
    BY DEF LInv, IInv, TypeOK
  <2>2. out \in Seq(S)
    <3>1. out = [i \in 1 .. Len(out) |-> out[i]]
      BY <2>1, LenProperties
    <3>2. [i \in 1 .. Len(out) |-> out[i]] \in [1 .. Len(out) -> S]
      OBVIOUS
    <3> HIDE DEF S
    <3> QED
      BY <1>2, <3>1, <3>2, SeqDef
  <2> HIDE DEF S
  <2>3. m \in S
    BY DEF S
  <2>4. /\ Append(out, m) \in Seq(S) /\ Len(Append(out, m)) = Len(out) + 1
        /\ \A i \in 1 .. Len(out) : Append(out, m)[i] = out[i]
        /\ Append(out, m)[Len(out) + 1] = m
    BY <2>2, <2>3, AppendProperties
  <2> QED
    BY <1>6, <2>4 DEF S
<1>9. out' # out
  BY <1>2, <1>8
<1>10. Len(buf') = fed - q /\ fed - Len(buf') = q
  <2>1. Len(SubSeq(line.bytes, q + 1, fed)) = fed - q
    BY <1>2, <1>3, <1>5, Stretches
  <2> HIDE DEF q
  <2> QED
    BY <1>2, <1>5, <1>6, <2>1
<1>11. spans' = Append(spans, span)
  <2>1. fed - Len(buf') + 1 - Len(out'[Len(out')].raw) = p + 1
    <3>1. Len(out'[Len(out')].raw) = c.len
      BY <1>3, <1>7, <1>8
    <3> QED
      BY <1>3, <1>10, <3>1
  <2> HIDE DEF p, q
  <2> QED
    BY <1>1, <1>9, <1>10, <2>1
<1>12. Consumed' = q
  BY <1>1, <1>10 DEF Consumed
<1> DEFINE Recorded == [first : Nat, last : Nat, frames : Nat]
<1>13. /\ spans' \in Seq(Recorded)
       /\ Len(spans') = j
       /\ \A i \in 1 .. Len(out) : spans'[i] = spans[i]
       /\ spans'[j] = span
  <2>1. spans \in Seq(Recorded) /\ Len(spans) = Len(out)
    BY DEF LInv, InOrder
  <2>2. span \in Recorded
    BY <1>3, <1>4, <1>5
  <2> HIDE DEF span, Recorded
  <2> QED
    BY <1>11, <2>1, <2>2, AppendProperties
<1>14. Buffered'
  <2>1. fed' \in 0 .. Len(line.bytes) /\ q \in 0 .. fed
    BY <1>1, <1>2, <1>3, <1>5
  <2> HIDE DEF q
  <2> QED
    BY <1>1, <1>6, <1>12, <2>1, Zenon DEF LInv, Buffered
<1>15. InOrder'
  <2>1. ASSUME NEW i \in 1 .. Len(out')
        PROVE  /\ spans'[i].first = line.genuine[i].first
               /\ spans'[i].last = line.genuine[i].last
               /\ out'[i].raw = Genuine(line, i)
               /\ out'[i].frame_count = spans'[i].frames
               /\ line.genuine[i].last <= q
    <3>1. CASE i = j
      <4>1. span.first = p + 1 /\ span.last = q /\ span.frames = FramesOf(p + 1, q)
        OBVIOUS
      <4> HIDE DEF span, p, q
      <4>2. q <= q
        BY <1>5
      <4> QED
        BY <1>3, <1>4, <1>7, <1>8, <1>13, <3>1, <4>1, <4>2
    <3>2. CASE i # j
      <4>1. i \in 1 .. Len(out)
        BY <1>2, <1>8, <3>2
      <4>2. /\ spans[i].first = line.genuine[i].first
            /\ spans[i].last = line.genuine[i].last
            /\ out[i].raw = Genuine(line, i)
            /\ out[i].frame_count = spans[i].frames
            /\ line.genuine[i].last <= Consumed
        BY <4>1, Zenon DEF LInv, InOrder
      <4>3. line.genuine[i].last \in Nat
        <5>1. i \in 1 .. Len(line.genuine)
          BY <1>2, <4>1
        <5> QED
          BY <5>1, MarksOfLine DEF LInv, Buffered
      <4>4. line.genuine[i].last <= q
        <5>1. \A a, d, e \in Nat : a <= d /\ d <= e => a <= e
          OBVIOUS
        <5>2. Consumed \in Nat
          BY <1>2
        <5> QED
          BY <1>5, <4>2, <4>3, <5>1, <5>2, Zenon
      <4> QED
        BY <1>8, <1>13, <4>1, <4>2, <4>4, Zenon
    <3> QED
      BY <3>1, <3>2
  <2>2. Len(out') <= Len(line.genuine)
    BY <1>3, <1>8
  <2>3. \A i : Genuine(line, i)' = Genuine(line, i)
    BY <1>1 DEF Genuine
  <2> HIDE DEF q, j
  <2> QED
    BY <1>1, <1>8, <1>12, <1>13, <2>1, <2>2, <2>3, Zenon DEF InOrder
<1>16. Ahead'
  <2>1. ASSUME NEW i \in Len(out') + 1 .. Len(line.genuine)
        PROVE  q < line.genuine[i].first
    <3>1. i \in 1 .. Len(line.genuine) /\ j < i
      BY <1>2, <1>8
    <3> HIDE DEF q, j
    <3> QED
      BY <1>3, <3>1, MarksOfLine DEF LInv, Buffered
  <2> HIDE DEF q
  <2> QED
    BY <1>1, <1>12, <2>1, Zenon DEF Ahead
<1>17. FramesInStep'
  <2>1. CASE ~Tunnelled
    <3>1. cuts = {}
      BY <2>1, Zenon DEF LInv, FramesInStep
    <3>2. cuts' = {} /\ pending' \in {0, 1}
      BY <1>1, <1>6, <3>1 DEF FramesLeft
    <3> QED
      BY <2>1, <3>2, Zenon DEF FramesInStep
  <2>2. CASE Tunnelled
    <3> DEFINE rest == SubSeq(line.bytes, q + 1, fed)
    <3>1. cuts' = IF q = fed THEN {} ELSE {fed}
      BY <1>1, <1>4, <1>10, <2>2, Zenon
    <3>2. rest = <<>> <=> q = fed
      <4>1. rest \in Seq(Byte) /\ Len(rest) = fed - q
        BY <1>2, <1>3, <1>5, Stretches
      <4> HIDE DEF rest, q
      <4>2. rest = <<>> <=> Len(rest) = 0
        BY <4>1, EmptySeq, LenProperties
      <4> QED
        BY <1>2, <1>5, <4>1, <4>2
    <3>3. pending' = IF q = fed THEN 0 ELSE 1
      BY <1>6, <3>2, Zenon DEF FramesLeft
    <3> HIDE DEF q
    <3>4. pending' = Cardinality(cuts')
      BY <3>1, <3>3, FS_EmptySet, FS_Singleton
    <3>5. /\ cuts' \subseteq q + 1 .. fed
          /\ q < fed => fed \in cuts'
          /\ \A d \in cuts' : d = fed
      BY <1>2, <1>3, <1>5, <3>1
    <3> QED
      BY <1>1, <1>6, <1>12, <2>2, <3>4, <3>5, Zenon DEF FramesInStep
  <2> QED
    BY <2>1, <2>2
<1>18. Promise!Deliver
  <2> DEFINE Sent == [i \in 1 .. Len(line.genuine) |-> Genuine(line, i)]
             Raws == [i \in 1 .. Len(out) |-> out[i].raw]
  <2>1. Len(Raws) = Len(out) /\ Len(Sent) = Len(line.genuine)
    BY <1>2
  <2>2. Sent[j] = raw
    BY <1>3
  <2>3. [i \in 1 .. Len(out') |-> out'[i].raw] = Append(Raws, raw)
    <3>1. Append(Raws, raw) = [i \in 1 .. j |-> IF i = j THEN raw ELSE Raws[i]]
      BY <1>2, <2>1
    <3>2. ASSUME NEW i \in 1 .. j
          PROVE  out'[i].raw = IF i = j THEN raw ELSE Raws[i]
      <4>1. CASE i = j
        BY <1>7, <1>8, <4>1
      <4>2. CASE i # j
        <5>1. i \in 1 .. Len(out)
          BY <1>2, <4>2
        <5> QED
          BY <1>8, <4>2, <5>1
      <4> QED
        BY <4>1, <4>2
    <3> QED
      BY <1>8, <3>1, <3>2
  <2>4. Sent' = Sent
    BY <1>1 DEF Genuine
  <2>5. Len(out) < Len(line.genuine)
    BY <1>2, <1>3
  <2> HIDE DEF Sent, raw
  <2>6. /\ Len(Raws) < Len(Sent)
        /\ Raws' = Append(Raws, Sent[Len(Raws) + 1])
        /\ Sent' = Sent
    BY <2>1, <2>2, <2>3, <2>4, <2>5
  <2> QED
    BY <2>6 DEF Promise!Deliver, Sent
<1> QED
  BY <1>14, <1>15, <1>16, <1>17, <1>18

\* Where a byte is dropped as junk, or a message guessed, none begins.
LEMMA HeadIsJunk ==
  ASSUME LInv, call # "none", NEW k \in 0 .. Len(buf), IsSkip(k),
         ~NeedMore(Drop(buf, k)), Valid(Drop(buf, k)) = {}
  PROVE  /\ ~OnlyMessages(line)
         /\ Consumed + k < fed
         /\ \A i \in Len(out) + 1 .. Len(line.genuine) :
              Consumed + k + 1 < line.genuine[i].first
<1> DEFINE p == Consumed + k
           b == Drop(buf, k)
<1>1. /\ fed \in Nat /\ Consumed \in Nat /\ Consumed <= fed
      /\ Len(out) \in Nat /\ Len(line.genuine) \in Nat
      /\ Len(out) <= Len(line.genuine)
      /\ fed <= Len(line.bytes) /\ line.bytes \in Seq(Byte)
  BY LineNumbers DEF LInv
<1>2. /\ p \in Consumed .. fed
      /\ b = SubSeq(line.bytes, p + 1, fed)
      /\ \A i \in Len(out) + 1 .. Len(line.genuine) : p < line.genuine[i].first
      /\ OnlyMessages(line) =>
           (p < fed => /\ Len(out) < Len(line.genuine)
                       /\ line.genuine[Len(out) + 1].first = p + 1)
  BY SkipKeeps DEF LInv
<1>3. Len(b) >= 4
  BY Zenon DEF NeedMore
<1> HIDE DEF p
<1>4. p < fed
  <2>1. Len(b) = fed - p
    BY <1>1, <1>2, Stretches
  <2> QED
    BY <1>1, <1>2, <1>3, <2>1
<1>5. ~Awaited(b)
  BY <1>3, Zenon DEF NeedMore
<1>6. ASSUME NEW i \in 1 .. Len(line.genuine), line.genuine[i].first = p + 1
      PROVE  FALSE
  <2>1. call \in {"none", "push", "finish"}
    BY DEF LInv, IInv, TypeOK
  <2> HIDE DEF b
  <2>2. IF line.genuine[i].last <= fed
        THEN Len(b) >= 4 /\ Valid(b) # {}
        ELSE Len(b) >= 4 => Awaited(b)
    BY <1>2, <1>6, <2>1, Arrival, Zenon DEF LInv
  <2> QED
    BY <1>3, <1>5, <2>2, Zenon DEF b
<1>7. ~OnlyMessages(line)
  <2> SUFFICES ASSUME OnlyMessages(line) PROVE FALSE
    OBVIOUS
  <2>1. Len(out) + 1 \in 1 .. Len(line.genuine)
    BY <1>1, <1>2, <1>4
  <2> QED
    BY <1>2, <1>4, <1>6, <2>1, Zenon
<1>8. ASSUME NEW i \in Len(out) + 1 .. Len(line.genuine)
      PROVE  p + 1 < line.genuine[i].first
  <2>1. i \in 1 .. Len(line.genuine)
    BY <1>1
  <2>2. line.genuine[i].first \in Nat
    BY <2>1, MarksOfLine DEF LInv, Buffered
  <2>3. p < line.genuine[i].first /\ line.genuine[i].first # p + 1
    BY <1>2, <1>6, <2>1, Zenon
  <2> QED
    BY <1>1, <1>2, <2>2, <2>3
<1> QED
  BY <1>4, <1>7, <1>8 DEF p

\* A push that returns has left no whole message at the head of the buffer.
LEMMA NothingWhole ==
  ASSUME LInv, call # "none", NEW k \in 0 .. Len(buf), IsSkip(k), OnlyMessages(line),
         NeedMore(Drop(buf, k)), Consumed < fed
  PROVE  k = 0 /\ NextPast(fed)
<1>1. /\ fed \in Nat /\ Consumed \in Nat /\ Consumed <= fed
      /\ Len(out) \in Nat /\ Len(line.genuine) \in Nat
      /\ Len(out) <= Len(line.genuine)
  BY LineNumbers DEF LInv
<1>2. /\ k = 0
      /\ Drop(buf, k) = SubSeq(line.bytes, Consumed + 1, fed)
      /\ Len(out) < Len(line.genuine)
      /\ line.genuine[Len(out) + 1].first = Consumed + 1
  <2> DEFINE p == Consumed + k
  <2>1. /\ Drop(buf, k) = SubSeq(line.bytes, p + 1, fed)
        /\ k = 0
        /\ p < fed => /\ Len(out) < Len(line.genuine)
                      /\ line.genuine[Len(out) + 1].first = p + 1
    BY SkipKeeps DEF LInv
  <2>2. p = Consumed
    BY <1>1, <2>1
  <2> HIDE DEF p
  <2> QED
    BY <2>1, <2>2
<1> DEFINE j == Len(out) + 1
           b == Drop(buf, k)
<1>3. j \in 1 .. Len(line.genuine)
  BY <1>1, <1>2
<1>4. ~(line.genuine[j].last <= fed)
  <2> SUFFICES ASSUME line.genuine[j].last <= fed PROVE FALSE
    OBVIOUS
  <2>1. call \in {"none", "push", "finish"} /\ Consumed \in Consumed .. fed
    BY <1>1 DEF LInv, IInv, TypeOK
  <2>2. Len(b) >= 4 /\ Valid(b) # {}
    <3> HIDE DEF b, j
    <3>1. IF line.genuine[j].last <= fed
          THEN Len(SubSeq(line.bytes, Consumed + 1, fed)) >= 4
               /\ Valid(SubSeq(line.bytes, Consumed + 1, fed)) # {}
          ELSE Len(SubSeq(line.bytes, Consumed + 1, fed)) >= 4
               => Awaited(SubSeq(line.bytes, Consumed + 1, fed))
      BY <1>2, <1>3, <2>1, Arrival, Zenon DEF LInv, j
    <3> QED
      BY <1>2, <3>1 DEF b
  <2> QED
    BY <2>2, Zenon DEF NeedMore
<1>5. fed < line.genuine[j].last
  <2>1. line.genuine[j].last \in Nat
    BY <1>3, MarksOfLine DEF LInv, Buffered
  <2> QED
    BY <1>1, <1>4, <2>1
<1> QED
  BY <1>2, <1>5 DEF NextPast

\* A pass that returns nothing.
LEMMA PassLine ==
  ASSUME LInv, IInv', Reassemble, NEW k \in 0 .. Len(buf), IsSkip(k),
         LET b == Drop(buf, k) IN DropByte(b) \/ ReturnFromPush(b) \/ ReturnFromFinish(b)
  PROVE  Buffered' /\ InOrder' /\ Ahead' /\ FramesInStep' /\ UNCHANGED <<line, out>>
<1> DEFINE p == Consumed + k
           b == Drop(buf, k)
<1>1. /\ fed \in Nat /\ Consumed \in Nat /\ Consumed <= fed
      /\ fed <= Len(line.bytes) /\ Len(line.bytes) \in Nat
      /\ line.bytes \in Seq(Byte)
      /\ Len(out) \in Nat /\ Len(line.genuine) \in Nat
      /\ Len(out) <= Len(line.genuine)
  BY LineNumbers DEF LInv
<1>2. /\ p \in Consumed .. fed
      /\ b = SubSeq(line.bytes, p + 1, fed)
      /\ \A i \in Len(out) + 1 .. Len(line.genuine) : p < line.genuine[i].first
  <2>1. call # "none"
    BY DEF Reassemble, DrainPass
  <2> QED
    BY <2>1, SkipKeeps DEF LInv
<1>3. /\ call # "none" /\ UNCHANGED <<line, fed, ended, out, spans>>
      /\ cuts' = {d \in cuts : d > fed - Len(buf')}
  <2>1. out' = out
    BY DEF DropByte, ReturnFromPush, ReturnFromFinish
  <2> QED
    BY <2>1, Zenon DEF Reassemble, DrainPass
<1>4. /\ call = "push" => ~ended
      /\ call = "finish" => ended /\ fed = Len(line.bytes)
      /\ ended \in BOOLEAN
  BY Zenon DEF LInv, Buffered
<1>5. Tunnelled => OnlyMessages(line)
  BY LineAssumption DEF LInv, Buffered
<1>6. \A n : n \in Nat /\ Consumed' = n => fed - Len(buf') = n
  <2>1. Consumed' = fed - Len(buf')
    BY <1>3 DEF Consumed
  <2> QED
    BY <2>1
<1>7. p \in Nat /\ Consumed <= p /\ p <= fed
  BY <1>1, <1>2
<1> HIDE DEF p
<1>8. Len(b) = fed - p /\ b \in Seq(Byte)
  BY <1>1, <1>2, <1>7, Stretches
<1>9. CASE DropByte(b)
  <2>1. call = "push" /\ NoMessage(b) /\ buf' = Drop(b, 1) /\ call' = call
        /\ pending' = pending
    BY <1>9, Zenon DEF DropByte
  <2>2. /\ ~OnlyMessages(line) /\ p < fed
        /\ \A i \in Len(out) + 1 .. Len(line.genuine) : p + 1 < line.genuine[i].first
    BY <1>3, <2>1, HeadIsJunk, Zenon DEF NoMessage, p
  <2> DEFINE q == p + 1
  <2>3. /\ q \in Nat /\ Consumed <= q /\ q <= fed /\ 1 \in 0 .. fed - p
        /\ \A i \in Len(out) + 1 .. Len(line.genuine) : q < line.genuine[i].first
    BY <1>1, <1>7, <2>2
  <2>4. buf' = SubSeq(line.bytes, q + 1, fed)
    BY <1>1, <1>2, <1>7, <2>1, <2>3, CutStretch
  <2> HIDE DEF q, b
  <2>5. Consumed' = q /\ Buffered' /\ InOrder' /\ Ahead'
    <3>1. ended' \in BOOLEAN /\ (call' = "push" => ~ended')
          /\ (call' = "finish" => ended' /\ fed = Len(line.bytes))
      BY <1>3, <1>4, <2>1, Zenon
    <3> QED
      BY <1>1, <1>3, <2>3, <2>4, <3>1, QuietStep, Zenon DEF LInv
  <2>6. FramesInStep'
    <3>1. ~Tunnelled
      BY <1>5, <2>2
    <3> QED
      BY <1>3, <2>1, <3>1 DEF LInv, FramesInStep
  <2> QED
    BY <1>3, <2>5, <2>6
<1>10. CASE ReturnFromPush(b)
  <2>1. call = "push" /\ NeedMore(b) /\ call' = "none" /\ pending' = pending
    BY <1>10, Zenon DEF ReturnFromPush
  <2>2. buf' = b
    <3>1. buf' = IF Len(b) > MAX_BUFFER THEN Drop(b, Len(b) - MAX_BUFFER) ELSE b
      BY <1>10, Zenon DEF ReturnFromPush
    <3>2. CASE Len(b) > MAX_BUFFER
      <4>1. buf' = Drop(b, Len(b) - MAX_BUFFER) /\ Len(buf') < 5 + MAX_DATA_BYTES
        BY <2>1, <3>1, <3>2 DEF IInv, BufferBounded
      <4>2. Len(b) - MAX_BUFFER \in 0 .. Len(b)
        BY <1>1, <1>7, <1>8, <3>2 DEF MAX_BUFFER, MAX_RTU_LEN
      <4> HIDE DEF b
      <4>3. Len(buf') = Len(b) - (Len(b) - MAX_BUFFER)
        BY <1>8, <4>1, <4>2, Cutting
      <4>4. Len(b) \in Nat
        BY <1>8, LenProperties
      <4> QED
        BY <4>1, <4>3, <4>4 DEF MAX_BUFFER, MAX_RTU_LEN, MAX_DATA_BYTES
    <3> QED
      BY <3>1, <3>2
  <2> HIDE DEF b
  <2>3. Consumed' = p /\ Buffered' /\ InOrder' /\ Ahead'
    <3>1. ended' \in BOOLEAN /\ (call' = "push" => ~ended')
          /\ (call' = "finish" => ended' /\ fed = Len(line.bytes))
      BY <1>3, <1>4, <2>1, Zenon
    <3>2. buf' = SubSeq(line.bytes, p + 1, fed)
      BY <1>2, <2>2
    <3> QED
      BY <1>1, <1>2, <1>3, <1>7, <3>1, <3>2, QuietStep, Zenon DEF LInv
  <2>4. FramesInStep'
    <3>1. CASE ~Tunnelled
      BY <1>3, <2>1, <3>1 DEF LInv, FramesInStep
    <3>2. CASE Tunnelled
      <4>1. /\ cuts \subseteq Consumed + 1 .. fed
            /\ pending = Cardinality(cuts)
            /\ Consumed < fed => fed \in cuts
            /\ \A c \in cuts : c = fed \/ NextPast(c)
        BY <3>2, Zenon DEF LInv, FramesInStep
      <4>2. k = 0
        <5>1. OnlyMessages(line)
          BY <1>5, <3>2
        <5> QED
          BY <1>3, <5>1, SkipKeeps DEF LInv
      <4>3. p = Consumed
        BY <1>1, <4>2 DEF p
      <4>4. cuts' = cuts
        <5>1. fed - Len(buf') = Consumed
          BY <1>1, <1>6, <2>3, <4>3
        <5>2. \A c \in cuts : c > Consumed
          BY <1>1, <4>1
        <5> QED
          BY <1>3, <5>1, <5>2
      <4>5. Consumed < fed => NextPast(fed)
        BY <1>3, <1>5, <2>1, <3>2, NothingWhole, Zenon DEF b
      <4>6. \A c : NextPast(c)' <=> NextPast(c)
        BY <1>3 DEF NextPast
      <4> QED
        BY <1>3, <2>1, <2>3, <3>2, <4>1, <4>3, <4>4, <4>5, <4>6, Zenon DEF FramesInStep
    <3> QED
      BY <3>1, <3>2
  <2> QED
    BY <1>3, <2>3, <2>4
<1>11. CASE ReturnFromFinish(b)
  <2>1. call = "finish" /\ buf' = <<>> /\ call' = "none" /\ pending' = 0
    BY <1>11, Zenon DEF ReturnFromFinish
  <2>2. buf' = SubSeq(line.bytes, fed + 1, fed)
    BY <1>1, <2>1, SubSeqEmpty
  <2> HIDE DEF b
  <2>3. Consumed' = fed /\ Buffered' /\ InOrder' /\ Ahead'
    <3>1. /\ ended' \in BOOLEAN /\ (call' = "push" => ~ended')
          /\ call' # "finish" /\ ended' /\ call' = "none" /\ fed <= fed
      BY <1>1, <1>3, <1>4, <2>1
    <3> QED
      BY <1>1, <1>3, <2>2, <3>1, QuietStep, Zenon DEF LInv
  <2>4. cuts' = {}
    <3>1. CASE ~Tunnelled
      BY <1>3, <3>1 DEF LInv, FramesInStep
    <3>2. CASE Tunnelled
      <4>1. cuts \subseteq Consumed + 1 .. fed
        BY <3>2, Zenon DEF LInv, FramesInStep
      <4>2. fed - Len(buf') = fed
        BY <1>1, <1>6, <2>3
      <4>3. cuts' = {d \in cuts : d > fed}
        BY <1>3, <4>2, Zenon
      <4>4. \A d \in cuts : ~(d > fed)
        BY <1>1, <4>1
      <4> QED
        BY <4>3, <4>4, Zenon
    <3> QED
      BY <3>1, <3>2
  <2>5. FramesInStep'
    <3>1. Cardinality({}) = 0 /\ ~(Consumed' < fed')
      BY <1>1, <1>3, <2>3, FS_EmptySet
    <3> QED
      BY <2>1, <2>4, <3>1 DEF FramesInStep
  <2> QED
    BY <1>3, <2>3, <2>5
<1> QED
  BY <1>9, <1>10, <1>11

LEMMA ReassembleStep ==
  ASSUME LInv, Reassemble
  PROVE  LInv' /\ (Promise!Deliver \/ UNCHANGED <<line, out>>)
<1>1. DrainPass /\ call # "none"
  BY DEF Reassemble, DrainPass
<1>2. IInv'
  BY <1>1, DrainStep DEF LInv
<1>3. PICK k \in 0 .. Len(buf) : IsSkip(k) /\ Pass(Drop(buf, k))
  BY <1>1 DEF DrainPass
<1>4. CASE TakeValid(Drop(buf, k))
  <2>1. PICK c \in Valid(Drop(buf, k)) :
          Len(Drop(buf, k)) >= 4 /\ Take(Drop(buf, k), c, TRUE)
    BY <1>4, Zenon DEF TakeValid
  <2> QED
    BY <1>2, <1>3, <2>1, TakeLine, Zenon DEF LInv
<1>5. CASE TakeGuess(Drop(buf, k))
  <2>1. ~NeedMore(Drop(buf, k)) /\ Valid(Drop(buf, k)) = {} /\ Guesses(Drop(buf, k)) # {}
    BY <1>5, Zenon DEF TakeGuess
  <2>2. ~OnlyMessages(line)
    BY <1>1, <1>3, <2>1, HeadIsJunk, Zenon
  <2>3. Policy = "Lenient"
    BY <2>1, Zenon DEF Guesses
  <2>4. OnlyMessages(line)
    BY <2>3, LineAssumption DEF LInv, Buffered
  <2> QED
    BY <2>2, <2>4
<1>6. CASE \/ DropByte(Drop(buf, k)) \/ ReturnFromPush(Drop(buf, k))
           \/ ReturnFromFinish(Drop(buf, k))
  BY <1>2, <1>3, <1>6, PassLine, Zenon DEF LInv
<1> QED
  BY <1>3, <1>4, <1>5, <1>6, Zenon DEF Pass

LEMMA LineInitHolds == LineInit => LInv /\ Promise!Init
<1> SUFFICES ASSUME LineInit PROVE LInv /\ Promise!Init
  OBVIOUS
<1>1. /\ buf = <<>> /\ out = <<>> /\ spans = <<>> /\ fed = 0 /\ ended = FALSE
      /\ cuts = {} /\ pending = 0 /\ call = "none" /\ line \in Lines /\ Init
  BY DEF LineInit, Init
<1>2. /\ Len(buf) = 0 /\ Len(out) = 0 /\ Len(spans) = 0
      /\ spans \in Seq([first : Nat, last : Nat, frames : Nat])
  BY <1>1, EmptySeq
<1>3. IInv
  BY <1>1, InitHolds
<1>4. Consumed = 0
  <2>1. fed = 0 /\ Len(buf) = 0
    BY <1>1, <1>2, Zenon
  <2> QED
    BY <2>1 DEF Consumed
<1>5. /\ Len(line.bytes) \in Nat /\ Len(line.genuine) \in Nat
      /\ \A i \in 1 .. Len(line.genuine) :
           line.genuine[i].first \in Nat /\ 1 <= line.genuine[i].first
  BY <1>1, MarksOfLine
<1>6. Buffered
  <2>1. SubSeq(line.bytes, 0 + 1, 0) = <<>>
    BY SubSeqEmpty
  <2>2. 0 \in 0 .. Len(line.bytes) /\ 0 \in 0 .. 0
    BY <1>5
  <2> QED
    BY <1>1, <1>4, <2>1, <2>2 DEF Buffered
<1>7. InOrder
  BY <1>1, <1>2, <1>5 DEF InOrder
<1>8. Ahead
  BY <1>2, <1>4, <1>5 DEF Ahead
<1>9. FramesInStep
  BY <1>1, <1>4, FS_EmptySet DEF FramesInStep
<1>10. Promise!Init
  BY <1>1, <1>2 DEF Promise!Init
<1> QED
  BY <1>3, <1>6, <1>7, <1>8, <1>9, <1>10 DEF LInv

\* Every step keeps the invariant, and delivers the next message or nothing.
LEMMA LineNextHolds ==
  ASSUME LInv, [LineNext]_lineVars
  PROVE  LInv' /\ (Promise!Deliver \/ UNCHANGED <<line, out>>)
<1>1. ASSUME NEW n \in ChunkSizes, Feed(n)
      PROVE  LInv' /\ UNCHANGED <<line, out>>
  <2>1. UNCHANGED <<line, out>>
    BY <1>1, Zenon DEF Feed, Push, PushBytes
  <2> QED
    BY <1>1, <2>1, FeedStep
<1>2. CASE EndOfStream
  <2>1. UNCHANGED <<line, out>>
    BY <1>2, Zenon DEF EndOfStream, Finish
  <2> QED
    BY <1>2, <2>1, EndStep
<1>3. CASE Reassemble
  BY <1>3, ReassembleStep
<1>4. CASE UNCHANGED lineVars
  <2>1. UNCHANGED vars
    BY <1>4 DEF lineVars, vars
  <2>2. IInv'
    BY <2>1, NextHolds DEF LInv
  <2>3. Consumed' = Consumed
    BY <1>4 DEF lineVars, Consumed
  <2>4. Buffered'
    BY <1>4, <2>3, Zenon DEF lineVars, LInv, Buffered
  <2>5. InOrder'
    BY <1>4, <2>3, Zenon DEF lineVars, LInv, InOrder, Genuine
  <2>6. Ahead'
    BY <1>4, <2>3, Zenon DEF lineVars, LInv, Ahead
  <2>7. FramesInStep'
    BY <1>4, <2>3, Zenon DEF lineVars, LInv, FramesInStep, NextPast
  <2> QED
    BY <1>4, <2>2, <2>4, <2>5, <2>6, <2>7 DEF lineVars, LInv
<1> QED
  BY <1>1, <1>2, <1>3, <1>4, Zenon DEF LineNext

LEMMA LineInvariance == LineSpec => []LInv
<1>1. LineInit => LInv
  BY LineInitHolds
<1>2. LInv /\ [LineNext]_lineVars => LInv'
  BY LineNextHolds
<1> QED
  BY <1>1, <1>2, PTL DEF LineSpec

-----------------------------------------------------------------------------
\* Mid-stream no byte of a message is ever discarded, whatever junk stands
\* between the messages and wherever the chunks are cut, and each message
\* reports the frames that brought it.
THEOREM MessagesAreKept == LineSpec => []GenuineKept
<1>1. LInv => GenuineKept
  <2> SUFFICES ASSUME LInv PROVE GenuineKept
    OBVIOUS
  <2>1. /\ Consumed \in Nat /\ Len(out) \in Nat /\ Len(line.genuine) \in Nat
        /\ Len(out) <= Len(line.genuine)
    BY LineNumbers DEF LInv
  <2>2. ASSUME ~ended, NEW i \in 1 .. Len(line.genuine), line.genuine[i].first <= Consumed
        PROVE  <<line.genuine[i].first, line.genuine[i].last>> \in Found
    <3>1. line.genuine[i].first \in Nat
      BY MarksOfLine DEF LInv, Buffered
    <3>2. ~(i \in Len(out) + 1 .. Len(line.genuine))
      <4> SUFFICES ASSUME i \in Len(out) + 1 .. Len(line.genuine) PROVE FALSE
        OBVIOUS
      <4>1. Consumed < line.genuine[i].first
        BY <2>2 DEF LInv, Ahead
      <4> QED
        BY <2>1, <2>2, <3>1, <4>1
    <3>3. i \in 1 .. Len(out)
      BY <2>1, <3>2
    <3>4. /\ spans[i].first = line.genuine[i].first
          /\ spans[i].last = line.genuine[i].last
          /\ i \in 1 .. Len(spans)
      BY <3>3 DEF LInv, InOrder
    <3> QED
      BY <3>4 DEF Found
  <2>3. \A i \in 1 .. Len(out) : out[i].frame_count = spans[i].frames
    BY Zenon DEF LInv, InOrder
  <2> QED
    BY <2>2, <2>3 DEF GenuineKept
<1> QED
  BY <1>1, LineInvariance, PTL

\* What is returned is the messages of the line, each once, whole and in
\* order: the reassembler implements FramedLine under any chunking.
THEOREM LineImplementsPromise == LineSpec => PromiseKept
<1>1. LineInit => Promise!Init
  BY LineInitHolds
<1> DEFINE Sent == [i \in 1 .. Len(line.genuine) |-> Genuine(line, i)]
           Raws == [i \in 1 .. Len(out) |-> out[i].raw]
<1>2. LInv /\ [LineNext]_lineVars => [Promise!Put \/ Promise!Deliver]_<<Sent, Raws>>
  <2> SUFFICES ASSUME LInv, [LineNext]_lineVars
               PROVE  [Promise!Put \/ Promise!Deliver]_<<Sent, Raws>>
    OBVIOUS
  <2>1. CASE Promise!Deliver
    BY <2>1
  <2>2. CASE UNCHANGED <<line, out>>
    BY <2>2 DEF Genuine
  <2> QED
    BY <2>1, <2>2, LineNextHolds
<1> QED
  BY <1>1, <1>2, LineInvariance, PTL DEF LineSpec, PromiseKept, Promise!Spec

\* A line is one of the byte streams ModbusRtuStream is specified for, so that
\* what holds of every stream, the bound of the buffer among it, holds here.
THEOREM LineIsAStream == LineSpec => Spec /\ []TypeOK /\ []BufferBounded
<1>1. LineInit => Init
  BY DEF LineInit
<1>2. LInv /\ [LineNext]_lineVars => [Next]_vars
  <2> SUFFICES ASSUME LInv, [LineNext]_lineVars PROVE [Next]_vars
    OBVIOUS
  <2>1. ASSUME NEW n \in ChunkSizes, Feed(n) PROVE Next
    <3> DEFINE chunk == SubSeq(line.bytes, fed + 1, fed + n)
    <3>1. Push(chunk) \/ PushBytes(chunk)
      BY <2>1, Zenon DEF Feed
    <3>2. chunk \in Seq(Byte)
      <4>1. /\ fed \in Nat /\ line.bytes \in Seq(Byte) /\ n \in Nat
            /\ fed + n <= Len(line.bytes)
        BY <2>1, LineNumbers, LineAssumption DEF LInv, Feed
      <4>2. fed + n \in Nat /\ fed <= fed + n
        BY <4>1
      <4> QED
        BY <4>1, <4>2, Stretches
    <3> HIDE DEF chunk
    <3> QED
      BY <3>1, <3>2, Zenon DEF Next
  <2>2. ASSUME EndOfStream PROVE Next
    BY <2>2 DEF EndOfStream, Next
  <2>3. ASSUME Reassemble PROVE Next
    BY <2>3 DEF Reassemble, Next
  <2>4. ASSUME UNCHANGED lineVars PROVE UNCHANGED vars
    BY <2>4 DEF lineVars, vars
  <2> QED
    BY <2>1, <2>2, <2>3, <2>4, Zenon DEF LineNext
<1>3. LInv => TypeOK /\ BufferBounded
  BY DEF LInv, IInv
<1> QED
  BY <1>1, <1>2, <1>3, LineInvariance, PTL DEF LineSpec, Spec
=============================================================================
