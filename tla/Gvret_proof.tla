---------------------------- MODULE Gvret_proof ----------------------------
(***************************************************************************)
(* Proofs about GVRET. First the two decoders, each fed any bytes in       *)
(* chunks of any size: what a call may leave buffered. Then a connection:  *)
(* what the device acts on is what the client asked, and what the host     *)
(* hears is what the device said.                                          *)
(***************************************************************************)
EXTENDS GvretLink, SequenceTheorems, FiniteSetTheorems, WellFoundedInduction, TLAPS

\* What is left of a byte string when its first n bytes are gone.
LEMMA Dropping ==
  ASSUME NEW b \in Seq(Byte), NEW n \in 0 .. Len(b)
  PROVE  /\ Drop(b, n) \in Seq(Byte)
         /\ Len(Drop(b, n)) = Len(b) - n
         /\ \A i \in 1 .. Len(b) - n : Drop(b, n)[i] = b[n + i]
<1>1. Len(b) \in Nat /\ \A i \in n + 1 .. Len(b) : b[i] \in Byte
  BY LenProperties, ElementOfSeq
<1>2. /\ SubSeq(b, n + 1, Len(b)) \in Seq(Byte)
      /\ Len(SubSeq(b, n + 1, Len(b))) =
           IF n + 1 <= Len(b) THEN Len(b) - (n + 1) + 1 ELSE 0
      /\ \A i \in 1 .. Len(b) - (n + 1) + 1 :
           SubSeq(b, n + 1, Len(b))[i] = b[n + 1 + i - 1]
  BY <1>1, SubSeqProperties
<1>3. \A i \in 1 .. Len(b) - n : n + 1 + i - 1 = n + i /\ i \in 1 .. Len(b) - (n + 1) + 1
  BY <1>1
<1> QED
  BY <1>1, <1>2, <1>3 DEF Drop

\* A byte is a number.
LEMMA BytesAreBytes ==
  ASSUME NEW b \in Seq(Byte)
  PROVE  Len(b) \in Nat /\ \A i \in 1 .. Len(b) : b[i] \in Byte /\ b[i] \in 0 .. 255
BY LenProperties, ElementOfSeq DEF Byte

-----------------------------------------------------------------------------
(* The host's decoder.                                                     *)

\* The longest message a device can announce has 64 bytes of payload.
LEMMA FrameLenBounded ==
  ASSUME NEW b \in Seq(Byte), Len(b) >= FRAME_HEADER
  PROVE  FrameLen(b) \in FRAME_HEADER .. FRAME_HEADER + 64
<1> DEFINE dlc == b[11]
           code == dlc % 16
           long == <<12, 16, 20, 24, 32, 48, 64>>
           len == FD_DLC_LEN[code]
<1>1. dlc \in 0 .. 255
  <2>1. Len(b) \in Nat /\ 11 \in 1 .. Len(b)
    BY LenProperties DEF FRAME_HEADER
  <2> QED
    BY <2>1, BytesAreBytes
<1> HIDE DEF dlc
<1>2. code \in 0 .. 15
  BY <1>1
<1> HIDE DEF code
<1>3. len \in 0 .. 64
  <2>1. len = IF code <= 8 THEN code ELSE long[code - 8]
    BY <1>2 DEF FD_DLC_LEN
  <2>2. \A n \in 1 .. 7 : long[n] \in 0 .. 64
    <3>1. \A n \in 1 .. 7 : n = 1 \/ n = 2 \/ n = 3 \/ n = 4 \/ n = 5 \/ n = 6 \/ n = 7
      OBVIOUS
    <3>2. /\ long[1] \in 0 .. 64 /\ long[2] \in 0 .. 64 /\ long[3] \in 0 .. 64
          /\ long[4] \in 0 .. 64 /\ long[5] \in 0 .. 64 /\ long[6] \in 0 .. 64
          /\ long[7] \in 0 .. 64
      OBVIOUS
    <3> HIDE DEF long
    <3> SUFFICES ASSUME NEW n \in 1 .. 7 PROVE long[n] \in 0 .. 64
      OBVIOUS
    <3> QED
      BY <3>1, <3>2, Zenon
  <2> HIDE DEF long
  <2>3. CASE code <= 8
    BY <1>2, <2>1, <2>3
  <2>4. CASE ~(code <= 8)
    <3>1. code - 8 \in 1 .. 7
      BY <1>2, <2>4
    <3> QED
      BY <2>1, <2>2, <2>4, <3>1
  <2> QED
    BY <2>3, <2>4
<1>4. FrameLen(b) = FRAME_HEADER + len
  BY Zenon DEF FrameLen, DlcToLen, dlc, code
<1> HIDE DEF len
<1> QED
  BY <1>3, <1>4 DEF FRAME_HEADER

LEMMA ReplyLenBounded == \A op \in Requests : ReplyLen(op) \in 3 .. 12
<1>1. ASSUME NEW op \in Requests
      PROVE  ReplyLen(op) \in {6, 12, 8, 4, 3}
  BY Zenon DEF Requests, ReplyLen
<1>2. \A n \in {6, 12, 8, 4, 3} : n \in 3 .. 12
  OBVIOUS
<1> QED
  BY <1>1, <1>2

HostTypeOK == hostBuf \in Seq(Byte) /\ reading \in BOOLEAN

\* HostBounded is inductive as it stands, given that bytes are buffered.
HostInv == HostTypeOK /\ HostBounded

\* An incomplete message is shorter than the longest one.
LEMMA IncompleteIsShort ==
  ASSUME NEW b \in Seq(Byte), Incomplete(b)
  PROVE  Len(b) <= FRAME_HEADER + 63
<1>1. Len(b) \in Nat
  BY LenProperties
<1>2. CASE Len(b) < 2
  BY <1>1, <1>2 DEF FRAME_HEADER
<1>3. CASE IsFrame(b) /\ (Len(b) >= FRAME_HEADER => Len(b) < FrameLen(b))
  <2>1. CASE Len(b) >= FRAME_HEADER
    <3>1. FrameLen(b) \in FRAME_HEADER .. FRAME_HEADER + 64
      BY <2>1, FrameLenBounded
    <3>2. \A n \in FRAME_HEADER .. FRAME_HEADER + 64, m \in Nat :
            m < n => m <= FRAME_HEADER + 63
      BY DEF FRAME_HEADER
    <3> QED
      BY <1>1, <1>3, <2>1, <3>1, <3>2, Zenon
  <2>2. CASE ~(Len(b) >= FRAME_HEADER)
    BY <1>1, <2>2 DEF FRAME_HEADER
  <2> QED
    BY <2>1, <2>2
<1>4. CASE IsReply(b) /\ Len(b) < ReplyLen(b[2])
  <2>1. ReplyLen(b[2]) \in 3 .. 12
    BY <1>4, ReplyLenBounded DEF IsReply
  <2> QED
    BY <1>1, <1>4, <2>1 DEF FRAME_HEADER
<1> QED
  BY <1>2, <1>3, <1>4 DEF Incomplete

\* A round leaves the loop only with an incomplete message, sync byte first.
LEMMA HostRoundHolds ==
  ASSUME HostTypeOK, reading,
         NEW k \in 0 .. Len(hostBuf), SyncAfter(k, hostBuf), HostRound(Drop(hostBuf, k))
  PROVE  HostInv'
<1> DEFINE b == Drop(hostBuf, k)
<1>1. hostBuf \in Seq(Byte) /\ Len(hostBuf) \in Nat
  BY LenProperties DEF HostTypeOK
<1>2. /\ b \in Seq(Byte) /\ Len(b) = Len(hostBuf) - k /\ Len(b) >= 1
      /\ b[1] = CMD
  <2>1. k < Len(hostBuf) /\ hostBuf[k + 1] = CMD
    BY DEF SyncAfter
  <2>2. /\ b \in Seq(Byte) /\ Len(b) = Len(hostBuf) - k
        /\ \A i \in 1 .. Len(hostBuf) - k : b[i] = hostBuf[k + i]
    BY <1>1, Dropping
  <2>3. Len(hostBuf) - k >= 1 /\ 1 \in 1 .. Len(hostBuf) - k
    BY <1>1, <2>1
  <2> QED
    BY <2>1, <2>2, <2>3
<1> HIDE DEF b
<1>3. HostTakeFrame(b) \/ HostTakeReply(b) \/ HostDropSync(b) \/ HostWait(b)
  BY DEF HostRound, b
<1>4. CASE HostTakeFrame(b)
  <2>1. Len(b) >= FRAME_HEADER /\ ~(Len(b) < FrameLen(b))
    BY <1>4, Zenon DEF HostTakeFrame, Incomplete
  <2>2. FrameLen(b) \in FRAME_HEADER .. FRAME_HEADER + 64 /\ Len(b) \in Nat
    BY <1>2, <2>1, FrameLenBounded, LenProperties
  <2>3. FrameLen(b) \in 0 .. Len(b)
    <3>1. \A n \in FRAME_HEADER .. FRAME_HEADER + 64, m \in Nat : ~(m < n) => n \in 0 .. m
      BY DEF FRAME_HEADER
    <3> QED
      BY <2>1, <2>2, <3>1, Zenon
  <2>4. hostBuf' \in Seq(Byte)
    BY <1>2, <1>4, <2>3, Dropping DEF HostTakeFrame
  <2> QED
    BY <1>4, <2>4 DEF HostTakeFrame, HostInv, HostTypeOK, HostBounded
<1>5. CASE HostTakeReply(b)
  <2>1. ~(Len(b) < ReplyLen(b[2])) /\ b[2] \in Requests
    BY <1>5, Zenon DEF HostTakeReply, Incomplete, IsReply
  <2>2. ReplyLen(b[2]) \in 3 .. 12 /\ Len(b) \in Nat
    BY <1>2, <2>1, ReplyLenBounded, LenProperties
  <2>3. ReplyLen(b[2]) \in 0 .. Len(b)
    BY <2>1, <2>2
  <2>4. hostBuf' \in Seq(Byte)
    BY <1>2, <1>5, <2>3, Dropping DEF HostTakeReply
  <2> QED
    BY <1>5, <2>4 DEF HostTakeReply, HostInv, HostTypeOK, HostBounded
<1>6. CASE HostDropSync(b)
  <2>1. hostBuf' \in Seq(Byte)
    BY <1>2, <1>6, Dropping, LenProperties DEF HostDropSync
  <2> QED
    BY <1>6, <2>1 DEF HostDropSync, HostInv, HostTypeOK, HostBounded
<1>7. CASE HostWait(b)
  <2>1. Len(b) \in 1 .. FRAME_HEADER + 63
    <3>1. Len(b) <= FRAME_HEADER + 63 /\ Len(b) \in Nat
      BY <1>2, <1>7, IncompleteIsShort, LenProperties DEF HostWait
    <3>2. \A n \in Nat : n >= 1 /\ n <= FRAME_HEADER + 63 => n \in 1 .. FRAME_HEADER + 63
      BY DEF FRAME_HEADER
    <3> QED
      BY <1>2, <3>1, <3>2, Zenon
  <2>2. hostBuf' = b /\ reading' = FALSE
    BY <1>7 DEF HostWait
  <2> QED
    BY <1>2, <2>1, <2>2, Zenon DEF HostInv, HostTypeOK, HostBounded
<1> QED
  BY <1>3, <1>4, <1>5, <1>6, <1>7

\* The empty buffer is bounded noise.
LEMMA EmptyIsBounded ==
  /\ <<>> \in Seq(Byte)
  /\ \A i \in 1 .. Len(<<>>) : <<>>[i] # CMD
  /\ Len(<<>>) <= MAX_RESYNC_BYTES
<1>1. Len(<<>>) = 0
  OBVIOUS
<1>2. \A i \in 1 .. 0 : FALSE
  OBVIOUS
<1>3. <<>> \in Seq(Byte)
  OBVIOUS
<1>4. 0 <= MAX_RESYNC_BYTES
  BY ResyncAssumption
<1> QED
  BY <1>1, <1>2, <1>3, <1>4

LEMMA HostStepHolds == HostInv /\ [HostNext]_hostVars => HostInv'
<1> SUFFICES ASSUME HostInv, [HostNext]_hostVars
             PROVE  HostInv'
  OBVIOUS
<1>1. HostTypeOK /\ hostBuf \in Seq(Byte) /\ Len(hostBuf) \in Nat
  BY LenProperties DEF HostInv, HostTypeOK
<1>2. ASSUME NEW chunk \in Seq(Byte), HostFeed(chunk)
      PROVE  HostInv'
  BY <1>1, <1>2, ConcatProperties DEF HostFeed, HostInv, HostTypeOK, HostBounded
<1>3. CASE reading /\ HostWaitForSync
  <2>1. CASE Len(hostBuf) > MAX_RESYNC_BYTES
    <3>1. hostBuf' = <<>> /\ reading' = FALSE
      BY <1>3, <2>1 DEF HostWaitForSync
    <3> QED
      BY <3>1, EmptyIsBounded, Zenon DEF HostInv, HostTypeOK, HostBounded
  <2>2. CASE ~(Len(hostBuf) > MAX_RESYNC_BYTES)
    <3>1. hostBuf' = hostBuf /\ ~reading' /\ reading' \in BOOLEAN
      BY <1>3, <2>2 DEF HostWaitForSync
    <3>2. Len(hostBuf) <= MAX_RESYNC_BYTES
      BY <1>1, <2>2, ResyncAssumption
    <3> QED
      BY <1>1, <1>3, <3>1, <3>2 DEF HostWaitForSync, HostInv, HostTypeOK, HostBounded
  <2> QED
    BY <2>1, <2>2
<1>4. ASSUME reading, NEW k \in 0 .. Len(hostBuf), SyncAfter(k, hostBuf),
             HostRound(Drop(hostBuf, k))
      PROVE  HostInv'
  BY <1>1, <1>4, HostRoundHolds
<1>5. CASE UNCHANGED hostVars
  BY <1>5 DEF hostVars, HostInv, HostTypeOK, HostBounded
<1> QED
  BY <1>2, <1>3, <1>4, <1>5 DEF HostNext, HostPass

\* For every device, honest or not, and every way its bytes are read: between
\* calls the host holds bounded noise or one incomplete message, at most 74
\* bytes, and never more.
THEOREM HostAlwaysBounded == HostSpec => []HostBounded
<1>1. HostInit => HostInv
  <2> SUFFICES ASSUME HostInit PROVE HostInv
    OBVIOUS
  <2> QED
    BY EmptyIsBounded DEF HostInit, HostInv, HostTypeOK, HostBounded
<1>2. HostInv => HostBounded
  BY DEF HostInv
<1> QED
  BY <1>1, <1>2, HostStepHolds, PTL DEF HostSpec

-----------------------------------------------------------------------------
(* The device's decoder: the scan for a handshake.                         *)

Paired(b, i) == b[i] = 231 /\ b[i + 1] = 231

NoPair(b) == \A i \in 1 .. Len(b) - 1 : ~Paired(b, i)

LEMMA SyncIsPair ==
  ASSUME NEW b \in Seq(Byte), NEW i \in 1 .. Len(b) - 1
  PROVE  SubSeq(b, i, i + 1) = SYNC <=> Paired(b, i)
<1>1. /\ Len(b) \in Nat /\ i \in Int /\ i + 1 \in Int
      /\ \A k \in i .. i + 1 : b[k] \in Byte
  <2>1. Len(b) \in Nat
    BY LenProperties
  <2>2. i \in Int /\ i + 1 \in Int /\ i .. i + 1 \subseteq 1 .. Len(b)
    BY <2>1
  <2> QED
    BY <2>1, <2>2, BytesAreBytes
<1>2. /\ SubSeq(b, i, i + 1) \in Seq(Byte)
      /\ Len(SubSeq(b, i, i + 1)) = 2
      /\ SubSeq(b, i, i + 1)[1] = b[i]
      /\ SubSeq(b, i, i + 1)[2] = b[i + 1]
  <2>1. /\ SubSeq(b, i, i + 1) \in Seq(Byte)
        /\ Len(SubSeq(b, i, i + 1)) = IF i <= i + 1 THEN i + 1 - i + 1 ELSE 0
        /\ \A k \in 1 .. i + 1 - i + 1 : SubSeq(b, i, i + 1)[k] = b[i + k - 1]
    BY <1>1, SubSeqProperties
  <2>2. /\ i <= i + 1 /\ i + 1 - i + 1 = 2 /\ i + 1 - 1 = i /\ i + 2 - 1 = i + 1
        /\ 1 \in 1 .. 2 /\ 2 \in 1 .. 2
    BY <1>1
  <2> QED
    BY <2>1, <2>2
<1>3. SYNC \in Seq(Byte) /\ Len(SYNC) = 2 /\ SYNC[1] = 231 /\ SYNC[2] = 231
  BY DEF SYNC, Byte
<1> DEFINE w == SubSeq(b, i, i + 1)
<1> HIDE DEF w
<1>4. w = SYNC <=> w[1] = 231 /\ w[2] = 231
  <2>1. w \in Seq(Byte) /\ Len(w) = 2
    BY <1>2 DEF w
  <2>2. ASSUME w[1] = 231, w[2] = 231
        PROVE  w = SYNC
    <3>1. Len(w) = Len(SYNC) /\ \A k \in 1 .. Len(w) : w[k] = SYNC[k]
      BY <1>3, <2>1, <2>2
    <3> QED
      BY <1>3, <2>1, <3>1, SeqEqual
  <2> QED
    BY <1>3, <2>2
<1> QED
  BY <1>2, <1>4 DEF w, Paired

LEMMA NoSyncIsNoPair ==
  ASSUME NEW b \in Seq(Byte)
  PROVE  NoPair(b) <=> \A i \in 1 .. Len(b) - 1 : SubSeq(b, i, i + 1) # SYNC
BY SyncIsPair DEF NoPair

\* A run of E7 from s to i, which begins there for a scan from "from".
IsRun(b, from, s, i) ==
  /\ \A k \in s .. i : b[k] = 231
  /\ s = from \/ b[s - 1] # 231

\* Every E7 at or after "from" belongs to a run that the scan sees begin.
LEMMA RunStart ==
  \A b \in Seq(Byte) : \A from \in Nat \ {0} : \A i \in from .. Len(b) :
    b[i] = 231 => \E s \in from .. i : IsRun(b, from, s, i)
<1> SUFFICES ASSUME NEW b \in Seq(Byte), NEW from \in Nat \ {0}, NEW i \in from .. Len(b),
                    b[i] = 231
             PROVE  \E s \in from .. i : IsRun(b, from, s, i)
  OBVIOUS
<1> DEFINE Starts(d) == i - d = from \/ b[i - d - 1] # 231
           T == {d \in 0 .. i - from : Starts(d)}
<1>1. Len(b) \in Nat /\ i \in Nat /\ i >= from
  BY LenProperties
<1>2. T \subseteq Nat /\ T # {}
  <2>1. i - from \in 0 .. i - from /\ i - (i - from) = from
    BY <1>1
  <2>2. i - from \in T
    BY <2>1
  <2>3. T \subseteq 0 .. i - from /\ 0 .. i - from \subseteq Nat
    BY <1>1
  <2> HIDE DEF T
  <2> QED
    BY <2>2, <2>3, Zenon
<1>3. PICK d \in T : \A e \in T : ~(e < d)
  <2> DEFINE Less == OpToRel(<, Nat)
  <2>1. IsWellFoundedOn(Less, Nat)
    BY NatLessThanWellFounded
  <2>2. \A x, y \in Nat : <<y, x>> \in Less <=> y < x
    BY DEF OpToRel
  <2> HIDE DEF Less, T
  <2>3. \E x \in T : \A y \in T : ~(<<y, x>> \in Less)
    BY <1>2, <2>1, WFMin
  <2> QED
    BY <1>2, <2>2, <2>3, Zenon
<1> DEFINE s == i - d
<1>4. d \in 0 .. i - from /\ s \in from .. i /\ (s = from \/ b[s - 1] # 231)
  BY <1>1, <1>3
<1>5. ASSUME NEW k \in s .. i
      PROVE  b[k] = 231
  <2>1. CASE k = i
    BY <2>1
  <2>2. CASE k # i
    <3>1. /\ i - (k + 1) \in 0 .. i - from
          /\ i - (k + 1) < d
          /\ i - (i - (k + 1)) = k + 1
          /\ i - (i - (k + 1)) - 1 = k
      BY <1>1, <1>4, <1>5, <2>2
    <3>2. i - (k + 1) \notin T
      BY <1>3, <3>1
    <3> QED
      BY <3>1, <3>2
  <2> QED
    BY <2>1, <2>2
<1>6. s \in from .. i /\ (s = from \/ b[s - 1] # 231) /\ \A k \in s .. i : b[k] = 231
  BY <1>4, <1>5, Zenon
<1> HIDE DEF s
<1> QED
  BY <1>6, Zenon DEF IsRun

\* Behind a pair of E7, or with its second byte, a handshake ends.
LEMMA PairIsFound ==
  ASSUME NEW b \in Seq(Byte), NEW from \in Nat \ {0}, NEW i \in from .. Len(b) - 1,
         Paired(b, i)
  PROVE  \E c \in SyncEnds(b, from) : c >= i
<1>1. Len(b) \in Nat /\ i \in Nat /\ i \in from .. Len(b) /\ i + 1 \in from .. Len(b)
  BY LenProperties
<1>2. PICK s \in from .. i : IsRun(b, from, s, i)
  <2>1. b[i] = 231
    BY DEF Paired
  <2> QED
    BY <1>1, <2>1, RunStart, Zenon
<1>3. \A k \in s .. i + 1 : b[k] = 231
  <2>1. \A k \in s .. i + 1 : k \in s .. i \/ k = i + 1
    BY <1>1, <1>2
  <2>2. \A k \in s .. i : b[k] = 231
    BY <1>2 DEF IsRun
  <2>3. b[i + 1] = 231
    BY DEF Paired
  <2> SUFFICES ASSUME NEW k \in s .. i + 1 PROVE b[k] = 231
    OBVIOUS
  <2>4. CASE k = i + 1
    BY <2>3, <2>4
  <2> QED
    BY <2>1, <2>2, <2>4
<1>4. (i - s + 1) % 2 = 0 \/ (i + 1 - s + 1) % 2 = 0
  <2>1. i - s + 1 \in Nat /\ i + 1 - s + 1 = (i - s + 1) + 1
    <3>1. i \in Int /\ s \in Int /\ s <= i
      BY <1>1, <1>2
    <3> QED
      BY <3>1
  <2>2. \A n \in Nat : n % 2 = 0 \/ (n + 1) % 2 = 0
    OBVIOUS
  <2> QED
    BY <2>1, <2>2, Zenon
<1>5. SYNC[1] = 231
  BY DEF SYNC
<1>6. CASE (i - s + 1) % 2 = 0
  <2>1. i \in from .. Len(b)
    BY <1>1
  <2>2. /\ \A k \in s .. i : b[k] = SYNC[1]
        /\ s = from \/ b[s - 1] # SYNC[1]
    BY <1>2, <1>5, Zenon DEF IsRun
  <2>3. i \in SyncEnds(b, from)
    BY <1>2, <1>6, <2>1, <2>2, Zenon DEF SyncEnds
  <2> QED
    BY <1>1, <2>3
<1>7. CASE (i + 1 - s + 1) % 2 = 0
  <2>1. s \in from .. i + 1
    BY <1>1, <1>2
  <2>2. i + 1 \in SyncEnds(b, from)
    BY <1>1, <1>2, <1>3, <1>5, <1>7, <2>1 DEF SyncEnds, IsRun
  <2> QED
    BY <1>1, <2>2
<1> QED
  BY <1>4, <1>6, <1>7

\* Behind a position with no pair after it, what is left holds none.
LEMMA PairsOfSuffix ==
  ASSUME NEW b \in Seq(Byte), NEW n \in 0 .. Len(b),
         \A i \in n + 1 .. Len(b) - 1 : ~Paired(b, i)
  PROVE  NoPair(Drop(b, n))
<1>1. Len(b) \in Nat
  BY LenProperties
<1>2. /\ Len(Drop(b, n)) = Len(b) - n
      /\ \A i \in 1 .. Len(b) - n : Drop(b, n)[i] = b[n + i]
  BY Dropping
<1> SUFFICES ASSUME NEW i \in 1 .. Len(b) - n - 1
             PROVE  ~Paired(Drop(b, n), i)
  BY <1>2 DEF NoPair
<1>3. /\ i \in 1 .. Len(b) - n /\ i + 1 \in 1 .. Len(b) - n
      /\ n + i \in n + 1 .. Len(b) - 1 /\ n + (i + 1) = n + i + 1
  BY <1>1
<1>4. Drop(b, n)[i] = b[n + i] /\ Drop(b, n)[i + 1] = b[n + i + 1]
  BY <1>2, <1>3
<1>5. ~Paired(b, n + i)
  BY <1>3
<1> QED
  BY <1>4, <1>5 DEF Paired

LEMMA DropKeepsNoPair ==
  ASSUME NEW b \in Seq(Byte), NEW n \in 0 .. Len(b), NoPair(b)
  PROVE  NoPair(Drop(b, n))
<1>1. Len(b) \in Nat
  BY LenProperties
<1>2. \A i \in n + 1 .. Len(b) - 1 : i \in 1 .. Len(b) - 1
  BY <1>1
<1>3. \A i \in n + 1 .. Len(b) - 1 : ~Paired(b, i)
  BY <1>2 DEF NoPair
<1> QED
  BY <1>3, PairsOfSuffix

\* The scan starts soon enough: a pair before it would lie in what was already
\* buffered.
LEMMA ScanMissesNothing ==
  ASSUME NEW old \in Seq(Byte), NEW chunk \in Seq(Byte), NoPair(old)
  PROVE  /\ ScanFrom(old) \in Nat \ {0}
         /\ \A i \in 1 .. Len(old \o chunk) - 1 :
              i < ScanFrom(old) => ~Paired(old \o chunk, i)
<1>1. /\ Len(old) \in Nat /\ Len(chunk) \in Nat
      /\ \A i \in 1 .. Len(old) : (old \o chunk)[i] = old[i]
  BY LenProperties, ConcatProperties
<1>2. CASE old = <<>>
  BY <1>2 DEF ScanFrom
<1>3. CASE old # <<>>
  <2>1. ScanFrom(old) = Len(old) /\ Len(old) # 0
    BY <1>3, EmptySeq DEF ScanFrom
  <2> SUFFICES ASSUME NEW i \in 1 .. Len(old \o chunk) - 1, i < Len(old)
               PROVE  ~Paired(old \o chunk, i)
    BY <1>1, <2>1
  <2>2. i \in Int /\ i >= 1
    BY <1>1, ConcatProperties
  <2>3. i \in 1 .. Len(old) /\ i + 1 \in 1 .. Len(old) /\ i \in 1 .. Len(old) - 1
    BY <1>1, <2>2
  <2>4. (old \o chunk)[i] = old[i] /\ (old \o chunk)[i + 1] = old[i + 1]
    BY <1>1, <2>3
  <2>5. ~Paired(old, i)
    BY <2>3 DEF NoPair
  <2> QED
    BY <2>4, <2>5 DEF Paired
<1> QED
  BY <1>2, <1>3

\* What the scan leaves buffered holds no pair, wherever the chunks were cut.
LEMMA ScanLeavesNoPair ==
  ASSUME NEW old \in Seq(Byte), NEW chunk \in Seq(Byte), NoPair(old)
  PROVE  LET b    == old \o chunk
             ends == SyncEnds(b, ScanFrom(old))
         IN  /\ b \in Seq(Byte)
             /\ ends = {} => NoPair(b)
             /\ \A c \in ends : (\A d \in ends : d <= c)
                  => c \in 0 .. Len(b) /\ NoPair(Drop(b, c))
<1> DEFINE b == old \o chunk
           from == ScanFrom(old)
           ends == SyncEnds(b, from)
<1>1. b \in Seq(Byte) /\ Len(b) \in Nat
  BY ConcatProperties, LenProperties
<1>2. /\ from \in Nat \ {0}
      /\ \A i \in 1 .. Len(b) - 1 : i < from => ~Paired(b, i)
  BY ScanMissesNothing
<1> HIDE DEF b, from
<1>3. \A i \in from .. Len(b) - 1 : Paired(b, i) => \E c \in ends : c >= i
  BY <1>1, <1>2, PairIsFound
<1>4. ends \subseteq from .. Len(b)
  BY DEF SyncEnds
<1> HIDE DEF ends
<1>5. ASSUME ends = {}
      PROVE  NoPair(b)
  <2> SUFFICES ASSUME NEW i \in 1 .. Len(b) - 1 PROVE ~Paired(b, i)
    BY DEF NoPair
  <2>1. CASE i < from
    BY <1>2, <2>1
  <2>2. CASE ~(i < from)
    <3>1. i \in from .. Len(b) - 1
      BY <1>1, <1>2, <2>2
    <3> QED
      BY <1>3, <1>5, <3>1
  <2> QED
    BY <2>1, <2>2
<1>6. ASSUME NEW c \in ends, \A d \in ends : d <= c
      PROVE  c \in 0 .. Len(b) /\ NoPair(Drop(b, c))
  <2>1. c \in 0 .. Len(b) /\ c >= from
    BY <1>1, <1>2, <1>4, <1>6
  <2>2. ASSUME NEW i \in c + 1 .. Len(b) - 1
        PROVE  ~Paired(b, i)
    <3>1. i \in from .. Len(b) - 1 /\ i > c
      BY <1>1, <1>2, <2>1
    <3>2. \A d \in ends : ~(d >= i)
      BY <1>1, <1>2, <1>4, <1>6, <2>1, <3>1
    <3> QED
      BY <1>3, <3>1, <3>2
  <2> QED
    BY <1>1, <2>1, <2>2, PairsOfSuffix
<1> QED
  BY <1>1, <1>5, <1>6 DEF b, from, ends

-----------------------------------------------------------------------------
(* The device's decoder: the rounds of a call.                             *)

DevTypeOK ==
  /\ binary \in BOOLEAN
  /\ serving \in BOOLEAN
  /\ devBuf \in Seq(Byte)

DevInv == DevTypeOK /\ DevBounded /\ NoPair(devBuf)

\* An unfinished command is shorter than the longest one.
LEMMA UnfinishedIsShort ==
  ASSUME NEW b \in Seq(Byte), Unfinished(b)
  PROVE  Len(b) < TRANSMIT_HEADER + 255
<1>1. Len(b) \in Nat
  BY LenProperties
<1>2. CASE ~(Len(b) >= TRANSMIT_HEADER)
  BY <1>1, <1>2 DEF TRANSMIT_HEADER
<1>3. CASE Len(b) >= TRANSMIT_HEADER
  <2>1. Len(b) < TRANSMIT_HEADER + b[8]
    BY <1>1, <1>3 DEF Unfinished, TransmitLen, TRANSMIT_HEADER
  <2>2. 8 \in 1 .. Len(b)
    BY <1>1, <1>3 DEF TRANSMIT_HEADER
  <2>3. b[8] \in 0 .. 255
    BY <2>2, BytesAreBytes
  <2>4. \A n \in 0 .. 255, m \in Nat : m < TRANSMIT_HEADER + n => m < TRANSMIT_HEADER + 255
    BY DEF TRANSMIT_HEADER
  <2> QED
    BY <1>1, <2>1, <2>3, <2>4, Zenon
<1> QED
  BY <1>2, <1>3

LEMMA DevRoundHolds ==
  ASSUME DevInv, serving, NEW k \in 0 .. Len(devBuf), Skippable(k, devBuf),
         DevRound(Drop(devBuf, k))
  PROVE  DevInv'
<1> DEFINE b == Drop(devBuf, k)
<1>1. b \in Seq(Byte) /\ Len(b) \in Nat /\ NoPair(b)
  BY Dropping, DropKeepsNoPair, LenProperties DEF DevInv, DevTypeOK
<1>2. b # <<>> => b[1] = CMD
  <2> SUFFICES ASSUME b # <<>> PROVE b[1] = CMD
    OBVIOUS
  <2>1. Len(devBuf) \in Nat /\ Len(b) = Len(devBuf) - k
        /\ \A i \in 1 .. Len(devBuf) - k : b[i] = devBuf[k + i]
    BY Dropping, LenProperties DEF DevInv, DevTypeOK
  <2>2. Len(b) # 0
    BY <1>1, EmptySeq
  <2> HIDE DEF b
  <2>3. k < Len(devBuf) /\ 1 \in 1 .. Len(devBuf) - k
    BY <1>1, <2>1, <2>2
  <2>4. b[1] = devBuf[k + 1]
    BY <2>1, <2>3
  <2> QED
    BY <2>3, <2>4 DEF Skippable
<1>3. \A n \in Nat : n <= Len(b) => Drop(b, n) \in Seq(Byte) /\ NoPair(Drop(b, n))
  <2> HIDE DEF b
  <2> SUFFICES ASSUME NEW n \in Nat, n <= Len(b)
               PROVE  Drop(b, n) \in Seq(Byte) /\ NoPair(Drop(b, n))
    OBVIOUS
  <2>1. n \in 0 .. Len(b)
    BY <1>1
  <2> QED
    BY <1>1, <2>1, Dropping, DropKeepsNoPair
<1> HIDE DEF b
<1>4. CASE DevTakeTransmit(b)
  <2>1. Len(b) >= TRANSMIT_HEADER /\ ~(Len(b) < TransmitLen(b))
    BY <1>1, <1>4 DEF DevTakeTransmit, Unfinished, TRANSMIT_HEADER
  <2>2. 8 \in 1 .. Len(b)
    BY <1>1, <2>1 DEF TRANSMIT_HEADER
  <2>3. b[8] \in 0 .. 255
    BY <1>1, <2>2, BytesAreBytes
  <2>4. TransmitLen(b) \in Nat /\ TransmitLen(b) <= Len(b)
    <3>1. \A n \in 0 .. 255 : TRANSMIT_HEADER + n \in Nat
      BY DEF TRANSMIT_HEADER
    <3>2. TransmitLen(b) \in Nat
      BY <2>3, <3>1, Zenon DEF TransmitLen
    <3> QED
      BY <1>1, <2>1, <3>2
  <2>5. devBuf' \in Seq(Byte) /\ NoPair(devBuf')
    BY <1>3, <1>4, <2>4 DEF DevTakeTransmit
  <2> QED
    BY <1>4, <2>5 DEF DevTakeTransmit, DevInv, DevTypeOK, DevBounded
<1>5. CASE DevTakeRequest(b)
  <2>1. 2 \in Nat /\ 2 <= Len(b)
    BY <1>1, <1>5 DEF DevTakeRequest, Unfinished
  <2>2. devBuf' \in Seq(Byte) /\ NoPair(devBuf')
    BY <1>3, <1>5, <2>1 DEF DevTakeRequest
  <2> QED
    BY <1>5, <2>2 DEF DevTakeRequest, DevInv, DevTypeOK, DevBounded
<1>6. CASE DevWait(b)
  <2>1. Len(b) < TRANSMIT_HEADER + 255
    BY <1>1, <1>6, UnfinishedIsShort DEF DevWait
  <2> QED
    BY <1>1, <1>2, <1>6, <2>1 DEF DevWait, DevInv, DevTypeOK, DevBounded
<1> QED
  BY <1>4, <1>5, <1>6 DEF DevRound, b

LEMMA DevStepHolds == DevInv /\ [DevNext]_devVars => DevInv'
<1> SUFFICES ASSUME DevInv, [DevNext]_devVars PROVE DevInv'
  OBVIOUS
<1>1. ASSUME NEW chunk \in Seq(Byte), DevFeed(chunk)
      PROVE  DevInv'
  <2>1. devBuf' \in Seq(Byte) /\ NoPair(devBuf')
    <3>1. devBuf \in Seq(Byte) /\ NoPair(devBuf)
      BY DEF DevInv, DevTypeOK
    <3> DEFINE b == devBuf \o chunk
               ends == SyncEnds(b, ScanFrom(devBuf))
    <3>2. /\ b \in Seq(Byte)
          /\ ends = {} => NoPair(b)
          /\ \A c \in ends : (\A d \in ends : d <= c)
               => c \in 0 .. Len(b) /\ NoPair(Drop(b, c))
      BY <3>1, ScanLeavesNoPair
    <3>3. \/ ends = {} /\ devBuf' = b
          \/ \E c \in ends : (\A d \in ends : d <= c) /\ devBuf' = Drop(b, c)
      BY <1>1, Zenon DEF DevFeed
    <3> HIDE DEF b, ends
    <3>4. CASE ends = {} /\ devBuf' = b
      BY <3>2, <3>4
    <3>5. CASE \E c \in ends : (\A d \in ends : d <= c) /\ devBuf' = Drop(b, c)
      <4>1. PICK c \in ends : (\A d \in ends : d <= c) /\ devBuf' = Drop(b, c)
        BY <3>5
      <4>2. c \in 0 .. Len(b) /\ NoPair(Drop(b, c))
        BY <3>2, <4>1
      <4> QED
        BY <3>2, <4>1, <4>2, Dropping
    <3> QED
      BY <3>3, <3>4, <3>5
  <2>2. binary' \in BOOLEAN /\ serving' = binary'
    BY <1>1, Zenon DEF DevFeed, DevInv, DevTypeOK
  <2> QED
    BY <2>1, <2>2 DEF DevInv, DevTypeOK, DevBounded
<1>2. CASE DevPass
  BY <1>2, DevRoundHolds DEF DevPass
<1>3. CASE UNCHANGED devVars
  BY <1>3 DEF devVars, DevInv, DevTypeOK, DevBounded, NoPair, Paired
<1> QED
  BY <1>1, <1>2, <1>3 DEF DevNext

LEMMA DevInitHolds == DevInit => DevInv
<1>1. <<>> \in Seq(Byte) /\ Len(<<>>) = 0
  BY EmptySeq
<1>2. NoPair(<<>>)
  BY <1>1 DEF NoPair
<1> QED
  BY <1>1, <1>2 DEF DevInit, DevInv, DevTypeOK, DevBounded

\* Once the client has said hello, a finished call leaves at most one unfinished
\* command in the device's buffer, whatever was fed and however it was cut.
THEOREM DevAlwaysBounded == DevSpec => []DevBounded
<1>1. DevInv => DevBounded
  BY DEF DevInv
<1> QED
  BY <1>1, DevInitHolds, DevStepHolds, PTL DEF DevSpec

\* No handshake is ever left in the device's buffer: starting the scan at the
\* last byte of what was buffered misses none, at every split of the chunks.
THEOREM NoSyncEverBuffered == DevSpec => []NoSyncBuffered
<1>1. DevInv => NoSyncBuffered
  BY NoSyncIsNoPair DEF DevInv, DevTypeOK, NoSyncBuffered
<1> QED
  BY <1>1, DevInitHolds, DevStepHolds, PTL DEF DevSpec

-----------------------------------------------------------------------------
(* What is on a line, and where its reader is.                             *)

Marks == [first : Nat, last : Nat]

\* Behind its first "from" bytes a line holds the messages marked, one behind
\* the other, each with a sync byte first, and no other sync byte.
Laid(line, from, where) ==
  /\ line \in Seq(Byte) /\ from \in 0 .. Len(line) /\ where \in Seq(Marks)
  /\ \A k \in 1 .. Len(where) :
       /\ from < where[k].first /\ where[k].first < where[k].last
       /\ where[k].last <= Len(line)
       /\ line[where[k].first] = CMD
       /\ \A l \in k + 1 .. Len(where) : where[k].last < where[l].first
  /\ \A i \in from + 1 .. Len(line) :
       (\A k \in 1 .. Len(where) : i < where[k].first \/ where[k].last < i) => line[i] # CMD

\* The first n of them lie within the first p bytes, the others behind those.
Between(where, n, p) ==
  /\ \A k \in 1 .. n : where[k].last <= p
  /\ \A k \in n + 1 .. Len(where) : p < where[k].first

Spelt(a) == IF a.op = OP_FRAME THEN EncodeTransmit(a) ELSE EncodeRequest(a.op)

\* What the client has sent: a handshake, of which the first q bytes are enough
\* to see it, and then the commands.
Speech(q) ==
  /\ q >= 2 /\ Laid(spoken, q, asks)
  /\ \A i \in 1 .. Len(spoken) - 1 : Paired(spoken, i) => i \in {q - 1, q}
  /\ Paired(spoken, q - 1)
  /\ asked \in Seq(Asks) /\ Len(asks) = Len(asked)
  /\ \A k \in 1 .. Len(asked) :
       SubSeq(spoken, asks[k].first, asks[k].last) = Spelt(asked[k])

DevAt == got - Len(devBuf)

\* What the device has made of it.
Understood(q) ==
  /\ got \in 0 .. Len(spoken) /\ DevAt \in 0 .. got
  /\ devBuf = SubSeq(spoken, DevAt + 1, got)
  /\ binary \in BOOLEAN /\ serving \in BOOLEAN
  /\ ~binary => DevAt = 0 /\ got < q /\ ~serving
  /\ binary => q <= DevAt
  /\ commands \in Seq(Asks) /\ Len(commands) <= Len(asked)
  /\ \A k \in 1 .. Len(commands) : commands[k] = asked[k]
  /\ Between(asks, Len(commands), DevAt)
  /\ ~serving => \A k \in Len(commands) + 1 .. Len(asked) : got < asks[k].last

DevLinkInv == \E q \in 0 .. Len(spoken) : Speech(q) /\ Understood(q)

-----------------------------------------------------------------------------
(* Stretches of a byte string.                                             *)

LEMMA Stretch ==
  ASSUME NEW s \in Seq(Byte), NEW i \in Nat \ {0}, NEW j \in Nat, i <= j + 1, j <= Len(s)
  PROVE  /\ SubSeq(s, i, j) \in Seq(Byte)
         /\ Len(SubSeq(s, i, j)) = j - i + 1
         /\ \A n \in 1 .. j - i + 1 : SubSeq(s, i, j)[n] = s[i + n - 1]
<1>1. Len(s) \in Nat /\ \A n \in 1 .. Len(s) : s[n] \in Byte
  BY LenProperties, ElementOfSeq
<1>2. i \in Int /\ j \in Int /\ \A n \in i .. j : n \in 1 .. Len(s)
  BY <1>1
<1>3. \A n \in i .. j : s[n] \in Byte
  BY <1>1, <1>2
<1>4. /\ SubSeq(s, i, j) \in Seq(Byte)
      /\ Len(SubSeq(s, i, j)) = IF i <= j THEN j - i + 1 ELSE 0
      /\ \A n \in 1 .. j - i + 1 : SubSeq(s, i, j)[n] = s[i + n - 1]
  BY <1>2, <1>3, SubSeqProperties
<1>5. (IF i <= j THEN j - i + 1 ELSE 0) = j - i + 1
  OBVIOUS
<1> QED
  BY <1>4, <1>5

\* A stretch cut is a stretch.
LEMMA CutStretch ==
  ASSUME NEW s \in Seq(Byte), NEW i \in Nat \ {0}, NEW j \in Nat, i <= j + 1, j <= Len(s),
         NEW k \in 0 .. j - i + 1
  PROVE  /\ Drop(SubSeq(s, i, j), k) = SubSeq(s, i + k, j)
         /\ Prefix(SubSeq(s, i, j), k) = SubSeq(s, i, i + k - 1)
<1> DEFINE b == SubSeq(s, i, j)
           p == i + k
           q == i + k - 1
<1>1. b \in Seq(Byte) /\ Len(b) = j - i + 1 /\ \A n \in 1 .. j - i + 1 : b[n] = s[i + n - 1]
  BY Stretch
<1> HIDE DEF b
<1>2. /\ p \in Nat \ {0} /\ p <= j + 1 /\ q \in Nat /\ i <= q + 1 /\ q <= Len(s)
      /\ k \in 0 .. Len(b) /\ k + 1 \in Nat \ {0} /\ k + 1 <= Len(b) + 1
      /\ k \in Nat /\ 1 \in Nat \ {0} /\ 1 <= k + 1 /\ k <= Len(b) /\ Len(b) \in Nat
  BY <1>1, LenProperties
<1>3. j - p + 1 = Len(b) - k /\ q - i + 1 = k /\ Len(b) - (k + 1) + 1 = Len(b) - k /\ k - 1 + 1 = k
  BY <1>1, <1>2
<1> HIDE DEF p, q
<1>4. Drop(b, k) = SubSeq(s, p, j)
  <2>1. /\ SubSeq(s, p, j) \in Seq(Byte) /\ Len(SubSeq(s, p, j)) = Len(b) - k
        /\ \A n \in 1 .. Len(b) - k : SubSeq(s, p, j)[n] = s[p + n - 1]
    <3>1. /\ SubSeq(s, p, j) \in Seq(Byte) /\ Len(SubSeq(s, p, j)) = j - p + 1
          /\ \A n \in 1 .. j - p + 1 : SubSeq(s, p, j)[n] = s[p + n - 1]
      BY <1>2, Stretch
    <3> QED
      BY <1>3, <3>1
  <2>2. /\ Drop(b, k) \in Seq(Byte) /\ Len(Drop(b, k)) = Len(b) - k
        /\ \A n \in 1 .. Len(b) - k : Drop(b, k)[n] = b[k + n]
    BY <1>1, <1>2, Dropping
  <2>3. \A n \in 1 .. Len(b) - k : b[k + n] = s[p + n - 1]
    <3> SUFFICES ASSUME NEW n \in 1 .. Len(b) - k PROVE b[k + n] = s[p + n - 1]
      OBVIOUS
    <3>1. k + n \in 1 .. j - i + 1 /\ i + (k + n) - 1 = p + n - 1
      BY <1>1, <1>2 DEF p
    <3> QED
      BY <1>1, <3>1
  <2> DEFINE d == Drop(b, k)
             e == SubSeq(s, p, j)
  <2> HIDE DEF d, e
  <2>4. d \in Seq(Byte) /\ e \in Seq(Byte) /\ Len(d) = Len(e)
        /\ \A n \in 1 .. Len(d) : d[n] = e[n]
    BY <2>1, <2>2, <2>3 DEF d, e
  <2> QED
    BY <2>4, SeqEqual DEF d, e
<1>5. Prefix(b, k) = SubSeq(s, i, q)
  <2>1. /\ SubSeq(s, i, q) \in Seq(Byte) /\ Len(SubSeq(s, i, q)) = k
        /\ \A n \in 1 .. k : SubSeq(s, i, q)[n] = s[i + n - 1]
    BY <1>2, <1>3, Stretch
  <2>2. /\ SubSeq(b, 1, k) \in Seq(Byte) /\ Len(SubSeq(b, 1, k)) = k
        /\ \A n \in 1 .. k : SubSeq(b, 1, k)[n] = b[1 + n - 1]
    BY <1>1, <1>2, <1>3, Stretch
  <2>3. \A n \in 1 .. k : 1 + n - 1 = n /\ n \in 1 .. j - i + 1
    BY <1>1, <1>2
  <2> DEFINE d == SubSeq(b, 1, k)
             e == SubSeq(s, i, q)
  <2> HIDE DEF d, e
  <2>4. d \in Seq(Byte) /\ e \in Seq(Byte) /\ Len(d) = Len(e)
        /\ \A n \in 1 .. Len(d) : d[n] = e[n]
    BY <1>1, <2>1, <2>2, <2>3 DEF d, e
  <2> QED
    BY <2>4, SeqEqual DEF d, e, Prefix
<1> QED
  BY <1>4, <1>5 DEF b, p, q

\* What is put behind a line leaves its stretches alone, and is a stretch.
LEMMA StretchGrows ==
  ASSUME NEW s \in Seq(Byte), NEW t \in Seq(Byte)
  PROVE  /\ s \o t \in Seq(Byte) /\ Len(s \o t) = Len(s) + Len(t)
         /\ \A i \in 1 .. Len(s) : (s \o t)[i] = s[i]
         /\ \A i \in 1 .. Len(t) : (s \o t)[Len(s) + i] = t[i]
         /\ \A i \in Nat \ {0}, j \in Nat :
              i <= j + 1 /\ j <= Len(s) => SubSeq(s \o t, i, j) = SubSeq(s, i, j)
         /\ \A n \in 0 .. Len(t) : SubSeq(s \o t, Len(s) + 1, Len(s) + n) = SubSeq(t, 1, n)
<1> DEFINE u == s \o t
           N == Len(s)
<1>1. /\ u \in Seq(Byte) /\ Len(u) = N + Len(t) /\ N \in Nat /\ Len(t) \in Nat
      /\ \A i \in 1 .. Len(u) : u[i] = IF i <= N THEN s[i] ELSE t[i - N]
  BY ConcatProperties, LenProperties
<1> HIDE DEF u, N
<1>2. /\ \A i \in 1 .. N : u[i] = s[i]
      /\ \A i \in 1 .. Len(t) : u[N + i] = t[i]
  <2>1. ASSUME NEW i \in 1 .. Len(t) PROVE u[N + i] = t[i]
    <3>1. N + i \in 1 .. Len(u) /\ ~(N + i <= N) /\ N + i - N = i
      BY <1>1
    <3> QED
      BY <1>1, <3>1
  <2>2. ASSUME NEW i \in 1 .. N PROVE u[i] = s[i]
    BY <1>1
  <2> QED
    BY <2>1, <2>2
<1>3. ASSUME NEW i \in Nat \ {0}, NEW j \in Nat, i <= j + 1, j <= N
      PROVE  SubSeq(u, i, j) = SubSeq(s, i, j)
  <2> DEFINE d == SubSeq(u, i, j)
             e == SubSeq(s, i, j)
  <2>1. j <= Len(u) /\ j <= Len(s)
    BY <1>1, <1>3 DEF N
  <2>2. /\ d \in Seq(Byte) /\ Len(d) = j - i + 1
        /\ \A n \in 1 .. j - i + 1 : d[n] = u[i + n - 1]
    BY <1>1, <1>3, <2>1, Stretch
  <2>3. /\ e \in Seq(Byte) /\ Len(e) = j - i + 1
        /\ \A n \in 1 .. j - i + 1 : e[n] = s[i + n - 1]
    BY <1>3, <2>1, Stretch
  <2>4. \A n \in 1 .. j - i + 1 : u[i + n - 1] = s[i + n - 1]
    <3>1. \A n \in 1 .. j - i + 1 : i + n - 1 \in 1 .. N
      BY <1>1, <1>3
    <3> QED
      BY <1>2, <3>1
  <2> HIDE DEF d, e
  <2>5. Len(d) = Len(e) /\ \A n \in 1 .. Len(d) : d[n] = e[n]
    BY <2>2, <2>3, <2>4
  <2> QED
    BY <2>2, <2>3, <2>5, SeqEqual DEF d, e
<1>4. ASSUME NEW n \in 0 .. Len(t)
      PROVE  SubSeq(u, N + 1, N + n) = SubSeq(t, 1, n)
  <2> DEFINE i == N + 1
             j == N + n
             d == SubSeq(u, i, j)
             e == SubSeq(t, 1, n)
  <2>1. i \in Nat \ {0} /\ j \in Nat /\ i <= j + 1 /\ j <= Len(u) /\ j - i + 1 = n
        /\ 1 \in Nat \ {0} /\ n \in Nat /\ 1 <= n + 1 /\ n <= Len(t) /\ n - 1 + 1 = n
    BY <1>1
  <2>2. \A m \in 1 .. n : i + m - 1 = N + m /\ 1 + m - 1 = m /\ m \in 1 .. Len(t)
    BY <1>1, <2>1
  <2> HIDE DEF i, j
  <2>3. d \in Seq(Byte) /\ Len(d) = n /\ \A m \in 1 .. n : d[m] = u[i + m - 1]
    BY <1>1, <2>1, Stretch
  <2>4. e \in Seq(Byte) /\ Len(e) = n /\ \A m \in 1 .. n : e[m] = t[1 + m - 1]
    BY <2>1, Stretch
  <2> HIDE DEF d, e
  <2>5. Len(d) = Len(e) /\ \A m \in 1 .. Len(d) : d[m] = e[m]
    BY <1>2, <2>2, <2>3, <2>4
  <2> QED
    BY <2>3, <2>4, <2>5, SeqEqual DEF d, e, i, j
<1> QED
  BY <1>1, <1>2, <1>3, <1>4 DEF u, N

\* A stretch goes on where it ended.
LEMMA StretchJoins ==
  ASSUME NEW s \in Seq(Byte), NEW i \in Nat \ {0}, NEW j \in Nat, NEW k \in Nat,
         i <= j + 1, j <= k, k <= Len(s)
  PROVE  SubSeq(s, i, j) \o SubSeq(s, j + 1, k) = SubSeq(s, i, k)
<1> DEFINE a == SubSeq(s, i, j)
           m == j + 1
           b == SubSeq(s, m, k)
           c == SubSeq(s, i, k)
<1>1. m \in Nat \ {0} /\ m <= k + 1 /\ j <= Len(s) /\ i <= k + 1 /\ m - 1 = j
  BY LenProperties
<1> HIDE DEF m
<1>2. a \in Seq(Byte) /\ Len(a) = j - i + 1 /\ \A n \in 1 .. j - i + 1 : a[n] = s[i + n - 1]
  BY <1>1, Stretch
<1>3. b \in Seq(Byte) /\ Len(b) = k - m + 1 /\ \A n \in 1 .. k - m + 1 : b[n] = s[m + n - 1]
  BY <1>1, Stretch
<1>4. c \in Seq(Byte) /\ Len(c) = k - i + 1 /\ \A n \in 1 .. k - i + 1 : c[n] = s[i + n - 1]
  BY <1>1, Stretch
<1> HIDE DEF a, b, c
<1>5. /\ a \o b \in Seq(Byte) /\ Len(a \o b) = Len(a) + Len(b)
      /\ \A n \in 1 .. Len(a) : (a \o b)[n] = a[n]
      /\ \A n \in 1 .. Len(b) : (a \o b)[Len(a) + n] = b[n]
  BY <1>2, <1>3, StretchGrows
<1>6. Len(a) + Len(b) = k - i + 1
  BY <1>1, <1>2, <1>3
<1>7. ASSUME NEW n \in 1 .. k - i + 1 PROVE (a \o b)[n] = c[n]
  <2>1. CASE n <= j - i + 1
    <3>1. n \in 1 .. j - i + 1 /\ n \in 1 .. Len(a)
      BY <1>1, <1>2, <2>1
    <3>2. (a \o b)[n] = a[n] /\ a[n] = s[i + n - 1]
      BY <1>2, <1>5, <3>1
    <3> QED
      BY <1>4, <3>2
  <2>2. CASE n > j - i + 1
    <3> DEFINE h == n - (j - i + 1)
    <3>1. h \in 1 .. k - m + 1 /\ Len(a) + h = n /\ m + h - 1 = i + n - 1
      BY <1>1, <1>2, <2>2
    <3> HIDE DEF h
    <3>2. h \in 1 .. Len(b)
      BY <1>3, <3>1
    <3>3. (a \o b)[n] = b[h] /\ b[h] = s[i + n - 1]
      BY <1>3, <1>5, <3>1, <3>2
    <3> QED
      BY <1>4, <3>3
  <2>3. n <= j - i + 1 \/ n > j - i + 1
    OBVIOUS
  <2> QED
    BY <2>1, <2>2, <2>3
<1>8. Len(a \o b) = Len(c) /\ \A n \in 1 .. Len(a \o b) : (a \o b)[n] = c[n]
  BY <1>4, <1>5, <1>6, <1>7
<1>9. a \o b = c
  BY <1>4, <1>5, <1>8, SeqEqual
<1> QED
  BY <1>9 DEF a, b, c, m

\* The numbers of a line.
LEMMA LaidNumbers ==
  ASSUME NEW line, NEW from, NEW where, Laid(line, from, where)
  PROVE  /\ line \in Seq(Byte) /\ Len(line) \in Nat /\ from \in Nat /\ from <= Len(line)
         /\ where \in Seq(Marks) /\ Len(where) \in Nat
         /\ \A k \in 1 .. Len(where) : where[k].first \in Nat /\ where[k].last \in Nat
<1>1. line \in Seq(Byte) /\ from \in 0 .. Len(line) /\ where \in Seq(Marks)
  BY Zenon DEF Laid
<1>2. Len(line) \in Nat /\ Len(where) \in Nat /\ \A k \in 1 .. Len(where) : where[k] \in Marks
  BY <1>1, LenProperties, ElementOfSeq
<1>3. \A m \in Marks : m.first \in Nat /\ m.last \in Nat
  BY DEF Marks
<1>4. from \in Nat /\ from <= Len(line)
  BY <1>1, <1>2
<1> QED
  BY <1>1, <1>2, <1>3, <1>4, Zenon

LEMMA LaidOrder ==
  ASSUME NEW line, NEW from, NEW where, Laid(line, from, where), NEW k \in 1 .. Len(where)
  PROVE  /\ from < where[k].first /\ where[k].first < where[k].last
         /\ where[k].last <= Len(line) /\ line[where[k].first] = CMD
         /\ \A l \in k + 1 .. Len(where) : where[k].last < where[l].first
BY Zenon DEF Laid

\* A reader between two messages that passes over what is no sync byte stays
\* there, and the sync byte it finds begins the next.
LEMMA NextFound ==
  ASSUME NEW line, NEW from, NEW where, Laid(line, from, where),
         NEW n \in 0 .. Len(where), NEW p \in from .. Len(line), Between(where, n, p),
         NEW q \in p .. Len(line), \A i \in p + 1 .. q : line[i] # CMD
  PROVE  /\ Between(where, n, q)
         /\ q < Len(line) /\ line[q + 1] = CMD =>
              n < Len(where) /\ where[n + 1].first = q + 1
<1>1. /\ Len(line) \in Nat /\ from \in Nat /\ Len(where) \in Nat
      /\ \A k \in 1 .. Len(where) : where[k].first \in Nat /\ where[k].last \in Nat
  BY LaidNumbers
<1>2. n \in Nat /\ n <= Len(where) /\ p \in Nat /\ from <= p /\ q \in Nat /\ p <= q /\ q <= Len(line)
  BY <1>1
<1>3. \A k \in 1 .. n : where[k].last <= q
  <2> SUFFICES ASSUME NEW k \in 1 .. n PROVE where[k].last <= q
    OBVIOUS
  <2>1. k \in 1 .. Len(where)
    BY <1>1, <1>2
  <2>2. where[k].last \in Nat /\ where[k].last <= p
    BY <1>1, <2>1 DEF Between
  <2> QED
    BY <1>2, <2>2
<1>4. \A k \in n + 1 .. Len(where) : q < where[k].first
  <2> SUFFICES ASSUME NEW k \in n + 1 .. Len(where), ~(q < where[k].first) PROVE FALSE
    OBVIOUS
  <2>1. k \in 1 .. Len(where)
    BY <1>1, <1>2
  <2>2. p < where[k].first /\ where[k].first \in Nat
    BY <1>1, <2>1 DEF Between
  <2>3. where[k].first \in p + 1 .. q
    BY <1>2, <2>2
  <2>4. line[where[k].first] = CMD
    BY <2>1, LaidOrder
  <2> QED
    BY <2>3, <2>4
<1>5. ASSUME q < Len(line), line[q + 1] = CMD
      PROVE  n < Len(where) /\ where[n + 1].first = q + 1
  <2>1. q + 1 \in from + 1 .. Len(line)
    BY <1>1, <1>2, <1>5
  <2>2. PICK k \in 1 .. Len(where) : ~(q + 1 < where[k].first \/ where[k].last < q + 1)
    BY <1>5, <2>1, Zenon DEF Laid
  <2>3. where[k].first \in Nat /\ where[k].last \in Nat
    BY <1>1
  <2>4. k > n
    <3>1. CASE k \in 1 .. n
      BY <1>2, <1>3, <2>2, <2>3, <3>1
    <3> QED
      BY <1>1, <1>2, <3>1
  <2>5. where[k].first = q + 1
    <3>1. q < where[k].first
      BY <1>1, <1>2, <1>4, <2>4
    <3> QED
      BY <1>2, <2>2, <2>3, <3>1
  <2>6. CASE k > n + 1
    <3>1. n + 1 \in 1 .. Len(where) /\ n + 1 \in n + 1 .. Len(where) /\ k \in n + 1 + 1 .. Len(where)
      BY <1>1, <1>2, <2>6
    <3> DEFINE l == n + 1
    <3>2. where[l].last < where[k].first /\ where[l].first < where[l].last
      <4> HIDE DEF l
      <4>1. l \in 1 .. Len(where) /\ k \in l + 1 .. Len(where)
        BY <3>1 DEF l
      <4> QED
        BY <4>1, LaidOrder
    <3>3. q < where[l].first /\ where[l].first \in Nat /\ where[l].last \in Nat
      BY <1>1, <1>4, <3>1
    <3> HIDE DEF l
    <3> QED
      BY <1>2, <2>5, <3>2, <3>3
  <2>7. k = n + 1 \/ k > n + 1
    BY <1>1, <1>2, <2>4
  <2>8. k <= Len(where)
    BY <1>1
  <2> QED
    BY <1>1, <1>2, <2>4, <2>5, <2>6, <2>7, <2>8
<1> QED
  BY <1>3, <1>4, <1>5 DEF Between

\* A message put behind a line, with a checksum behind it or none.
Grown(line, from, where, new, to, mark, bytes) ==
  /\ Laid(new, from, to)
  /\ Len(to) = Len(where) + 1 /\ to[Len(where) + 1] = mark
  /\ SubSeq(new, mark.first, mark.last) = bytes
  /\ \A k \in 1 .. Len(where) :
       /\ to[k] = where[k]
       /\ SubSeq(new, where[k].first, where[k].last) = SubSeq(line, where[k].first, where[k].last)

LEMMA LineGrows ==
  ASSUME NEW line, NEW from, NEW where, Laid(line, from, where),
         NEW bytes \in Seq(Byte), Len(bytes) >= 2, bytes[1] = CMD,
         NEW rest \in Seq(Byte), \A i \in 1 .. Len(rest) : rest[i] # CMD
  PROVE  Grown(line, from, where, line \o (bytes \o rest),
               Append(where, Behind(line, Len(bytes))), Behind(line, Len(bytes)), bytes)
<1> DEFINE mark == Behind(line, Len(bytes))
           tail == bytes \o rest
           new == line \o tail
           to == Append(where, mark)
           N == Len(line)
           M == Len(where)
           L == Len(bytes)
<1>1. /\ line \in Seq(Byte) /\ N \in Nat /\ from \in Nat /\ from <= N
      /\ where \in Seq(Marks) /\ M \in Nat
      /\ \A k \in 1 .. M : where[k].first \in Nat /\ where[k].last \in Nat
  BY LaidNumbers
<1>2. L \in Nat /\ Len(rest) \in Nat
  BY LenProperties
<1>3. /\ tail \in Seq(Byte) /\ Len(tail) = L + Len(rest)
      /\ \A i \in 1 .. L : tail[i] = bytes[i]
      /\ \A i \in 1 .. Len(rest) : tail[L + i] = rest[i]
      /\ SubSeq(tail, 1, L) = SubSeq(bytes, 1, L)
  <2>1. 1 \in Nat \ {0} /\ L \in Nat /\ 1 <= L + 1 /\ L <= Len(bytes)
    BY <1>2
  <2> QED
    BY <2>1, StretchGrows
<1>4. SubSeq(bytes, 1, L) = bytes
  <2>1. /\ SubSeq(bytes, 1, L) \in Seq(Byte) /\ Len(SubSeq(bytes, 1, L)) = L - 1 + 1
        /\ \A i \in 1 .. L - 1 + 1 : SubSeq(bytes, 1, L)[i] = bytes[1 + i - 1]
    BY <1>2, Stretch
  <2> DEFINE d == SubSeq(bytes, 1, L)
  <2> HIDE DEF d
  <2>2. d \in Seq(Byte) /\ Len(d) = L /\ \A i \in 1 .. L : d[i] = bytes[i]
    BY <1>2, <2>1 DEF d
  <2>3. \A i \in 1 .. Len(d) : d[i] = bytes[i]
    BY <2>2
  <2> HIDE DEF L
  <2> QED
    BY <2>2, <2>3, SeqEqual DEF d, L
<1> HIDE DEF tail
<1>5. /\ new \in Seq(Byte) /\ Len(new) = N + L + Len(rest)
      /\ \A i \in 1 .. N : new[i] = line[i]
      /\ \A i \in 1 .. Len(tail) : new[N + i] = tail[i]
      /\ \A i \in Nat \ {0}, j \in Nat :
           i <= j + 1 /\ j <= N => SubSeq(new, i, j) = SubSeq(line, i, j)
      /\ \A n \in 0 .. Len(tail) : SubSeq(new, N + 1, N + n) = SubSeq(tail, 1, n)
  <2> DEFINE u == line \o tail
  <2>1. /\ u \in Seq(Byte) /\ Len(u) = Len(line) + Len(tail)
        /\ \A i \in 1 .. Len(line) : u[i] = line[i]
        /\ \A i \in 1 .. Len(tail) : u[Len(line) + i] = tail[i]
        /\ \A i \in Nat \ {0}, j \in Nat :
             i <= j + 1 /\ j <= Len(line) => SubSeq(u, i, j) = SubSeq(line, i, j)
        /\ \A n \in 0 .. Len(tail) : SubSeq(u, Len(line) + 1, Len(line) + n) = SubSeq(tail, 1, n)
    BY <1>1, <1>3, StretchGrows
  <2>2. \A a, b, c \in Nat : a + (b + c) = a + b + c
    OBVIOUS
  <2>3. N + (L + Len(rest)) = N + L + Len(rest)
    BY <1>1, <1>2, <2>2
  <2>4. u = new
    OBVIOUS
  <2> HIDE DEF u, new, N, L
  <2>5. Len(u) = N + Len(tail)
    BY <2>1 DEF N
  <2>6. Len(u) = N + L + Len(rest)
    BY <1>3, <2>3, <2>5, Zenon
  <2> QED
    BY <2>1, <2>4, <2>6, Zenon DEF N
<1> HIDE DEF new, N, L
<1>6. mark.first = N + 1 /\ mark.last = N + L /\ mark \in Marks
  <2>1. N + 1 \in Nat /\ N + L \in Nat
    BY <1>1, <1>2
  <2>2. mark = [first |-> N + 1, last |-> N + L]
    BY DEF Behind, N, L
  <2> HIDE DEF mark
  <2> QED
    BY <2>1, <2>2 DEF Marks
<1> HIDE DEF mark
<1>7. /\ to \in Seq(Marks) /\ Len(to) = M + 1 /\ to[M + 1] = mark
      /\ \A k \in 1 .. M : to[k] = where[k]
  BY <1>1, <1>6, AppendProperties
<1> HIDE DEF to, M
<1>8. ASSUME NEW k \in 1 .. M
      PROVE  /\ from < where[k].first /\ where[k].first < where[k].last
             /\ where[k].last <= N /\ line[where[k].first] = CMD
             /\ \A l \in k + 1 .. M : where[k].last < where[l].first
  BY LaidOrder DEF M, N
<1>9. ASSUME NEW k \in 1 .. M + 1
      PROVE  /\ from < to[k].first /\ to[k].first < to[k].last /\ to[k].last <= Len(new)
             /\ new[to[k].first] = CMD
             /\ \A l \in k + 1 .. M + 1 : to[k].last < to[l].first
  <2>1. CASE k \in 1 .. M
    <3>1. /\ to[k] = where[k] /\ where[k].first \in Nat /\ where[k].last \in Nat
          /\ from < where[k].first /\ where[k].first < where[k].last
          /\ where[k].last <= N /\ line[where[k].first] = CMD
      BY <1>1, <1>7, <1>8, <2>1
    <3>2. where[k].first \in 1 .. N /\ where[k].last <= Len(new)
      <4>1. \A f, a, b, c, d, e \in Nat : f < a /\ a < b /\ b <= c => a \in 1 .. c /\ b <= c + d + e
        OBVIOUS
      <4>2. where[k].first \in 1 .. N /\ where[k].last <= N + L + Len(rest)
        BY <1>1, <1>2, <3>1, <4>1
      <4> QED
        BY <1>5, <4>2
    <3>3. new[where[k].first] = CMD
      BY <1>5, <3>1, <3>2
    <3>4. ASSUME NEW l \in k + 1 .. M + 1 PROVE where[k].last < to[l].first
      <4>1. CASE l = M + 1
        <5>1. to[l].first = N + 1
          BY <1>6, <1>7, <4>1, Zenon
        <5>2. \A a, b \in Nat : a <= b => a < b + 1
          OBVIOUS
        <5>3. where[k].last < N + 1
          BY <1>1, <3>1, <5>2
        <5> QED
          BY <5>1, <5>3
      <4>2. CASE l # M + 1
        <5>1. l \in k + 1 .. M /\ l \in 1 .. M
          <6>1. \A a \in Nat : \A x \in 1 .. a : \A y \in x + 1 .. a + 1 :
                  y # a + 1 => y \in x + 1 .. a /\ y \in 1 .. a
            OBVIOUS
          <6> QED
            BY <1>1, <2>1, <4>2, <6>1
        <5> QED
          BY <1>7, <1>8, <2>1, <5>1
      <4> QED
        BY <4>1, <4>2
    <3> QED
      BY <3>1, <3>2, <3>3, <3>4
  <2>2. CASE k = M + 1
    <3>1. to[k].first = N + 1 /\ to[k].last = N + L
      BY <1>6, <1>7, <2>2
    <3>2. new[N + 1] = CMD
      <4>1. 1 \in 1 .. Len(tail) /\ 1 \in 1 .. L
        BY <1>2, <1>3 DEF L
      <4>2. tail[1] = CMD
        BY <1>3, <4>1
      <4> QED
        BY <1>5, <4>1, <4>2
    <3>3. from < N + 1 /\ N + 1 < N + L /\ N + L <= Len(new)
      BY <1>1, <1>2, <1>5 DEF L
    <3>4. \A l \in M + 2 .. M + 1 : FALSE
      BY <1>1
    <3>5. k + 1 = M + 2
      BY <1>1, <2>2
    <3> QED
      BY <3>1, <3>2, <3>3, <3>4, <3>5
  <2> QED
    BY <1>1, <2>1, <2>2
<1>10. ASSUME NEW i \in from + 1 .. Len(new),
              \A k \in 1 .. M + 1 : i < to[k].first \/ to[k].last < i
       PROVE  new[i] # CMD
  <2>1. CASE i <= N
    <3>1. i \in from + 1 .. N /\ i \in 1 .. N
      BY <1>1, <2>1
    <3>2. \A k \in 1 .. M : i < where[k].first \/ where[k].last < i
      <4>1. \A k \in 1 .. M : k \in 1 .. M + 1 /\ to[k] = where[k]
        BY <1>1, <1>7
      <4> QED
        BY <1>10, <4>1
    <3>3. line[i] # CMD
      BY <3>1, <3>2, Zenon DEF Laid, M, N
    <3> QED
      BY <1>5, <3>1, <3>3
  <2>2. CASE i > N
    <3>1. i < N + 1 \/ N + L < i
      <4>1. M + 1 \in 1 .. M + 1
        BY <1>1
      <4> QED
        BY <1>6, <1>7, <1>10, <4>1
    <3> DEFINE h == i - N - L
    <3>2. h \in 1 .. Len(rest) /\ N + (L + h) = i /\ L + h \in 1 .. Len(tail)
      BY <1>1, <1>2, <1>3, <1>5, <2>2, <3>1
    <3> HIDE DEF h
    <3>3. new[i] = rest[h]
      BY <1>3, <1>5, <3>2
    <3> QED
      BY <3>2, <3>3
  <2>3. i <= N \/ i > N
    BY <1>1, <1>5, <1>2
  <2> QED
    BY <2>1, <2>2, <2>3
<1>11. Laid(new, from, to)
  <2>1. from \in 0 .. Len(new)
    BY <1>1, <1>2, <1>5
  <2> QED
    BY <1>5, <1>7, <1>9, <1>10, <2>1, Zenon DEF Laid
<1>12. SubSeq(new, mark.first, mark.last) = bytes
  <2>1. L \in 0 .. Len(tail)
    BY <1>2, <1>3
  <2>2. SubSeq(new, N + 1, N + L) = SubSeq(tail, 1, L)
    BY <1>5, <2>1
  <2> QED
    BY <1>3, <1>4, <1>6, <2>2, Zenon
<1>13. ASSUME NEW k \in 1 .. M
       PROVE  /\ to[k] = where[k]
              /\ SubSeq(new, where[k].first, where[k].last)
                   = SubSeq(line, where[k].first, where[k].last)
  <2> DEFINE i == where[k].first
             j == where[k].last
  <2>1. i \in Nat \ {0} /\ j \in Nat /\ i <= j + 1 /\ j <= N
    <3>1. /\ where[k].first \in Nat /\ where[k].last \in Nat /\ from < where[k].first
          /\ where[k].first < where[k].last /\ where[k].last <= N
      BY <1>1, <1>8, Zenon
    <3>2. i \in Nat /\ j \in Nat /\ from < i /\ i < j /\ j <= N
      BY <3>1
    <3> HIDE DEF i, j
    <3> QED
      BY <1>1, <3>2
  <2> HIDE DEF i, j
  <2>2. SubSeq(new, i, j) = SubSeq(line, i, j)
    BY <1>5, <2>1
  <2> QED
    BY <1>7, <2>2 DEF i, j
<1> QED
  BY <1>7, <1>11, <1>12, <1>13, Zenon DEF Grown, new, to, tail, M, mark

\* Counting the messages behind a position.
LEMMA WholeCount ==
  ASSUME NEW where \in Seq(Marks), NEW n \in 0 .. Len(where), NEW p \in Nat,
         \A k \in 1 .. n : where[k].last <= p,
         \A k \in n + 1 .. Len(where) : p < where[k].last
  PROVE  Whole(where, p) = n
<1> DEFINE M == Len(where)
<1>1. M \in Nat /\ n \in Nat /\ n <= M /\ \A k \in 1 .. M : where[k].last \in Nat
  <2>1. M \in Nat /\ \A k \in 1 .. M : where[k] \in Marks
    BY LenProperties, ElementOfSeq
  <2> QED
    BY <2>1 DEF Marks
<1> DEFINE S == {k \in 1 .. M : where[k].last <= p}
<1>2. \A k \in 1 .. M : where[k].last <= p <=> k <= n
  <2> SUFFICES ASSUME NEW k \in 1 .. M PROVE where[k].last <= p <=> k <= n
    OBVIOUS
  <2>1. CASE k <= n
    <3>1. k \in 1 .. n
      BY <1>1, <2>1
    <3> QED
      BY <2>1, <3>1
  <2>2. CASE ~(k <= n)
    <3>1. k \in n + 1 .. M /\ where[k].last \in Nat
      BY <1>1, <2>2
    <3>2. p < where[k].last
      BY <3>1
    <3> QED
      BY <2>2, <3>1, <3>2
  <2> QED
    BY <2>1, <2>2
<1>3. S = 1 .. n
  <2> HIDE DEF M
  <2>1. \A k \in 1 .. n : k \in 1 .. M /\ k <= n
    BY <1>1
  <2>2. \A k \in 1 .. M : k <= n => k \in 1 .. n
    BY <1>1
  <2> QED
    BY <1>2, <2>1, <2>2
<1>4. Cardinality(1 .. n) = n
  <2>1. Cardinality(1 .. n) = IF 1 > n THEN 0 ELSE n - 1 + 1
    BY <1>1, FS_Interval
  <2> QED
    BY <1>1, <2>1
<1>5. Whole(where, p) = Cardinality(S)
  BY DEF Whole
<1> HIDE DEF S
<1> QED
  BY <1>3, <1>4, <1>5

-----------------------------------------------------------------------------
(* What a client sends of a command, and what a device reads of that.      *)

\* Four bytes in a row.
LEMMA FourBytes ==
  \A s, a, b, c, d : s = <<a, b, c, d>> =>
    /\ s[1] = a /\ s[2] = b /\ s[3] = c /\ s[4] = d
    /\ a \in 0 .. 255 /\ b \in 0 .. 255 /\ c \in 0 .. 255 /\ d \in 0 .. 255
         => s \in Seq(Byte) /\ Len(s) = 4
<1>1. \A a, b, c, d : <<a, b, c, d>>[1] = a /\ <<a, b, c, d>>[2] = b
                      /\ <<a, b, c, d>>[3] = c /\ <<a, b, c, d>>[4] = d
  OBVIOUS
<1>2. \A a, b, c, d \in Byte : <<a, b, c, d>> \in Seq(Byte) /\ Len(<<a, b, c, d>>) = 4
  OBVIOUS
<1>3. \A a : a \in 0 .. 255 <=> a \in Byte
  BY DEF Byte
<1> QED
  BY <1>1, <1>2, <1>3

LEMMA FourAreBytes ==
  ASSUME NEW a \in 0 .. 255, NEW b \in 0 .. 255, NEW c \in 0 .. 255, NEW d \in 0 .. 255
  PROVE  <<a, b, c, d>> \in Seq(Byte) /\ Len(<<a, b, c, d>>) = 4
BY DEF Byte

\* The four bytes of an id.
LEMMA IdBytes ==
  ASSUME NEW id, NEW extended, FitsMask(id, extended)
  PROVE  /\ id \in Seq(Byte) /\ Len(id) = 4
         /\ id[1] \in 0 .. 255 /\ id[2] \in 0 .. 255 /\ id[3] \in 0 .. 255 /\ id[4] \in 0 .. 255
<1>1. id \in Seq(Byte) /\ Len(id) = 4
  BY DEF FitsMask
<1>2. 1 \in 1 .. 4 /\ 2 \in 1 .. 4 /\ 3 \in 1 .. 4 /\ 4 \in 1 .. 4
  OBVIOUS
<1>3. \A i \in 1 .. 4 : id[i] \in 0 .. 255
  BY <1>1, BytesAreBytes
<1> QED
  BY <1>1, <1>2, <1>3

\* Four bytes of an id come back from their word.
LEMMA IdRoundTrip ==
  ASSUME NEW id, NEW extended \in BOOLEAN, FitsMask(id, extended), NEW w \in Seq(Byte),
         Len(w) = 4, \A i \in 1 .. 4 : w[i] = MakeId(id, extended)[i]
  PROVE  Extended(w) = extended /\ SplitId(w) = id
<1>1. /\ id \in Seq(Byte) /\ Len(id) = 4
      /\ id[1] \in 0 .. 255 /\ id[2] \in 0 .. 255 /\ id[3] \in 0 .. 255 /\ id[4] \in 0 .. 255
      /\ IF extended THEN id[4] < 32 ELSE id[2] < 8 /\ id[3] = 0 /\ id[4] = 0
  <2>1. IF extended THEN id[4] < 32 ELSE id[2] < 8 /\ id[3] = 0 /\ id[4] = 0
    BY DEF FitsMask
  <2> QED
    BY <2>1, IdBytes
<1>2. 1 \in 1 .. 4 /\ 2 \in 1 .. 4 /\ 3 \in 1 .. 4 /\ 4 \in 1 .. 4
  OBVIOUS
<1>3. \A n \in 0 .. 255 : n < 32 => n % 32 = n /\ 128 + n >= 128 /\ (128 + n) % 32 = n
  OBVIOUS
<1>4. \A n \in 0 .. 255 : n < 8 => n % 8 = n
  OBVIOUS
<1>5. ~(0 >= 128)
  OBVIOUS
<1>6. ASSUME NEW s \in Seq(Byte), NEW t \in Seq(Byte), Len(s) = 4, Len(t) = 4,
             s[1] = t[1], s[2] = t[2], s[3] = t[3], s[4] = t[4]
      PROVE  s = t
  <2>1. \A i \in 1 .. 4 : i = 1 \/ i = 2 \/ i = 3 \/ i = 4
    OBVIOUS
  <2>2. \A i \in 1 .. Len(s) : s[i] = t[i]
    BY <1>6, <2>1, Zenon
  <2> QED
    BY <1>6, <2>2, SeqEqual
<1>7. <<id[1], id[2], id[3], id[4]>> \in Seq(Byte) /\ Len(<<id[1], id[2], id[3], id[4]>>) = 4
  <2> DEFINE a == id[1]
             b == id[2]
             c == id[3]
             d == id[4]
  <2>1. a \in 0 .. 255 /\ b \in 0 .. 255 /\ c \in 0 .. 255 /\ d \in 0 .. 255
    BY <1>1
  <2> HIDE DEF a, b, c, d
  <2>2. <<a, b, c, d>> \in Seq(Byte) /\ Len(<<a, b, c, d>>) = 4
    BY <2>1, FourAreBytes
  <2> QED
    BY <2>2 DEF a, b, c, d
<1>8. CASE extended
  <2> DEFINE m == MakeId(id, extended)
             g == SplitId(w)
  <2>1. m = <<id[1], id[2], id[3], 128 + (id[4] % 32)>>
    BY <1>8, Zenon DEF MakeId
  <2>2. w[1] = id[1] /\ w[2] = id[2] /\ w[3] = id[3] /\ w[4] = 128 + id[4]
    <3>1. m[1] = id[1] /\ m[2] = id[2] /\ m[3] = id[3] /\ m[4] = 128 + (id[4] % 32)
      BY <2>1, FourBytes
    <3>2. id[4] % 32 = id[4]
      BY <1>1, <1>3, <1>8, Zenon
    <3> QED
      BY <1>2, <3>1, <3>2, Zenon
  <2>3. Extended(w)
    BY <1>1, <1>3, <1>8, <2>2, Zenon DEF Extended
  <2>4. Extended(w) = extended
    <3>1. extended = TRUE
      BY <1>8
    <3>2. (w[4] >= 128) = TRUE
      BY <2>3 DEF Extended
    <3> QED
      BY <3>1, <3>2 DEF Extended
  <2>5. g = <<id[1], id[2], id[3], id[4]>>
    <3>1. w[4] % 32 = id[4]
      BY <1>1, <1>3, <1>8, <2>2, Zenon
    <3> QED
      BY <2>2, <2>3, <3>1, Zenon DEF SplitId
  <2> HIDE DEF g
  <2>6. g = id
    <3>1. g \in Seq(Byte) /\ Len(g) = 4
      BY <1>7, <2>5, Zenon
    <3>2. g[1] = id[1] /\ g[2] = id[2] /\ g[3] = id[3] /\ g[4] = id[4]
      BY <2>5, FourBytes
    <3> QED
      BY <1>1, <1>6, <3>1, <3>2
  <2> QED
    BY <2>6, <2>4 DEF g
<1>9. CASE ~extended
  <2> DEFINE m == MakeId(id, extended)
             g == SplitId(w)
  <2>1. m = <<id[1], id[2] % 8, 0, 0>>
    BY <1>9, Zenon DEF MakeId
  <2>2. w[1] = id[1] /\ w[2] = id[2] /\ w[3] = 0 /\ w[4] = 0
    <3>1. m[1] = id[1] /\ m[2] = id[2] % 8 /\ m[3] = 0 /\ m[4] = 0
      BY <2>1, FourBytes
    <3>2. id[2] % 8 = id[2]
      BY <1>1, <1>4, <1>9, Zenon
    <3> QED
      BY <1>2, <3>1, <3>2, Zenon
  <2>3. ~Extended(w)
    BY <1>5, <2>2, Zenon DEF Extended
  <2>4. g = <<id[1], id[2], id[3], id[4]>>
    <3>1. w[2] % 8 = id[2]
      BY <1>1, <1>4, <1>9, <2>2, Zenon
    <3>2. id[3] = 0 /\ id[4] = 0
      BY <1>1, <1>9
    <3> QED
      BY <2>2, <2>3, <3>1, <3>2, Zenon DEF SplitId
  <2> HIDE DEF g
  <2>5. g = id
    <3>1. g \in Seq(Byte) /\ Len(g) = 4
      BY <1>7, <2>4, Zenon
    <3>2. g[1] = id[1] /\ g[2] = id[2] /\ g[3] = id[3] /\ g[4] = id[4]
      BY <2>4, FourBytes
    <3> QED
      BY <1>1, <1>6, <3>1, <3>2
  <2>6. Extended(w) = extended
    <3>1. extended = FALSE
      BY <1>9
    <3>2. (w[4] >= 128) = FALSE
      BY <2>3 DEF Extended
    <3> QED
      BY <3>1, <3>2 DEF Extended
  <2> QED
    BY <2>5, <2>6 DEF g
<1> QED
  BY <1>8, <1>9

LEMMA MakeIdBytes ==
  ASSUME NEW id, NEW extended \in BOOLEAN, FitsMask(id, extended)
  PROVE  MakeId(id, extended) \in Seq(Byte) /\ Len(MakeId(id, extended)) = 4
<1>1. id[1] \in 0 .. 255 /\ id[2] \in 0 .. 255 /\ id[3] \in 0 .. 255 /\ id[4] \in 0 .. 255
  BY IdBytes
<1>2. \A n \in 0 .. 255 : 128 + (n % 32) \in 0 .. 255 /\ n % 8 \in 0 .. 255 /\ 0 \in 0 .. 255
  OBVIOUS
<1> DEFINE m == MakeId(id, extended)
<1>3. CASE extended
  <2>1. m = <<id[1], id[2], id[3], 128 + (id[4] % 32)>>
    BY <1>3, Zenon DEF MakeId
  <2>2. 128 + (id[4] % 32) \in 0 .. 255
    BY <1>1, <1>2, Zenon
  <2> DEFINE d == 128 + (id[4] % 32)
  <2>3. m = <<id[1], id[2], id[3], d>> /\ d \in 0 .. 255
    BY <2>1, <2>2, Zenon
  <2> HIDE DEF m, d
  <2>4. m \in Seq(Byte) /\ Len(m) = 4
    BY <1>1, <2>3, FourAreBytes
  <2> QED
    BY <2>4 DEF m
<1>4. CASE ~extended
  <2>1. m = <<id[1], id[2] % 8, 0, 0>>
    BY <1>4, Zenon DEF MakeId
  <2>2. id[2] % 8 \in 0 .. 255 /\ 0 \in 0 .. 255
    BY <1>1, <1>2, Zenon
  <2> DEFINE d == id[2] % 8
  <2>3. m = <<id[1], d, 0, 0>> /\ d \in 0 .. 255
    BY <2>1, <2>2, Zenon
  <2> HIDE DEF m, d
  <2>4. m \in Seq(Byte) /\ Len(m) = 4
    BY <1>1, <2>2, <2>3, FourAreBytes
  <2> QED
    BY <2>4 DEF m
<1> QED
  BY <1>3, <1>4

\* Two byte strings, one behind the other.
LEMMA Joined ==
  ASSUME NEW s \in Seq(Byte), NEW t \in Seq(Byte)
  PROVE  /\ s \o t \in Seq(Byte) /\ Len(s \o t) = Len(s) + Len(t)
         /\ \A i \in 1 .. Len(s) : (s \o t)[i] = s[i]
         /\ \A i \in 1 .. Len(t) : (s \o t)[Len(s) + i] = t[i]
BY StretchGrows, Zenon

\* The bytes of a transmit.
LEMMA TransmitBytes ==
  ASSUME NEW a \in Transmit
  PROVE  LET e == EncodeTransmit(a)
             w == MakeId(a.id, a.extended)
             n == Len(a.data)
         IN  /\ e \in Seq(Byte) /\ n \in 0 .. 8 /\ Len(e) = 8 + n
             /\ e[1] = CMD /\ e[2] = OP_FRAME /\ \A i \in 1 .. 4 : e[2 + i] = w[i]
             /\ e[7] = a.bus /\ e[8] = n
             /\ \A i \in 1 .. n : e[8 + i] = a.data[i]
             /\ SyncFree(e)
<1> DEFINE e == EncodeTransmit(a)
           w == MakeId(a.id, a.extended)
           n == Len(a.data)
           take == IF n < 64 THEN n ELSE 64
           body == Prefix(a.data, take)
           head == <<CMD, OP_FRAME>>
           mid == <<a.bus, take>>
           hw == head \o w
           hwm == hw \o mid
<1>1. /\ a.bus \in Byte /\ a.data \in Seq(Byte) /\ FitsMask(a.id, a.extended) /\ a.extended \in BOOLEAN
      /\ n <= 8 /\ SyncFree(e)
  BY DEF Transmit
<1>2. n \in Nat /\ n \in 0 .. 8
  <2>1. n \in Nat
    BY <1>1, LenProperties
  <2> HIDE DEF n
  <2> QED
    BY <1>1, <2>1
<1>3. take = n
  <2> HIDE DEF n
  <2> QED
    BY <1>2
<1>4. w \in Seq(Byte) /\ Len(w) = 4
  BY <1>1, MakeIdBytes
<1>5. body \in Seq(Byte) /\ Len(body) = n /\ \A i \in 1 .. n : body[i] = a.data[i]
  <2>1. 1 \in Nat \ {0} /\ n \in Nat /\ 1 <= n + 1 /\ n <= Len(a.data) /\ n - 1 + 1 = n
    BY <1>2
  <2>2. \A i \in 1 .. n : 1 + i - 1 = i
    BY <1>2
  <2> HIDE DEF n
  <2>3. /\ SubSeq(a.data, 1, n) \in Seq(Byte) /\ Len(SubSeq(a.data, 1, n)) = n - 1 + 1
        /\ \A i \in 1 .. n - 1 + 1 : SubSeq(a.data, 1, n)[i] = a.data[1 + i - 1]
    BY <1>1, <2>1, Stretch
  <2>4. \A i \in 1 .. n : SubSeq(a.data, 1, n)[i] = a.data[i]
    BY <2>1, <2>2, <2>3
  <2> HIDE DEF take
  <2> QED
    BY <1>3, <2>1, <2>3, <2>4 DEF Prefix
<1>6. e = hwm \o body
  <2>1. e = <<CMD, OP_FRAME>> \o w \o <<a.bus, take>> \o Prefix(a.data, take)
    BY Zenon DEF EncodeTransmit
  <2> HIDE DEF e, w, take
  <2> QED
    BY <2>1, Zenon
<1>7. head \in Seq(Byte) /\ Len(head) = 2 /\ head[1] = CMD /\ head[2] = OP_FRAME
  BY DEF CMD, OP_FRAME, Byte
<1>8. mid \in Seq(Byte) /\ Len(mid) = 2 /\ mid[1] = a.bus /\ mid[2] = n
  <2>1. n \in Byte
    BY <1>2 DEF Byte
  <2>2. \A x, y \in Byte : <<x, y>> \in Seq(Byte) /\ Len(<<x, y>>) = 2
    OBVIOUS
  <2>3. \A x, y : <<x, y>>[1] = x /\ <<x, y>>[2] = y
    OBVIOUS
  <2> HIDE DEF n, take
  <2> QED
    BY <1>1, <1>3, <2>1, <2>2, <2>3, Zenon
<1>9. hw = head \o w /\ hwm = hw \o mid
  OBVIOUS
<1> HIDE DEF e, w, n, take, body, head, mid, hw, hwm
<1>10. /\ hw \in Seq(Byte) /\ Len(hw) = 6 /\ hw[1] = CMD /\ hw[2] = OP_FRAME
      /\ \A i \in 1 .. 4 : hw[2 + i] = w[i]
  <2>1. /\ hw \in Seq(Byte) /\ Len(hw) = 2 + 4
        /\ \A i \in 1 .. 2 : hw[i] = head[i]
        /\ \A i \in 1 .. 4 : hw[2 + i] = w[i]
    <3>1. /\ head \o w \in Seq(Byte) /\ Len(head \o w) = Len(head) + Len(w)
          /\ \A i \in 1 .. Len(head) : (head \o w)[i] = head[i]
          /\ \A i \in 1 .. Len(w) : (head \o w)[Len(head) + i] = w[i]
      BY <1>4, <1>7, Joined
    <3> QED
      BY <1>4, <1>7, <1>9, <3>1, Zenon
  <2>2. 1 \in 1 .. 2 /\ 2 \in 1 .. 2 /\ 2 + 4 = 6
    OBVIOUS
  <2> QED
    BY <1>7, <2>1, <2>2
<1>11. /\ hwm \in Seq(Byte) /\ Len(hwm) = 8 /\ \A i \in 1 .. 6 : hwm[i] = hw[i]
       /\ hwm[7] = a.bus /\ hwm[8] = n
  <2>1. /\ hwm \in Seq(Byte) /\ Len(hwm) = 6 + 2
        /\ \A i \in 1 .. 6 : hwm[i] = hw[i]
        /\ \A i \in 1 .. 2 : hwm[6 + i] = mid[i]
    <3>1. /\ hw \o mid \in Seq(Byte) /\ Len(hw \o mid) = Len(hw) + Len(mid)
          /\ \A i \in 1 .. Len(hw) : (hw \o mid)[i] = hw[i]
          /\ \A i \in 1 .. Len(mid) : (hw \o mid)[Len(hw) + i] = mid[i]
      BY <1>8, <1>10, Joined
    <3> QED
      BY <1>8, <1>10, <1>9, <3>1, Zenon
  <2>2. 1 \in 1 .. 2 /\ 2 \in 1 .. 2 /\ 6 + 2 = 8 /\ 6 + 1 = 7
    OBVIOUS
  <2> QED
    BY <1>8, <2>1, <2>2
<1>12. /\ e \in Seq(Byte) /\ Len(e) = 8 + n /\ \A i \in 1 .. 8 : e[i] = hwm[i]
       /\ \A i \in 1 .. n : e[8 + i] = body[i]
  <2>1. /\ hwm \o body \in Seq(Byte) /\ Len(hwm \o body) = Len(hwm) + Len(body)
        /\ \A i \in 1 .. Len(hwm) : (hwm \o body)[i] = hwm[i]
        /\ \A i \in 1 .. Len(body) : (hwm \o body)[Len(hwm) + i] = body[i]
    BY <1>5, <1>11, Joined
  <2> QED
    BY <1>5, <1>6, <1>11, <2>1, Zenon
<1>13. \A i \in 1 .. 4 : e[2 + i] = w[i]
  <2>1. \A i \in 1 .. 4 : 2 + i \in 1 .. 6 /\ 2 + i \in 1 .. 8
    OBVIOUS
  <2> QED
    BY <1>10, <1>11, <1>12, <2>1
<1>14. 1 \in 1 .. 6 /\ 2 \in 1 .. 6 /\ 1 \in 1 .. 8 /\ 2 \in 1 .. 8 /\ 7 \in 1 .. 8 /\ 8 \in 1 .. 8
  OBVIOUS
<1>15. e[1] = CMD /\ e[2] = OP_FRAME /\ e[7] = a.bus /\ e[8] = n
  BY <1>10, <1>11, <1>12, <1>14
<1>16. \A i \in 1 .. n : e[8 + i] = a.data[i]
  BY <1>5, <1>12
<1> QED
  BY <1>1, <1>2, <1>12, <1>13, <1>15, <1>16, Zenon DEF e, w, n

\* A device that has a transmit whole reads it as it was meant.
LEMMA TransmitRoundTrip ==
  ASSUME NEW a \in Transmit, NEW b \in Seq(Byte), Len(b) >= 8 + Len(a.data),
         \A i \in 1 .. 8 + Len(a.data) : b[i] = EncodeTransmit(a)[i]
  PROVE  TransmitLen(b) = 8 + Len(a.data) /\ TransmitCommand(b) = a
<1> DEFINE e == EncodeTransmit(a)
           m == MakeId(a.id, a.extended)
           n == Len(a.data)
           w == SubSeq(b, 3, 6)
           d == SubSeq(b, 9, 8 + n)
<1>1. /\ e \in Seq(Byte) /\ n \in 0 .. 8 /\ Len(e) = 8 + n
      /\ \A i \in 1 .. 4 : e[2 + i] = m[i]
      /\ e[7] = a.bus /\ e[8] = n
      /\ \A i \in 1 .. n : e[8 + i] = a.data[i]
  BY TransmitBytes
<1>2. /\ a \in [op : {OP_FRAME}, bus : Byte, id : Seq(Byte), extended : BOOLEAN, data : Seq(Byte)]
      /\ FitsMask(a.id, a.extended) /\ a.extended \in BOOLEAN /\ a.data \in Seq(Byte)
  BY DEF Transmit
<1>3. Len(b) \in Nat /\ Len(b) >= 8 + n /\ \A i \in 1 .. 8 + n : b[i] = e[i]
  BY LenProperties
<1> HIDE DEF e, m
<1>4. b[7] = a.bus /\ b[8] = n
  <2>1. 7 \in 1 .. 8 + n /\ 8 \in 1 .. 8 + n
    BY <1>1
  <2> QED
    BY <1>1, <1>3, <2>1
<1>5. Extended(w) = a.extended /\ SplitId(w) = a.id
  <2>1. w \in Seq(Byte) /\ Len(w) = 4 /\ \A i \in 1 .. 4 : w[i] = b[2 + i]
    <3>1. 3 \in Nat \ {0} /\ 6 \in Nat /\ 3 <= 6 + 1 /\ 6 <= Len(b) /\ 6 - 3 + 1 = 4
      BY <1>1, <1>3
    <3>2. \A i \in 1 .. 4 : 3 + i - 1 = 2 + i
      OBVIOUS
    <3>3. w \in Seq(Byte) /\ Len(w) = 6 - 3 + 1 /\ \A i \in 1 .. 6 - 3 + 1 : w[i] = b[3 + i - 1]
      BY <3>1, Stretch
    <3> HIDE DEF w
    <3> QED
      BY <3>1, <3>2, <3>3
  <2> HIDE DEF w
  <2>2. \A i \in 1 .. 4 : w[i] = m[i]
    <3> HIDE DEF n
    <3>1. \A i \in 1 .. 4 : 2 + i \in 1 .. 8 + n
      BY <1>1
    <3>2. \A i \in 1 .. 4 : w[i] = b[2 + i] /\ e[2 + i] = m[i]
      BY <1>1, <2>1, Zenon
    <3> QED
      BY <1>3, <3>1, <3>2, Zenon
  <2>3. \A i \in 1 .. 4 : w[i] = MakeId(a.id, a.extended)[i]
    BY <2>2 DEF m
  <2> DEFINE id == a.id
             x == a.extended
  <2>4. FitsMask(id, x) /\ x \in BOOLEAN /\ \A i \in 1 .. 4 : w[i] = MakeId(id, x)[i]
    BY <1>2, <2>3
  <2> HIDE DEF id, x
  <2>5. Extended(w) = x /\ SplitId(w) = id
    BY <2>1, <2>4, IdRoundTrip
  <2> QED
    BY <2>5 DEF id, x
<1>6. d = a.data
  <2>1. d \in Seq(Byte) /\ Len(d) = n /\ \A i \in 1 .. n : d[i] = b[8 + i]
    <3> DEFINE l == 8 + n
    <3>1. 9 \in Nat \ {0} /\ l \in Nat /\ 9 <= l + 1 /\ l <= Len(b) /\ l - 9 + 1 = n
      BY <1>1, <1>3
    <3>2. \A i \in 1 .. n : 9 + i - 1 = 8 + i
      BY <1>1
    <3> HIDE DEF l
    <3> DEFINE s == SubSeq(b, 9, l)
    <3>3. s \in Seq(Byte) /\ Len(s) = l - 9 + 1 /\ \A i \in 1 .. l - 9 + 1 : s[i] = b[9 + i - 1]
      BY <3>1, Stretch
    <3> HIDE DEF s
    <3>4. s \in Seq(Byte) /\ Len(s) = n /\ \A i \in 1 .. n : s[i] = b[8 + i]
      BY <3>1, <3>2, <3>3
    <3> QED
      BY <3>4 DEF s, l
  <2>2. \A i \in 1 .. n : 8 + i \in 1 .. 8 + n
    BY <1>1
  <2> HIDE DEF d
  <2>3. \A i \in 1 .. Len(d) : d[i] = a.data[i]
    BY <1>1, <1>3, <2>1, <2>2
  <2> QED
    BY <1>2, <2>1, <2>3, SeqEqual
<1>7. TransmitLen(b) = 8 + n
  BY <1>4, Zenon DEF TransmitLen, TRANSMIT_HEADER
<1>8. TransmitCommand(b) = [op |-> OP_FRAME, bus |-> b[7], id |-> SplitId(w),
                            extended |-> Extended(w), data |-> d]
  <2> DEFINE kept == IF b[8] < 8 THEN b[8] ELSE 8
  <2>1. kept = n
    <3>1. \A k \in 0 .. 8 : (IF k < 8 THEN k ELSE 8) = k
      OBVIOUS
    <3> HIDE DEF n
    <3> QED
      BY <1>1, <1>4, <3>1, Zenon
  <2>2. TRANSMIT_HEADER + 1 = 9 /\ TRANSMIT_HEADER + n = 8 + n
    BY DEF TRANSMIT_HEADER
  <2>3. TransmitCommand(b) =
          [op |-> OP_FRAME, bus |-> b[7], id |-> SplitId(w), extended |-> Extended(w),
           data |-> SubSeq(b, TRANSMIT_HEADER + 1, TRANSMIT_HEADER + kept)]
    BY DEF TransmitCommand
  <2> HIDE DEF kept, w
  <2> QED
    BY <2>1, <2>2, <2>3
<1>9. a = [op |-> OP_FRAME, bus |-> a.bus, id |-> a.id, extended |-> a.extended, data |-> a.data]
  BY <1>2
<1> HIDE DEF w, d
<1>10. TransmitCommand(b) = a
  BY <1>4, <1>5, <1>6, <1>8, <1>9
<1> QED
  BY <1>7, <1>10

\* What is sent of a command is bytes, a sync byte first, and no handshake.
LEMMA SpeltBytes ==
  ASSUME NEW a \in Asks
  PROVE  LET e == Spelt(a)
         IN  /\ e \in Seq(Byte) /\ Len(e) >= 2 /\ Len(e) \in Nat /\ e[1] = CMD
             /\ SyncFree(e)
             /\ \/ a \in Transmit /\ a.op = OP_FRAME /\ e = EncodeTransmit(a)
                   /\ e[2] = OP_FRAME /\ Len(e) = 8 + Len(a.data)
                \/ a = [op |-> a.op] /\ a.op \in Requests /\ a.op # OP_FRAME
                   /\ e[2] = a.op /\ Len(e) = 2
<1> DEFINE e == Spelt(a)
<1>1. a \in Request \/ a \in Transmit
  BY LinkAssumption
<1>2. CASE a \in Transmit
  <2>1. a.op = OP_FRAME
    BY <1>2 DEF Transmit
  <2>2. e = EncodeTransmit(a)
    BY <2>1, Zenon DEF Spelt
  <2>3. /\ e \in Seq(Byte) /\ Len(a.data) \in 0 .. 8 /\ Len(e) = 8 + Len(a.data)
        /\ e[1] = CMD /\ e[2] = OP_FRAME /\ SyncFree(e)
    BY <1>2, <2>2, TransmitBytes
  <2>4. Len(e) >= 2 /\ Len(e) \in Nat
    BY <2>3
  <2> HIDE DEF e
  <2>5. /\ e \in Seq(Byte) /\ Len(e) >= 2 /\ Len(e) \in Nat /\ e[1] = CMD /\ SyncFree(e)
        /\ a \in Transmit /\ a.op = OP_FRAME /\ e = EncodeTransmit(a)
        /\ e[2] = OP_FRAME /\ Len(e) = 8 + Len(a.data)
    BY <1>2, <2>1, <2>2, <2>3, <2>4, Zenon
  <2> QED
    BY <2>5, Zenon DEF e
<1>3. CASE a \in Request
  <2>1. a = [op |-> a.op] /\ a.op \in Requests
    BY <1>3 DEF Request
  <2>2. a.op # OP_FRAME /\ a.op \in Byte
    BY <2>1 DEF Requests, OP_FRAME, OP_TIMEBASE, OP_CANBUS_PARAMS, OP_DEV_INFO, OP_KEEPALIVE,
                OP_NUM_BUSES, Byte
  <2>3. e = <<CMD, a.op>>
    BY <2>2, Zenon DEF Spelt, EncodeRequest
  <2> HIDE DEF e
  <2>4. e \in Seq(Byte) /\ Len(e) = 2 /\ e[1] = CMD /\ e[2] = a.op
    BY <2>2, <2>3 DEF CMD, Byte
  <2>5. SyncFree(e)
    <3>1. \A i \in 1 .. 1 : i = 1
      OBVIOUS
    <3>2. CMD # SYNC[1]
      BY DEF CMD, SYNC
    <3>3. Len(e) - 1 = 1
      BY <2>4
    <3> QED
      BY <2>4, <3>1, <3>2, <3>3, Zenon DEF SyncFree
  <2>6. Len(e) >= 2 /\ Len(e) \in Nat
    BY <2>4
  <2> QED
    BY <2>1, <2>2, <2>4, <2>5, <2>6, Zenon DEF e
<1> QED
  BY <1>1, <1>2, <1>3

-----------------------------------------------------------------------------
(* The handshake, in a client's stream.                                    *)

\* A pair in a stretch is a pair of the line.
LEMMA PairsOfStretch ==
  ASSUME NEW s \in Seq(Byte), NEW o \in Nat, NEW m \in Nat, o <= m, m <= Len(s)
  PROVE  /\ SubSeq(s, o + 1, m) \in Seq(Byte) /\ Len(SubSeq(s, o + 1, m)) = m - o
         /\ \A i \in 1 .. m - o - 1 : Paired(SubSeq(s, o + 1, m), i) <=> Paired(s, o + i)
<1> DEFINE f == o + 1
           b == SubSeq(s, f, m)
<1>1. f \in Nat \ {0} /\ f <= m + 1 /\ m - f + 1 = m - o
  OBVIOUS
<1>2. \A i \in 1 .. m - o : f + i - 1 = o + i
  OBVIOUS
<1> HIDE DEF f
<1>3. b \in Seq(Byte) /\ Len(b) = m - f + 1 /\ \A i \in 1 .. m - f + 1 : b[i] = s[f + i - 1]
  BY <1>1, Stretch
<1> HIDE DEF b
<1>4. b \in Seq(Byte) /\ Len(b) = m - o /\ \A i \in 1 .. m - o : b[i] = s[o + i]
  BY <1>1, <1>2, <1>3
<1>5. ASSUME NEW i \in 1 .. m - o - 1 PROVE Paired(b, i) <=> Paired(s, o + i)
  <2>1. i \in 1 .. m - o /\ i + 1 \in 1 .. m - o /\ o + (i + 1) = o + i + 1
    OBVIOUS
  <2>2. b[i] = s[o + i] /\ b[i + 1] = s[o + i + 1]
    BY <1>4, <2>1
  <2> QED
    BY <2>2, Zenon DEF Paired
<1> QED
  BY <1>4, <1>5 DEF b, f

\* A handshake ends with the second byte of a pair, behind an even run.
LEMMA EndIsPair ==
  ASSUME NEW b \in Seq(Byte), NEW from \in Nat \ {0}, NEW c \in SyncEnds(b, from)
  PROVE  /\ c \in Nat /\ c <= Len(b) /\ from < c /\ Paired(b, c - 1)
         /\ \E s \in from .. c - 1 :
              /\ IsRun(b, from, s, c)
              /\ (c - s + 1) % 2 = 0
<1>1. c \in from .. Len(b) /\ Len(b) \in Nat
  BY LenProperties DEF SyncEnds
<1>2. PICK s \in from .. c :
        /\ \A k \in s .. c : b[k] = SYNC[1]
        /\ s = from \/ b[s - 1] # SYNC[1]
        /\ (c - s + 1) % 2 = 0
  BY DEF SyncEnds
<1>3. SYNC[1] = 231
  BY DEF SYNC
<1>4. c \in Nat /\ s \in Nat /\ from <= s /\ s <= c /\ c <= Len(b)
  BY <1>1
<1>5. s # c
  <2>1. (c - c + 1) % 2 # 0
    BY <1>4
  <2> QED
    BY <1>2, <2>1
<1>6. s \in from .. c - 1 /\ from < c /\ c - 1 \in s .. c /\ c \in s .. c /\ c - 1 + 1 = c
  BY <1>4, <1>5
<1>7. Paired(b, c - 1)
  <2>1. b[c - 1] = 231 /\ b[c] = 231
    BY <1>2, <1>3, <1>6, Zenon
  <2>2. b[c - 1 + 1] = 231
    BY <1>6, <2>1, Zenon
  <2> QED
    BY <2>1, <2>2 DEF Paired
<1>8. IsRun(b, from, s, c)
  BY <1>2, <1>3, Zenon DEF IsRun
<1> QED
  BY <1>2, <1>4, <1>6, <1>7, <1>8

LEMMA NoPairNoEnd ==
  ASSUME NEW b \in Seq(Byte), NEW from \in Nat \ {0}, NoPair(b)
  PROVE  SyncEnds(b, from) = {}
<1> SUFFICES ASSUME NEW c \in SyncEnds(b, from) PROVE FALSE
  OBVIOUS
<1>1. c \in Nat /\ c <= Len(b) /\ from < c /\ Paired(b, c - 1)
  BY EndIsPair
<1>2. c - 1 \in 1 .. Len(b) - 1
  BY <1>1, LenProperties
<1> QED
  BY <1>1, <1>2 DEF NoPair

\* A scan that comes to the handshake finds it, and it alone: three E7 in a row
\* end one byte after the second, whatever was sent before them.
LEMMA HelloIsFound ==
  ASSUME NEW b \in Seq(Byte), NEW from \in Nat \ {0}, NEW q \in Nat, from < q, q <= Len(b),
         Paired(b, q - 1), \A i \in 1 .. Len(b) - 1 : Paired(b, i) => i \in {q - 1, q}
  PROVE  SyncEnds(b, from) = {q}
<1>1. Len(b) \in Nat
  BY LenProperties
<1>2. ASSUME NEW c \in SyncEnds(b, from) PROVE c = q
  <2>1. c \in Nat /\ c <= Len(b) /\ from < c /\ Paired(b, c - 1)
    BY EndIsPair
  <2>2. PICK s \in from .. c - 1 : IsRun(b, from, s, c) /\ (c - s + 1) % 2 = 0
    BY EndIsPair
  <2>3. c - 1 \in {q - 1, q}
    <3>1. c - 1 \in 1 .. Len(b) - 1
      BY <1>1, <2>1
    <3> QED
      BY <2>1, <3>1
  <2>4. s \in Nat /\ from <= s /\ s <= c - 1
    BY <2>1
  <2>5. ASSUME c = q + 1 PROVE FALSE
    <3>1. b[q - 1] = 231
      BY DEF Paired
    <3>2. s # q
      <4>1. s = q => b[s - 1] # 231
        BY <2>2, <2>4 DEF IsRun
      <4> QED
        BY <3>1, <4>1
    <3>3. s # q - 1
      <4>1. \A n \in Nat : ((n + 1) - (n - 1) + 1) % 2 # 0
        OBVIOUS
      <4> QED
        BY <2>2, <2>5, <4>1
    <3>4. s < q - 1
      BY <2>4, <2>5, <3>2, <3>3
    <3> DEFINE i == q - 1 - 1
    <3>5. i \in s .. c /\ i + 1 \in s .. c /\ i \in 1 .. Len(b) - 1 /\ i \notin {q - 1, q}
      BY <1>1, <2>1, <2>4, <2>5, <3>4
    <3> HIDE DEF i
    <3>6. Paired(b, i)
      BY <2>2, <3>5 DEF IsRun, Paired
    <3> QED
      BY <3>5, <3>6
  <2> QED
    BY <2>1, <2>3, <2>5
<1>3. \E c \in SyncEnds(b, from) : c >= q - 1
  <2> DEFINE i == q - 1
  <2>1. i \in from .. Len(b) - 1 /\ Paired(b, i)
    BY <1>1
  <2> HIDE DEF i
  <2>2. \E c \in SyncEnds(b, from) : c >= i
    BY <2>1, PairIsFound
  <2> QED
    BY <2>2 DEF i
<1> QED
  BY <1>2, <1>3, Zenon

-----------------------------------------------------------------------------
(* The device acts on what the client asked.                               *)

\* The numbers of a device that has read part of a client's stream.
LEMMA DeviceNumbers ==
  ASSUME NEW q \in 0 .. Len(spoken), Speech(q), Understood(q)
  PROVE  /\ spoken \in Seq(Byte) /\ Len(spoken) \in Nat /\ q \in Nat /\ q >= 2 /\ q <= Len(spoken)
         /\ got \in Nat /\ got <= Len(spoken) /\ DevAt \in Nat /\ DevAt <= got
         /\ devBuf = SubSeq(spoken, DevAt + 1, got) /\ devBuf \in Seq(Byte)
         /\ Len(devBuf) = got - DevAt /\ Len(devBuf) \in Nat
         /\ Len(asks) = Len(asked) /\ Len(asked) \in Nat
         /\ Len(commands) \in Nat /\ Len(commands) <= Len(asked)
<1>1. /\ spoken \in Seq(Byte) /\ Len(spoken) \in Nat /\ Len(asks) \in Nat
  BY LaidNumbers DEF Speech
<1>2. q \in Nat /\ q >= 2 /\ q <= Len(spoken)
  BY <1>1 DEF Speech
<1>3. got \in Nat /\ got <= Len(spoken)
  BY <1>1 DEF Understood
<1>4. DevAt \in Nat /\ DevAt <= got
  <2>1. DevAt \in 0 .. got
    BY DEF Understood
  <2> HIDE DEF DevAt
  <2> QED
    BY <1>3, <2>1
<1>5. devBuf = SubSeq(spoken, DevAt + 1, got)
  BY DEF Understood
<1>6. devBuf \in Seq(Byte) /\ Len(devBuf) = got - DevAt
  <2> DEFINE o == DevAt
  <2>1. o \in Nat /\ o <= got /\ devBuf = SubSeq(spoken, o + 1, got)
    BY <1>4, <1>5
  <2> HIDE DEF o
  <2>2. devBuf \in Seq(Byte) /\ Len(devBuf) = got - o
    BY <1>1, <1>3, <2>1, PairsOfStretch
  <2> QED
    BY <2>2 DEF o
<1>7. Len(devBuf) \in Nat
  BY <1>6, LenProperties
<1>8. Len(asks) = Len(asked)
  BY DEF Speech
<1>9. Len(commands) \in Nat /\ Len(commands) <= Len(asked)
  BY LenProperties DEF Understood
<1> QED
  BY <1>1, <1>2, <1>3, <1>4, <1>5, <1>6, <1>7, <1>8, <1>9

\* A device that has read no handshake has acted on nothing.
LEMMA NothingBeforeHello ==
  ASSUME NEW q \in 0 .. Len(spoken), Speech(q), Understood(q), ~binary
  PROVE  DevAt = 0 /\ got < q /\ ~serving /\ Len(commands) = 0
<1>1. DevAt = 0 /\ got < q /\ ~serving
  BY DEF Understood
<1>2. /\ Len(commands) \in Nat /\ Len(commands) <= Len(asks)
  BY DeviceNumbers
<1>3. ASSUME Len(commands) # 0 PROVE FALSE
  <2>1. 1 \in 1 .. Len(commands) /\ 1 \in 1 .. Len(asks)
    BY <1>2, <1>3, LenProperties, DeviceNumbers
  <2>2. asks[1].last <= 0
    BY <1>1, <2>1 DEF Understood, Between
  <2>3. asks[1].first \in Nat /\ asks[1].last \in Nat
    BY <2>1, LaidNumbers DEF Speech
  <2>4. asks[1].first < asks[1].last
    BY <2>1, LaidOrder DEF Speech
  <2> QED
    BY <2>2, <2>3, <2>4
<1> QED
  BY <1>1, <1>3

\* The client asks.
LEMMA AskKeepsLink ==
  ASSUME DevLinkInv, NEW a \in Asks, NEW checksum \in {<<>>, << 0 >>}, Ask(a, checksum)
  PROVE  DevLinkInv'
<1>1. PICK q \in 0 .. Len(spoken) : Speech(q) /\ Understood(q)
  BY DEF DevLinkInv
<1> DEFINE bytes == Spelt(a)
           rest == IF a.op = OP_FRAME THEN checksum ELSE <<>>
           mark == Behind(spoken, Len(bytes))
           N == Len(spoken)
           L == Len(bytes)
           tail == bytes \o rest
<1>2. /\ asked' = Append(asked, a) /\ spoken' = spoken \o tail /\ asks' = Append(asks, mark)
      /\ UNCHANGED <<devVars, got>>
  <2>1. bytes = IF a.op = OP_FRAME THEN EncodeTransmit(a) ELSE EncodeRequest(a.op)
    BY DEF Spelt
  <2> QED
    BY <2>1, Zenon DEF Ask
<1>3. /\ bytes \in Seq(Byte) /\ L >= 2 /\ L \in Nat /\ bytes[1] = CMD /\ SyncFree(bytes)
  BY SpeltBytes
<1>4. /\ rest \in Seq(Byte) /\ Len(rest) \in Nat /\ \A i \in 1 .. Len(rest) : rest[i] = 0
  <2>1. rest = <<>> \/ rest = << 0 >>
    OBVIOUS
  <2> HIDE DEF rest
  <2>2. CASE rest = <<>>
    BY <2>2
  <2>3. CASE rest = << 0 >>
    <3>1. 0 \in Byte
      BY DEF Byte
    <3>2. \A i \in 1 .. 1 : i = 1
      OBVIOUS
    <3> QED
      BY <2>3, <3>1, <3>2
  <2> QED
    BY <2>1, <2>2, <2>3
<1>5. \A i \in 1 .. Len(rest) : rest[i] # CMD
  BY <1>4 DEF CMD
<1>6. /\ spoken \in Seq(Byte) /\ N \in Nat /\ q \in Nat /\ q >= 2 /\ q <= N
      /\ Len(asks) = Len(asked) /\ Len(asked) \in Nat
  BY <1>1, DeviceNumbers
<1>7. Laid(spoken, q, asks)
  BY <1>1 DEF Speech
<1> HIDE DEF bytes, rest
<1>8. /\ Laid(spoken', q, asks')
      /\ Len(asks') = Len(asks) + 1 /\ asks'[Len(asks) + 1] = mark
      /\ SubSeq(spoken', mark.first, mark.last) = bytes
      /\ \A k \in 1 .. Len(asks) :
           /\ asks'[k] = asks[k]
           /\ SubSeq(spoken', asks[k].first, asks[k].last)
                = SubSeq(spoken, asks[k].first, asks[k].last)
  <2>1. Grown(spoken, q, asks, spoken \o (bytes \o rest),
              Append(asks, Behind(spoken, Len(bytes))), Behind(spoken, Len(bytes)), bytes)
    BY <1>3, <1>4, <1>5, <1>7, LineGrows
  <2>2. Grown(spoken, q, asks, spoken', asks', mark, bytes)
    BY <1>2, <2>1, Zenon
  <2> HIDE DEF mark
  <2> QED
    BY <2>2, Zenon DEF Grown
<1> HIDE DEF tail, N, L, mark
<1>9. /\ tail \in Seq(Byte) /\ Len(tail) = L + Len(rest)
      /\ \A i \in 1 .. L : tail[i] = bytes[i]
      /\ \A i \in 1 .. Len(rest) : tail[L + i] = rest[i]
  BY <1>3, <1>4, Joined DEF tail, L
<1>10. /\ Len(spoken') = N + Len(tail)
       /\ \A i \in 1 .. N : spoken'[i] = spoken[i]
       /\ \A i \in 1 .. Len(tail) : spoken'[N + i] = tail[i]
       /\ \A i \in Nat \ {0}, j \in Nat :
            i <= j + 1 /\ j <= N => SubSeq(spoken', i, j) = SubSeq(spoken, i, j)
  <2>1. /\ Len(spoken \o tail) = Len(spoken) + Len(tail)
        /\ \A i \in 1 .. Len(spoken) : (spoken \o tail)[i] = spoken[i]
        /\ \A i \in 1 .. Len(tail) : (spoken \o tail)[Len(spoken) + i] = tail[i]
        /\ \A i \in Nat \ {0}, j \in Nat :
             i <= j + 1 /\ j <= Len(spoken) => SubSeq(spoken \o tail, i, j) = SubSeq(spoken, i, j)
    BY <1>6, <1>9, StretchGrows
  <2> QED
    BY <1>2, <2>1, Zenon DEF N
<1>11. ASSUME NEW i \in 1 .. Len(spoken') - 1, Paired(spoken', i) PROVE i \in {q - 1, q}
  <2>1. spoken'[i] = 231 /\ spoken'[i + 1] = 231
    BY <1>11 DEF Paired
  <2>2. CASE i + 1 <= N
    <3>1. i \in 1 .. N /\ i + 1 \in 1 .. N /\ i \in 1 .. N - 1
      BY <1>6, <2>2
    <3>2. Paired(spoken, i)
      BY <1>10, <2>1, <3>1 DEF Paired
    <3> QED
      BY <1>1, <3>1, <3>2 DEF Speech, N
  <2>3. CASE i + 1 > N
    <3> DEFINE h == i + 1 - N
    <3>1. h \in 1 .. L + Len(rest) /\ i + 1 = N + h
      BY <1>3, <1>4, <1>6, <1>9, <1>10, <2>3
    <3> HIDE DEF h
    <3>2. tail[h] = 231
      BY <1>9, <1>10, <2>1, <3>1
    <3>3. CASE h > L
      <4> DEFINE j == h - L
      <4>1. j \in 1 .. Len(rest) /\ L + j = h
        BY <1>3, <1>4, <3>1, <3>3
      <4> HIDE DEF j
      <4>2. tail[h] = 0
        BY <1>4, <1>9, <4>1
      <4> QED
        BY <3>2, <4>2
    <3>4. CASE h = 1
      <4>1. 1 \in 1 .. L
        BY <1>3
      <4>2. tail[h] = CMD
        BY <1>3, <1>9, <3>4, <4>1
      <4> QED
        BY <3>2, <4>2 DEF CMD
    <3>5. CASE h > 1 /\ h <= L
      <4> DEFINE j == h - 1
      <4>1. j \in 1 .. L - 1 /\ j \in 1 .. L /\ j + 1 = h /\ j + 1 \in 1 .. L /\ N + j = i
            /\ j \in 1 .. Len(tail)
        BY <1>3, <1>4, <1>6, <1>9, <3>1, <3>5
      <4> HIDE DEF j
      <4>2. bytes[j] = 231 /\ bytes[j + 1] = 231
        BY <1>9, <1>10, <2>1, <3>2, <4>1
      <4>3. SYNC[1] = 231 /\ SYNC[2] = 231
        BY DEF SYNC
      <4>4. bytes[j] = SYNC[1] => bytes[j + 1] # SYNC[2]
        BY <1>3, <4>1, Zenon DEF SyncFree, L
      <4> QED
        BY <4>2, <4>3, <4>4
    <3>6. h > L \/ h = 1 \/ (h > 1 /\ h <= L)
      BY <1>3, <1>4, <3>1
    <3> QED
      BY <3>3, <3>4, <3>5, <3>6
  <2>4. i + 1 <= N \/ i + 1 > N
    BY <1>6
  <2> QED
    BY <2>2, <2>3, <2>4
<1>12. Paired(spoken', q - 1)
  <2> DEFINE i == q - 1
  <2>1. i \in 1 .. N /\ i + 1 \in 1 .. N
    BY <1>6
  <2>2. Paired(spoken, i)
    BY <1>1 DEF Speech
  <2> HIDE DEF i
  <2>3. Paired(spoken', i)
    BY <1>10, <2>1, <2>2 DEF Paired
  <2> QED
    BY <2>3 DEF i
<1>13. /\ asked' \in Seq(Asks) /\ Len(asked') = Len(asked) + 1 /\ asked'[Len(asked) + 1] = a
       /\ \A k \in 1 .. Len(asked) : asked'[k] = asked[k]
  BY <1>1, <1>2, AppendProperties DEF Speech
<1>14. \A k \in 1 .. Len(asked') :
         SubSeq(spoken', asks'[k].first, asks'[k].last) = Spelt(asked'[k])
  <2> SUFFICES ASSUME NEW k \in 1 .. Len(asked')
               PROVE  SubSeq(spoken', asks'[k].first, asks'[k].last) = Spelt(asked'[k])
    OBVIOUS
  <2>1. CASE k \in 1 .. Len(asked)
    <3>1. SubSeq(spoken, asks[k].first, asks[k].last) = Spelt(asked[k])
      BY <1>1, <2>1 DEF Speech
    <3>2. asks'[k] = asks[k] /\ asked'[k] = asked[k]
          /\ SubSeq(spoken', asks[k].first, asks[k].last)
               = SubSeq(spoken, asks[k].first, asks[k].last)
      BY <1>6, <1>8, <1>13, <2>1
    <3> QED
      BY <3>1, <3>2, Zenon
  <2>2. CASE k = Len(asked) + 1
    <3>1. asks'[k] = mark /\ asked'[k] = a
      BY <1>6, <1>8, <1>13, <2>2, Zenon
    <3> QED
      BY <1>8, <3>1, Zenon DEF bytes
  <2>3. k \in 1 .. Len(asked) \/ k = Len(asked) + 1
    BY <1>6, <1>13
  <2> QED
    BY <2>1, <2>2, <2>3
<1>15. Speech(q)'
  <2>1. Len(asks') = Len(asked')
    BY <1>6, <1>8, <1>13
  <2> QED
    BY <1>6, <1>8, <1>11, <1>12, <1>13, <1>14, <2>1, Zenon DEF Speech
<1>16. q \in 0 .. Len(spoken') /\ got \in 0 .. Len(spoken')
  <2>1. got \in Nat /\ got <= N
    BY <1>1, DeviceNumbers DEF N
  <2> QED
    BY <1>3, <1>4, <1>6, <1>9, <1>10, <2>1
<1>17. /\ UNCHANGED <<binary, devBuf, serving, commands, got>> /\ DevAt' = DevAt
  BY <1>2 DEF devVars, DevAt
<1>18. devBuf = SubSeq(spoken', DevAt + 1, got)
  <2> DEFINE o == DevAt
             f == o + 1
  <2>1. /\ o \in Nat /\ o <= got /\ got \in Nat /\ got <= N /\ devBuf = SubSeq(spoken, f, got)
    BY <1>1, DeviceNumbers DEF N
  <2>2. f \in Nat \ {0} /\ f <= got + 1
    <3> HIDE DEF o
    <3> QED
      BY <2>1
  <2> HIDE DEF f
  <2>3. SubSeq(spoken', f, got) = SubSeq(spoken, f, got)
    BY <1>10, <2>1, <2>2
  <2> QED
    BY <2>1, <2>3 DEF f
<1>19. Between(asks', Len(commands), DevAt)
  <2>1. /\ \A k \in 1 .. Len(commands) : asks[k].last <= DevAt
        /\ \A k \in Len(commands) + 1 .. Len(asks) : DevAt < asks[k].first
    BY <1>1, Zenon DEF Understood, Between
  <2>2. Len(commands) \in Nat /\ Len(commands) <= Len(asks) /\ DevAt \in Nat /\ DevAt <= N
    <3>1. got \in Nat /\ got <= N /\ DevAt \in Nat /\ DevAt <= got
      BY <1>1, DeviceNumbers DEF N
    <3>2. DevAt <= N
      <4> HIDE DEF DevAt
      <4> QED
        BY <1>6, <3>1
    <3> QED
      BY <1>1, <3>1, <3>2, DeviceNumbers
  <2>3. ASSUME NEW k \in 1 .. Len(commands) PROVE asks'[k].last <= DevAt
    <3>1. k \in 1 .. Len(asks)
      BY <1>6, <2>2
    <3> QED
      BY <1>8, <2>1, <3>1, Zenon
  <2>4. ASSUME NEW k \in Len(commands) + 1 .. Len(asks') PROVE DevAt < asks'[k].first
    <3>1. CASE k <= Len(asks)
      <4>1. k \in 1 .. Len(asks) /\ k \in Len(commands) + 1 .. Len(asks)
        BY <1>6, <1>8, <2>2, <3>1
      <4> QED
        BY <1>8, <2>1, <4>1, Zenon
    <3>2. CASE k = Len(asks) + 1
      <4>1. asks'[k].first = N + 1
        BY <1>8, <3>2 DEF mark, Behind, N
      <4>2. \A m, n \in Nat : m <= n => m < n + 1
        OBVIOUS
      <4> QED
        BY <1>6, <2>2, <4>1, <4>2, Zenon
    <3>3. k <= Len(asks) \/ k = Len(asks) + 1
      BY <1>6, <1>8, <2>2
    <3> QED
      BY <3>1, <3>2, <3>3
  <2> QED
    BY <2>3, <2>4, Zenon DEF Between
<1>20. ~serving => \A k \in Len(commands) + 1 .. Len(asked') : got < asks'[k].last
  <2> SUFFICES ASSUME ~serving, NEW k \in Len(commands) + 1 .. Len(asked')
               PROVE  got < asks'[k].last
    OBVIOUS
  <2>1. /\ got \in Nat /\ got <= N /\ Len(commands) \in Nat
    BY <1>1, DeviceNumbers DEF N
  <2>2. CASE k <= Len(asked)
    <3>1. k \in 1 .. Len(asks) /\ k \in Len(commands) + 1 .. Len(asked)
      BY <1>6, <1>13, <2>1, <2>2
    <3>2. got < asks[k].last
      BY <1>1, <3>1 DEF Understood
    <3> QED
      BY <1>8, <3>1, <3>2, Zenon
  <2>3. CASE k = Len(asks) + 1
    <3>1. asks'[k].last = N + L
      BY <1>8, <2>3 DEF mark, Behind, N, L
    <3> QED
      BY <1>3, <1>6, <2>1, <3>1
  <2>4. k <= Len(asked) \/ k = Len(asks) + 1
    BY <1>6, <1>13, <2>1
  <2> QED
    BY <2>2, <2>3, <2>4
<1>21. \A k \in 1 .. Len(commands) : commands[k] = asked'[k]
  <2>1. Len(commands) \in Nat /\ Len(commands) <= Len(asked)
    BY <1>1, DeviceNumbers
  <2>2. \A k \in 1 .. Len(commands) : k \in 1 .. Len(asked)
    BY <1>6, <2>1
  <2> QED
    BY <1>1, <1>13, <2>2 DEF Understood
<1>22. Understood(q)'
  <2>1. Len(commands) <= Len(asked')
    <3>1. Len(commands) \in Nat /\ Len(commands) <= Len(asked)
      BY <1>1, DeviceNumbers
    <3> QED
      BY <1>6, <1>13, <3>1
  <2>2. /\ DevAt \in 0 .. got /\ binary \in BOOLEAN /\ serving \in BOOLEAN
        /\ ~binary => DevAt = 0 /\ got < q /\ ~serving
        /\ binary => q <= DevAt
        /\ commands \in Seq(Asks)
    BY <1>1, Zenon DEF Understood
  <2> QED
    BY <1>16, <1>17, <1>18, <1>19, <1>20, <1>21, <2>1, <2>2, Zenon DEF Understood
<1> QED
  BY <1>15, <1>16, <1>22, Zenon DEF DevLinkInv

\* How far a read comes.
LEMMA ReachBounds ==
  ASSUME NEW line \in Seq(Byte), NEW from \in Nat, from < Len(line), NEW n \in Nat
  PROVE  Reach(line, from, n) \in Nat /\ from <= Reach(line, from, n)
         /\ Reach(line, from, n) <= Len(line)
<1>1. Len(line) \in Nat
  BY LenProperties
<1> DEFINE N == Len(line)
<1> HIDE DEF N
<1>2. Reach(line, from, n) = IF from + n < N THEN from + n ELSE N
  BY DEF Reach, N
<1> QED
  BY <1>1, <1>2 DEF N

\* The device reads on, and scans for the handshake: it is seen with its last
\* byte, and nothing the client sends later is taken for another.
LEMMA FeedKeepsLink ==
  ASSUME DevLinkInv, NEW n \in Nat, got < Len(spoken), got' = Reach(spoken, got, n),
         DevFeed(SubSeq(spoken, got + 1, got')), UNCHANGED <<spoken, asked, asks>>
  PROVE  DevLinkInv' /\ UNCHANGED commands
<1>1. PICK q \in 0 .. Len(spoken) : Speech(q) /\ Understood(q)
  BY DEF DevLinkInv
<1> DEFINE to == got'
           o == DevAt
           b == SubSeq(spoken, o + 1, to)
           from == ScanFrom(devBuf)
           ends == SyncEnds(b, from)
<1>2. /\ spoken \in Seq(Byte) /\ Len(spoken) \in Nat /\ q \in Nat /\ q >= 2 /\ q <= Len(spoken)
      /\ got \in Nat /\ got <= Len(spoken) /\ o \in Nat /\ o <= got
      /\ devBuf = SubSeq(spoken, o + 1, got) /\ devBuf \in Seq(Byte)
      /\ Len(devBuf) = got - o /\ Len(devBuf) \in Nat
      /\ Len(asks) = Len(asked) /\ Len(asked) \in Nat
      /\ Len(commands) \in Nat /\ Len(commands) <= Len(asked)
  BY <1>1, DeviceNumbers
<1>3. to \in Nat /\ got <= to /\ to <= Len(spoken)
  BY <1>2, ReachBounds
<1>4. devBuf \o SubSeq(spoken, got + 1, to) = b
  <2> HIDE DEF o, to
  <2> DEFINE f == o + 1
  <2>1. f \in Nat \ {0} /\ f <= got + 1 /\ got <= to
    <3>1. \A x, y \in Nat : x <= y => x + 1 \in Nat \ {0} /\ x + 1 <= y + 1
      OBVIOUS
    <3> QED
      BY <1>2, <1>3, <3>1, Zenon
  <2>2. devBuf = SubSeq(spoken, f, got)
    BY <1>2
  <2> HIDE DEF f
  <2>3. SubSeq(spoken, f, got) \o SubSeq(spoken, got + 1, to) = SubSeq(spoken, f, to)
    <3>1. spoken \in Seq(Byte) /\ got \in Nat /\ to \in Nat /\ to <= Len(spoken)
      BY <1>2, <1>3, Zenon
    <3> QED
      BY <2>1, <3>1, StretchJoins
  <2> QED
    BY <2>2, <2>3, Zenon DEF f
<1>5. /\ \/ ends = {} /\ devBuf' = b /\ UNCHANGED binary
         \/ \E c \in ends : (\A d \in ends : d <= c) /\ devBuf' = Drop(b, c) /\ binary' = TRUE
      /\ serving' = binary' /\ UNCHANGED commands /\ ~serving
  BY <1>4, Zenon DEF DevFeed
<1> HIDE DEF to
<1>6. /\ b \in Seq(Byte) /\ Len(b) = to - o
      /\ \A i \in 1 .. to - o - 1 : Paired(b, i) <=> Paired(spoken, o + i)
  <2> HIDE DEF o
  <2>1. o <= to
    BY <1>2, <1>3
  <2> QED
    BY <1>2, <1>3, <2>1, PairsOfStretch
<1>7. \A i \in 1 .. Len(spoken) - 1 : Paired(spoken, i) => i \in {q - 1, q}
  BY <1>1 DEF Speech
<1>8. from \in Nat \ {0} /\ (from = 1 \/ from = got - o)
  <2>1. CASE devBuf = <<>>
    BY <2>1 DEF ScanFrom
  <2>2. CASE devBuf # <<>>
    <3>1. from = Len(devBuf) /\ Len(devBuf) # 0
      BY <1>2, <2>2, EmptySeq DEF ScanFrom
    <3> HIDE DEF from
    <3> QED
      BY <1>2, <3>1
  <2> QED
    BY <2>1, <2>2
<1> HIDE DEF b, from, ends
<1>9. binary \in BOOLEAN
  BY <1>1 DEF Understood
<1>10. CASE binary \/ to < q
  <2>1. NoPair(b)
    <3> SUFFICES ASSUME NEW i \in 1 .. Len(b) - 1, Paired(b, i) PROVE FALSE
      BY DEF NoPair
    <3>1. i \in 1 .. to - o - 1 /\ o + i \in 1 .. Len(spoken) - 1
      <4> HIDE DEF o
      <4> QED
        BY <1>2, <1>3, <1>6
    <3>2. o + i \in {q - 1, q}
      BY <1>6, <1>7, <3>1
    <3>3. CASE binary
      <4>1. q <= o
        BY <1>1, <3>3 DEF Understood
      <4> HIDE DEF o
      <4> QED
        BY <1>2, <3>1, <3>2, <4>1
    <3>4. CASE ~binary /\ to < q
      <4>1. o = 0
        BY <1>1, <3>4 DEF Understood
      <4> HIDE DEF o
      <4> QED
        BY <1>2, <1>3, <3>1, <3>2, <3>4, <4>1
    <3> QED
      BY <1>10, <3>3, <3>4
  <2>2. ends = {}
    BY <1>6, <1>8, <2>1, NoPairNoEnd DEF ends
  <2>3. devBuf' = b /\ UNCHANGED binary
    BY <1>5, <2>2
  <2>4. DevAt' = o
    <3>1. Len(devBuf') = to - o
      BY <1>6, <2>3
    <3>2. DevAt' = to - (to - o)
      BY <3>1 DEF DevAt, to
    <3> HIDE DEF o
    <3>3. to - (to - o) = o
      BY <1>2, <1>3
    <3> QED
      BY <3>2, <3>3
  <2>5. /\ o \in 0 .. to /\ to \in 0 .. Len(spoken)
    <3> HIDE DEF o
    <3> QED
      BY <1>2, <1>3
  <2>6. ~binary => o = 0 /\ to < q /\ ~serving'
    BY <1>1, <1>5, <1>10, <2>3 DEF Understood
  <2>7. ~serving' => \A k \in Len(commands) + 1 .. Len(asked) : to < asks[k].last
    <3> SUFFICES ASSUME ~serving', NEW k \in Len(commands) + 1 .. Len(asked)
                 PROVE  to < asks[k].last
      OBVIOUS
    <3>1. ~binary /\ to < q
      <4>1. ~binary
        BY <1>5, <2>3
      <4> QED
        BY <1>10, <4>1
    <3>2. k \in 1 .. Len(asks)
      BY <1>2
    <3>3. /\ q < asks[k].first /\ asks[k].first < asks[k].last
          /\ asks[k].first \in Nat /\ asks[k].last \in Nat
      BY <1>1, <3>2, LaidOrder, LaidNumbers DEF Speech
    <3>4. \A a, b1, c, d \in Nat : a < b1 /\ b1 < c /\ c < d => a < d
      OBVIOUS
    <3>5. to \in Nat /\ q \in Nat
      BY <1>2, <1>3
    <3> QED
      BY <3>1, <3>3, <3>4, <3>5, Zenon
  <2>8. Understood(q)'
    <3>1. /\ binary' \in BOOLEAN /\ serving' \in BOOLEAN
          /\ binary' => q <= o
          /\ commands' \in Seq(Asks) /\ Len(commands') <= Len(asked')
          /\ \A k \in 1 .. Len(commands') : commands'[k] = asked'[k]
          /\ Between(asks, Len(commands), o)
      BY <1>1, <1>5, <2>3, Zenon DEF Understood
    <3>2. devBuf' = SubSeq(spoken', DevAt' + 1, got')
      BY <2>3, <2>4, Zenon DEF b, to
    <3>3. ~binary' => DevAt' = 0 /\ got' < q /\ ~serving'
      BY <2>3, <2>4, <2>6 DEF to
    <3>4. got' \in 0 .. Len(spoken') /\ DevAt' \in 0 .. got'
      BY <2>4, <2>5, Zenon DEF to
    <3>5. ~serving' => \A k \in Len(commands') + 1 .. Len(asked') : got' < asks'[k].last
      BY <1>5, <2>7, Zenon DEF to
    <3>6. Between(asks', Len(commands'), DevAt')
      BY <1>5, <2>4, <3>1, Zenon
    <3> HIDE DEF o
    <3>7. binary' => q <= DevAt'
      BY <2>4, <3>1, Zenon
    <3> QED
      BY <3>1, <3>2, <3>3, <3>4, <3>5, <3>6, <3>7, Zenon DEF Understood
  <2>9. Speech(q)'
    BY <1>1, Zenon DEF Speech, Paired
  <2> QED
    BY <1>5, <2>8, <2>9, Zenon DEF DevLinkInv
<1>11. CASE ~binary /\ q <= to
  <2>1. o = 0 /\ got < q /\ Len(commands) = 0
    BY <1>1, <1>11, NothingBeforeHello
  <2>2. Len(b) = to
    BY <1>3, <1>6, <2>1
  <2>3. ends = {q}
    <3>1. \A i \in 1 .. to - 1 : Paired(b, i) <=> Paired(spoken, i)
      <4> HIDE DEF o
      <4>1. \A i \in 1 .. to - 1 : i \in 1 .. to - o - 1 /\ o + i = i
        BY <1>3, <2>1
      <4> QED
        BY <1>6, <4>1
    <3>2. \A i \in 1 .. Len(b) - 1 : Paired(b, i) => i \in {q - 1, q}
      <4>1. \A i \in 1 .. to - 1 : i \in 1 .. Len(spoken) - 1
        BY <1>2, <1>3
      <4> QED
        BY <1>7, <2>2, <3>1, <4>1, Zenon
    <3>3. Paired(b, q - 1)
      <4> DEFINE i == q - 1
      <4>1. i \in 1 .. to - 1
        BY <1>2, <1>3, <1>11
      <4>2. Paired(spoken, i)
        BY <1>1 DEF Speech
      <4> HIDE DEF i
      <4>3. Paired(b, i)
        BY <3>1, <4>1, <4>2
      <4> QED
        BY <4>3 DEF i
    <3>4. from < q /\ q <= Len(b)
      <4> HIDE DEF o
      <4> QED
        BY <1>2, <1>8, <1>11, <2>1, <2>2
    <3> QED
      BY <1>2, <1>6, <1>8, <3>2, <3>3, <3>4, HelloIsFound DEF ends
  <2>4. devBuf' = Drop(b, q) /\ binary' = TRUE /\ serving' = TRUE
    BY <1>5, <2>3
  <2>5. devBuf' = SubSeq(spoken, q + 1, to) /\ Len(devBuf') = to - q
    <3>1. 1 \in Nat \ {0} /\ 1 <= to + 1 /\ q \in 0 .. to - 1 + 1 /\ 1 + q = q + 1 /\ q \in 0 .. Len(b)
      BY <1>2, <1>3, <1>11, <2>2
    <3>2. b = SubSeq(spoken, 1, to)
      <4>1. o + 1 = 1
        BY <2>1
      <4> HIDE DEF o
      <4> QED
        BY <4>1, Zenon DEF b
    <3>3. Drop(SubSeq(spoken, 1, to), q) = SubSeq(spoken, 1 + q, to)
      <4> DEFINE f == 1
      <4>1. f \in Nat \ {0} /\ f <= to + 1 /\ q \in 0 .. to - f + 1
        BY <3>1
      <4>2. spoken \in Seq(Byte) /\ to \in Nat /\ to <= Len(spoken)
        BY <1>2, <1>3, Zenon
      <4> HIDE DEF f
      <4>3. Drop(SubSeq(spoken, f, to), q) = SubSeq(spoken, f + q, to)
        BY <4>1, <4>2, CutStretch
      <4> QED
        BY <4>3 DEF f
    <3>4. Len(Drop(b, q)) = Len(b) - q
      BY <1>6, <3>1, Dropping
    <3> QED
      BY <2>2, <2>4, <3>1, <3>2, <3>3, <3>4
  <2>6. DevAt' = q
    <3>1. DevAt' = to - (to - q)
      BY <2>5 DEF DevAt, to
    <3>2. to - (to - q) = q
      BY <1>2, <1>3
    <3> QED
      BY <3>1, <3>2
  <2>7. Between(asks, Len(commands), q)
    <3>1. \A k \in 1 .. Len(asks) : q < asks[k].first
      BY <1>1, LaidOrder DEF Speech
    <3>2. Len(commands) + 1 = 1 /\ \A k \in 1 .. 0 : FALSE
      BY <2>1
    <3> QED
      BY <2>1, <3>1, <3>2 DEF Between
  <2>8. Understood(q)'
    <3>1. /\ commands' \in Seq(Asks) /\ Len(commands') <= Len(asked')
          /\ \A k \in 1 .. Len(commands') : commands'[k] = asked'[k]
      BY <1>1, <1>5, Zenon DEF Understood
    <3>2. devBuf' = SubSeq(spoken', DevAt' + 1, got')
      BY <2>5, <2>6, Zenon DEF to
    <3>3. got' \in 0 .. Len(spoken') /\ DevAt' \in 0 .. got'
      <4>1. to \in 0 .. Len(spoken) /\ q \in 0 .. to
        BY <1>2, <1>3, <1>11
      <4> QED
        BY <2>6, <4>1, Zenon DEF to
    <3>4. Between(asks', Len(commands'), DevAt')
      BY <1>5, <2>6, <2>7, Zenon
    <3>5. q <= DevAt' /\ binary' \in BOOLEAN /\ serving' \in BOOLEAN
      BY <1>2, <2>4, <2>6
    <3> QED
      BY <2>4, <3>1, <3>2, <3>3, <3>4, <3>5, Zenon DEF Understood
  <2>9. Speech(q)'
    BY <1>1, Zenon DEF Speech, Paired
  <2> QED
    BY <1>5, <2>8, <2>9, Zenon DEF DevLinkInv
<1>12. to < q \/ q <= to
  BY <1>2, <1>3
<1> QED
  BY <1>10, <1>11, <1>12, <1>9

\* One command more is behind the device.
LEMMA TurnTakes ==
  ASSUME NEW q \in 0 .. Len(spoken), Speech(q), Understood(q), binary,
         NEW j, j = Len(commands) + 1, j <= Len(asked), asks[j].last <= got,
         commands' = Append(commands, asked[j]),
         devBuf' = SubSeq(spoken, asks[j].last + 1, got),
         UNCHANGED <<binary, serving, spoken, got, asked, asks>>, serving
  PROVE  Speech(q)' /\ Understood(q)'
<1> DEFINE l == asks[j].last
           n == Len(commands)
<1>1. /\ spoken \in Seq(Byte) /\ Len(spoken) \in Nat /\ q \in Nat /\ q >= 2 /\ q <= Len(spoken)
      /\ got \in Nat /\ got <= Len(spoken)
      /\ Len(asks) = Len(asked) /\ Len(asked) \in Nat
      /\ n \in Nat /\ n <= Len(asked)
  BY DeviceNumbers
<1>2. j \in 1 .. Len(asks) /\ j \in 1 .. Len(asked) /\ j \in Nat
  <2> HIDE DEF n
  <2> QED
    BY <1>1 DEF n
<1>3. /\ q < asks[j].first /\ asks[j].first < l
      /\ \A k \in j + 1 .. Len(asks) : l < asks[k].first
  BY <1>2, LaidOrder DEF Speech
<1>4. asks[j].first \in Nat /\ l \in Nat
  BY <1>2, LaidNumbers DEF Speech
<1>5. l <= got /\ q <= l
  <2>1. \A a, b, c \in Nat : a < b /\ b < c => a <= c
    OBVIOUS
  <2> QED
    BY <1>1, <1>3, <1>4, <2>1, Zenon
<1> HIDE DEF l
<1>6. Len(devBuf') = got - l /\ devBuf' = SubSeq(spoken, l + 1, got)
  <2>1. devBuf' = SubSeq(spoken, l + 1, got)
    BY DEF l
  <2>2. Len(SubSeq(spoken, l + 1, got)) = got - l
    BY <1>1, <1>4, <1>5, PairsOfStretch
  <2> QED
    BY <2>1, <2>2
<1>7. DevAt' = l
  <2>1. DevAt' = got - (got - l)
    BY <1>6, Zenon DEF DevAt
  <2>2. got - (got - l) = l
    BY <1>1, <1>4
  <2> QED
    BY <2>1, <2>2
<1>8. /\ commands \in Seq(Asks) /\ asked \in Seq(Asks)
      /\ \A k \in 1 .. n : commands[k] = asked[k]
  BY Zenon DEF Understood, Speech
<1>9. /\ commands' \in Seq(Asks) /\ Len(commands') = j /\ commands'[j] = asked[j]
      /\ \A k \in 1 .. n : commands'[k] = commands[k]
  <2>1. asked[j] \in Asks
    BY <1>2, <1>8, ElementOfSeq
  <2> QED
    BY <1>8, <2>1, AppendProperties
<1>10. \A k \in 1 .. j : commands'[k] = asked[k]
  <2> SUFFICES ASSUME NEW k \in 1 .. j PROVE commands'[k] = asked[k]
    OBVIOUS
  <2> HIDE DEF n
  <2>1. k = j \/ k \in 1 .. n
    BY <1>1, <1>2 DEF n
  <2> QED
    BY <1>8, <1>9, <2>1
<1>11. Between(asks, j, l)
  <2>1. /\ \A k \in 1 .. n : asks[k].last <= DevAt
    BY Zenon DEF Understood, Between
  <2>2. ASSUME NEW k \in 1 .. j PROVE asks[k].last <= l
    <3>1. CASE k = j
      BY <1>4, <3>1 DEF l
    <3>2. CASE k # j
      <4>1. k \in 1 .. Len(asks) /\ j \in k + 1 .. Len(asks)
        BY <1>2, <3>2
      <4>2. asks[k].last < asks[j].first
        BY <4>1, LaidOrder DEF Speech
      <4>3. asks[k].last \in Nat
        BY <4>1, LaidNumbers DEF Speech
      <4>4. \A a, b, c \in Nat : a < b /\ b < c => a <= c
        OBVIOUS
      <4> QED
        BY <1>3, <1>4, <4>2, <4>3, <4>4, Zenon
    <3> QED
      BY <3>1, <3>2
  <2> QED
    BY <1>3, <2>2 DEF Between
<1>12. Speech(q)'
  BY Zenon DEF Speech, Paired
<1>13. Understood(q)'
  <2>1. got' \in 0 .. Len(spoken') /\ DevAt' \in 0 .. got'
    <3>1. got \in 0 .. Len(spoken) /\ l \in 0 .. got
      BY <1>1, <1>4, <1>5
    <3> QED
      BY <1>7, <3>1, Zenon
  <2>2. devBuf' = SubSeq(spoken', DevAt' + 1, got')
    BY <1>6, <1>7, Zenon
  <2>3. /\ binary' \in BOOLEAN /\ serving' \in BOOLEAN
        /\ ~binary' => DevAt' = 0 /\ got' < q /\ ~serving'
    BY DEF Understood
  <2>4. binary' => q <= DevAt'
    BY <1>5, <1>7, Zenon
  <2>5. /\ commands' \in Seq(Asks) /\ Len(commands') <= Len(asked')
        /\ \A k \in 1 .. Len(commands') : commands'[k] = asked'[k]
    BY <1>9, <1>10, Zenon
  <2>6. Between(asks', Len(commands'), DevAt')
    BY <1>7, <1>9, <1>11, Zenon
  <2>7. ~serving' => \A k \in Len(commands') + 1 .. Len(asked') : got' < asks'[k].last
    OBVIOUS
  <2> QED
    BY <2>1, <2>2, <2>3, <2>4, <2>5, <2>6, <2>7, Zenon DEF Understood
<1> QED
  BY <1>12, <1>13

\* The device has what there is, and waits for more.
LEMMA TurnWaits ==
  ASSUME NEW q \in 0 .. Len(spoken), Speech(q), Understood(q), binary,
         NEW p \in DevAt .. got, Between(asks, Len(commands), p),
         \A k \in Len(commands) + 1 .. Len(asked) : got < asks[k].last,
         devBuf' = SubSeq(spoken, p + 1, got), serving' = FALSE,
         UNCHANGED <<binary, commands, spoken, got, asked, asks>>
  PROVE  Speech(q)' /\ Understood(q)'
<1>1. /\ spoken \in Seq(Byte) /\ Len(spoken) \in Nat
      /\ got \in Nat /\ got <= Len(spoken) /\ DevAt \in Nat /\ q \in Nat
  BY DeviceNumbers
<1>2. p \in Nat /\ p <= got /\ q <= p
  <2> DEFINE o == DevAt
  <2>1. o \in Nat /\ q <= o /\ p \in o .. got
    BY <1>1 DEF Understood
  <2> HIDE DEF o
  <2> QED
    BY <1>1, <2>1
<1>3. Len(devBuf') = got - p
  BY <1>1, <1>2, PairsOfStretch
<1>4. DevAt' = p
  <2>1. DevAt' = got - (got - p)
    BY <1>3, Zenon DEF DevAt
  <2>2. got - (got - p) = p
    BY <1>1, <1>2
  <2> QED
    BY <2>1, <2>2
<1>5. Speech(q)'
  BY Zenon DEF Speech, Paired
<1>6. Understood(q)'
  <2>1. got' \in 0 .. Len(spoken') /\ DevAt' \in 0 .. got'
    <3>1. got \in 0 .. Len(spoken) /\ p \in 0 .. got
      BY <1>1, <1>2
    <3> QED
      BY <1>4, <3>1, Zenon
  <2>2. devBuf' = SubSeq(spoken', DevAt' + 1, got')
    BY <1>4, Zenon
  <2>3. /\ binary' \in BOOLEAN /\ serving' \in BOOLEAN
        /\ ~binary' => DevAt' = 0 /\ got' < q /\ ~serving'
    BY DEF Understood
  <2>4. binary' => q <= DevAt'
    BY <1>2, <1>4, Zenon
  <2>5. /\ commands' \in Seq(Asks) /\ Len(commands') <= Len(asked')
        /\ \A k \in 1 .. Len(commands') : commands'[k] = asked'[k]
    BY DEF Understood
  <2>6. Between(asks', Len(commands'), DevAt')
    BY <1>4, Zenon
  <2>7. ~serving' => \A k \in Len(commands') + 1 .. Len(asked') : got' < asks'[k].last
    BY Zenon
  <2> QED
    BY <2>1, <2>2, <2>3, <2>4, <2>5, <2>6, <2>7, Zenon DEF Understood
<1> QED
  BY <1>5, <1>6

\* A round of the device's loop takes the next thing asked, or waits for the
\* rest of it.
LEMMA PassKeepsLink ==
  ASSUME DevLinkInv, DevPass, UNCHANGED <<spoken, got, asked, asks>>
  PROVE  /\ DevLinkInv'
         /\ \/ UNCHANGED commands
            \/ /\ Len(commands) < Len(asked)
               /\ commands' = Append(commands, asked[Len(commands) + 1])
<1>1. PICK q \in 0 .. Len(spoken) : Speech(q) /\ Understood(q)
  BY DEF DevLinkInv
<1>2. PICK k \in 0 .. Len(devBuf) : Skippable(k, devBuf) /\ DevRound(Drop(devBuf, k))
  BY DEF DevPass
<1> DEFINE o == DevAt
           p == o + k
           b == Drop(devBuf, k)
           n == Len(commands)
           j == n + 1
<1>3. /\ spoken \in Seq(Byte) /\ Len(spoken) \in Nat /\ q \in Nat /\ q >= 2 /\ q <= Len(spoken)
      /\ got \in Nat /\ got <= Len(spoken) /\ o \in Nat /\ o <= got
      /\ devBuf = SubSeq(spoken, o + 1, got) /\ devBuf \in Seq(Byte)
      /\ Len(devBuf) = got - o /\ Len(devBuf) \in Nat
      /\ Len(asks) = Len(asked) /\ Len(asked) \in Nat
      /\ n \in Nat /\ n <= Len(asked)
  BY <1>1, DeviceNumbers
<1>4. binary /\ serving /\ binary \in BOOLEAN /\ serving \in BOOLEAN /\ q <= o
  BY <1>1 DEF Understood, DevPass
<1>5. p \in Nat /\ p >= o /\ p <= got /\ k \in Nat /\ o + 1 + k = p + 1
  <2> HIDE DEF o
  <2> QED
    BY <1>2, <1>3
<1>6. b = SubSeq(spoken, p + 1, got)
  <2> DEFINE f == o + 1
  <2>1. f \in Nat \ {0} /\ f <= got + 1 /\ k \in 0 .. got - f + 1 /\ devBuf = SubSeq(spoken, f, got)
        /\ f + k = p + 1
    <3>1. devBuf = SubSeq(spoken, f, got) /\ f + k = p + 1
      BY <1>3, <1>5
    <3> HIDE DEF o
    <3> QED
      BY <1>2, <1>3, <3>1
  <2>2. spoken \in Seq(Byte) /\ got \in Nat /\ got <= Len(spoken)
    BY <1>3, Zenon
  <2> HIDE DEF f, p
  <2>3. Drop(SubSeq(spoken, f, got), k) = SubSeq(spoken, f + k, got)
    BY <2>1, <2>2, CutStretch
  <2> QED
    BY <2>1, <2>3, Zenon
<1> HIDE DEF p
<1>7. /\ b \in Seq(Byte) /\ Len(b) = got - p /\ Len(b) \in Nat
      /\ \A i \in 1 .. got - p : b[i] = spoken[p + i]
  <2> DEFINE f == p + 1
  <2>1. f \in Nat \ {0} /\ f <= got + 1 /\ got - f + 1 = got - p
        /\ \A i \in 1 .. got - p : f + i - 1 = p + i
    BY <1>3, <1>5
  <2>2. spoken \in Seq(Byte) /\ got \in Nat /\ got <= Len(spoken) /\ b = SubSeq(spoken, f, got)
    BY <1>3, <1>6, Zenon
  <2> HIDE DEF f, b
  <2>3. /\ SubSeq(spoken, f, got) \in Seq(Byte) /\ Len(SubSeq(spoken, f, got)) = got - f + 1
        /\ \A i \in 1 .. got - f + 1 : SubSeq(spoken, f, got)[i] = spoken[f + i - 1]
    BY <2>1, <2>2, Stretch
  <2>4. b \in Seq(Byte) /\ Len(b) = got - p /\ \A i \in 1 .. got - p : b[i] = spoken[p + i]
    BY <2>1, <2>2, <2>3
  <2> QED
    BY <2>4, LenProperties
<1>8. \A i \in o + 1 .. p : spoken[i] # CMD
  <2> SUFFICES ASSUME NEW i \in o + 1 .. p PROVE spoken[i] # CMD
    OBVIOUS
  <2> DEFINE h == i - o
  <2>1. h \in 1 .. k /\ o + h = i /\ h \in 1 .. got - o
    <3> HIDE DEF o
    <3> QED
      BY <1>3, <1>5 DEF p
  <2> HIDE DEF h
  <2>2. devBuf[h] # CMD
    BY <1>2, <2>1 DEF Skippable
  <2>3. devBuf[h] = spoken[i]
    <3> DEFINE f == o + 1
    <3>1. f \in Nat \ {0} /\ f <= got + 1 /\ got - f + 1 = got - o /\ f + h - 1 = i
          /\ devBuf = SubSeq(spoken, f, got)
      <4>1. devBuf = SubSeq(spoken, f, got)
        BY <1>3
      <4> HIDE DEF o
      <4> QED
        BY <1>3, <2>1, <4>1
    <3>2. spoken \in Seq(Byte) /\ got \in Nat /\ got <= Len(spoken)
      BY <1>3, Zenon
    <3> HIDE DEF f
    <3>3. \A m \in 1 .. got - f + 1 : SubSeq(spoken, f, got)[m] = spoken[f + m - 1]
      BY <3>1, <3>2, Stretch
    <3> QED
      BY <2>1, <3>1, <3>3
  <2> QED
    BY <2>2, <2>3
<1>9. Laid(spoken, q, asks) /\ Between(asks, n, o)
  BY <1>1, Zenon DEF Speech, Understood
<1>10. /\ Between(asks, n, p)
       /\ p < Len(spoken) /\ spoken[p + 1] = CMD => n < Len(asks) /\ asks[j].first = p + 1
  <2>1. n \in 0 .. Len(asks) /\ o \in q .. Len(spoken) /\ p \in o .. Len(spoken)
    <3> HIDE DEF n, o
    <3> QED
      BY <1>3, <1>4, <1>5
  <2> HIDE DEF n, o
  <2> QED
    BY <1>8, <1>9, <2>1, NextFound
<1>11. p \in o .. got
  <2> HIDE DEF o
  <2> QED
    BY <1>3, <1>5
<1> HIDE DEF b
<1>12. CASE p = got
  <2>1. Len(b) = 0
    BY <1>3, <1>7, <1>12
  <2>2. Unfinished(b)
    BY <2>1 DEF Unfinished
  <2>3. DevWait(b)
    BY <1>2, <2>2 DEF DevRound, DevTakeTransmit, DevTakeRequest, b
  <2>4. devBuf' = SubSeq(spoken, p + 1, got) /\ serving' = FALSE /\ UNCHANGED <<binary, commands>>
    BY <1>6, <2>3, Zenon DEF DevWait
  <2>5. \A l \in Len(commands) + 1 .. Len(asked) : got < asks[l].last
    <3> SUFFICES ASSUME NEW l \in Len(commands) + 1 .. Len(asked) PROVE got < asks[l].last
      OBVIOUS
    <3>1. l \in 1 .. Len(asks) /\ l \in n + 1 .. Len(asks)
      BY <1>3
    <3>2. p < asks[l].first
      BY <1>10, <3>1 DEF Between
    <3>3. asks[l].first < asks[l].last /\ asks[l].first \in Nat /\ asks[l].last \in Nat
      BY <1>9, <3>1, LaidOrder, LaidNumbers
    <3>4. \A x, y, z \in Nat : x < y /\ y < z => x < z
      OBVIOUS
    <3> QED
      BY <1>5, <1>12, <3>2, <3>3, <3>4, Zenon
  <2>6. Speech(q)' /\ Understood(q)'
    BY <1>1, <1>4, <1>10, <1>11, <2>4, <2>5, TurnWaits
  <2> QED
    BY <2>4, <2>6, Zenon DEF DevLinkInv
<1>13. CASE p < got
  <2>1. b[1] = CMD /\ spoken[p + 1] = CMD /\ p < Len(spoken) /\ Len(b) >= 1
    <3>1. k < Len(devBuf)
      <4> HIDE DEF o
      <4> QED
        BY <1>2, <1>3, <1>13 DEF p
    <3>2. devBuf[k + 1] = CMD
      BY <1>2, <3>1 DEF Skippable
    <3>3. b[1] = devBuf[k + 1]
      <4>1. \A i \in 1 .. Len(devBuf) - k : b[i] = devBuf[k + i]
        BY <1>2, <1>3, Dropping DEF b
      <4>2. 1 \in 1 .. Len(devBuf) - k
        BY <1>3, <1>5, <3>1
      <4> QED
        BY <4>1, <4>2
    <3>4. 1 \in 1 .. got - p /\ p < Len(spoken) /\ got - p >= 1
      BY <1>3, <1>5, <1>13
    <3> QED
      BY <1>7, <3>2, <3>3, <3>4
  <2>2. n < Len(asked) /\ asks[j].first = p + 1
    BY <1>3, <1>10, <2>1
  <2> DEFINE l == asks[j].last
             a == asked[j]
             e == Spelt(a)
  <2>3. j \in 1 .. Len(asks) /\ j \in 1 .. Len(asked)
    <3> HIDE DEF n
    <3> QED
      BY <1>3, <2>2
  <2>4. l \in Nat /\ p + 1 < l /\ l <= Len(spoken)
    BY <1>9, <2>2, <2>3, LaidOrder, LaidNumbers
  <2>5. a \in Asks /\ SubSeq(spoken, p + 1, l) = e
    <3>1. asked \in Seq(Asks) /\ SubSeq(spoken, asks[j].first, asks[j].last) = Spelt(asked[j])
      BY <1>1, <2>3, Zenon DEF Speech
    <3> QED
      BY <2>2, <2>3, <3>1, ElementOfSeq
  <2>6. /\ e \in Seq(Byte) /\ Len(e) >= 2 /\ Len(e) \in Nat
        /\ \/ a \in Transmit /\ a.op = OP_FRAME /\ e = EncodeTransmit(a)
              /\ e[2] = OP_FRAME /\ Len(e) = 8 + Len(a.data)
           \/ a = [op |-> a.op] /\ a.op \in Requests /\ a.op # OP_FRAME
              /\ e[2] = a.op /\ Len(e) = 2
    BY <2>5, SpeltBytes
  <2> HIDE DEF l, a, e
  <2>7. Len(e) = l - p /\ \A i \in 1 .. l - p : e[i] = spoken[p + i]
    <3> DEFINE f == p + 1
    <3>1. f \in Nat \ {0} /\ f <= l + 1 /\ l - f + 1 = l - p /\ \A i \in 1 .. l - p : f + i - 1 = p + i
      BY <1>5, <2>4
    <3>2. e = SubSeq(spoken, f, l)
      BY <2>5
    <3>3. spoken \in Seq(Byte) /\ l \in Nat /\ l <= Len(spoken)
      BY <1>3, <2>4, Zenon
    <3> HIDE DEF f
    <3>4. /\ Len(SubSeq(spoken, f, l)) = l - f + 1
          /\ \A i \in 1 .. l - f + 1 : SubSeq(spoken, f, l)[i] = spoken[f + i - 1]
      BY <3>1, <3>3, Stretch
    <3> QED
      BY <3>1, <3>2, <3>4
  <2>8. \A i \in Nat : i >= 1 /\ i <= Len(b) /\ i <= Len(e) => b[i] = e[i]
    <3> SUFFICES ASSUME NEW i \in Nat, i >= 1, i <= Len(b), i <= Len(e) PROVE b[i] = e[i]
      OBVIOUS
    <3>1. i \in 1 .. got - p /\ i \in 1 .. l - p
      BY <1>7, <2>7
    <3> QED
      BY <1>7, <2>7, <3>1
  <2>9. l <= got <=> Len(e) <= Len(b)
    <3>1. \A x, y, z \in Nat : y <= x <=> y - z <= x - z
      OBVIOUS
    <3>2. l <= got <=> l - p <= got - p
      BY <1>3, <1>5, <2>4, <3>1
    <3> QED
      BY <1>7, <2>7, <3>2
  <2>10. Len(b) >= 2 => b[2] = e[2]
    BY <2>6, <2>8
  <2>11. ASSUME Len(b) >= 8, a \in Transmit, e = EncodeTransmit(a), Len(e) = 8 + Len(a.data)
         PROVE  TransmitLen(b) = Len(e)
    <3>1. EncodeTransmit(a)[8] = Len(a.data) /\ Len(a.data) \in 0 .. 8
      BY <2>11, TransmitBytes
    <3>2. 8 <= Len(e)
      BY <2>11, <3>1
    <3>3. b[8] = e[8]
      BY <2>8, <2>11, <3>2
    <3> QED
      BY <2>11, <3>1, <3>3, Zenon DEF TransmitLen, TRANSMIT_HEADER
  <2>12. ASSUME l <= got, Drop(b, Len(e)) = devBuf', commands' = Append(commands, a),
                UNCHANGED <<binary, serving>>
         PROVE  Speech(q)' /\ Understood(q)' /\ commands' = Append(commands, asked[j])
    <3>1. devBuf' = SubSeq(spoken, l + 1, got)
      <4> DEFINE f == p + 1
                 m == Len(e)
      <4>1. f \in Nat \ {0} /\ f <= got + 1 /\ m \in 0 .. got - f + 1 /\ f + m = l + 1
            /\ b = SubSeq(spoken, f, got)
        BY <1>3, <1>5, <1>6, <2>4, <2>7, <2>12
      <4>2. spoken \in Seq(Byte) /\ got \in Nat /\ got <= Len(spoken)
        BY <1>3, Zenon
      <4> HIDE DEF f, m
      <4>3. Drop(SubSeq(spoken, f, got), m) = SubSeq(spoken, f + m, got)
        BY <4>1, <4>2, CutStretch
      <4> QED
        BY <2>12, <4>1, <4>3, Zenon DEF m
    <3>2. commands' = Append(commands, asked[j])
      BY <2>12 DEF a
    <3>3. j = Len(commands) + 1 /\ j <= Len(asked)
      BY <2>3
    <3>4. /\ asks[j].last <= got /\ devBuf' = SubSeq(spoken, asks[j].last + 1, got)
      BY <2>12, <3>1 DEF l
    <3> HIDE DEF j
    <3>5. Speech(q)' /\ Understood(q)'
      BY <1>1, <1>4, <2>12, <3>2, <3>3, <3>4, TurnTakes
    <3> QED
      BY <3>2, <3>5
  <2>13. CASE DevTakeTransmit(b)
    <3>1. Len(b) >= 2 /\ b[2] = OP_FRAME /\ ~Unfinished(b)
      BY <2>13 DEF DevTakeTransmit, IsTransmit
    <3>2. a \in Transmit /\ e = EncodeTransmit(a) /\ Len(e) = 8 + Len(a.data)
      BY <2>6, <2>10, <3>1
    <3>3. Len(b) >= 8 /\ ~(Len(b) < TransmitLen(b))
      BY <3>1, Zenon DEF Unfinished, IsTransmit, TRANSMIT_HEADER
    <3>4. TransmitLen(b) = Len(e)
      BY <2>11, <3>2, <3>3
    <3>5. Len(e) <= Len(b)
      BY <1>7, <2>6, <3>3, <3>4
    <3>6. TransmitCommand(b) = a
      <4>1. \A i \in 1 .. 8 + Len(a.data) : b[i] = EncodeTransmit(a)[i]
        <5>1. \A i \in 1 .. Len(e) : b[i] = e[i]
          BY <1>7, <2>6, <2>8, <3>5
        <5> QED
          BY <3>2, <5>1, Zenon
      <4>2. Len(b) >= 8 + Len(a.data)
        BY <1>7, <2>6, <3>2, <3>5
      <4> QED
        BY <1>7, <3>2, <4>1, <4>2, TransmitRoundTrip
    <3>7. /\ commands' = Append(commands, a) /\ Drop(b, Len(e)) = devBuf'
          /\ UNCHANGED <<binary, serving>>
      BY <2>13, <3>4, <3>6, Zenon DEF DevTakeTransmit
    <3> QED
      BY <2>2, <2>9, <2>12, <3>5, <3>7, Zenon DEF DevLinkInv
  <2>14. CASE DevTakeRequest(b)
    <3>1. Len(b) >= 2 /\ b[2] # OP_FRAME
      BY <1>7, <2>14 DEF DevTakeRequest, IsTransmit, Unfinished
    <3>2. a = [op |-> a.op] /\ a.op \in Requests /\ b[2] = a.op /\ Len(e) = 2
      BY <2>6, <2>10, <3>1
    <3>3. /\ commands' = Append(commands, a) /\ Drop(b, Len(e)) = devBuf'
          /\ UNCHANGED <<binary, serving>>
      BY <2>14, <3>2 DEF DevTakeRequest
    <3>4. Len(e) <= Len(b)
      BY <3>1, <3>2
    <3> QED
      BY <2>2, <2>9, <2>12, <3>3, <3>4, Zenon DEF DevLinkInv
  <2>15. CASE DevWait(b)
    <3>1. devBuf' = SubSeq(spoken, p + 1, got) /\ serving' = FALSE /\ UNCHANGED <<binary, commands>>
      BY <1>6, <2>15, Zenon DEF DevWait
    <3>2. got < l
      <4> SUFFICES ASSUME Len(e) <= Len(b) PROVE FALSE
        BY <1>3, <2>4, <2>9
      <4>1. Unfinished(b) /\ Len(b) >= 2 /\ b[2] = e[2]
        BY <1>7, <2>6, <2>10, <2>15 DEF DevWait
      <4>2. IsTransmit(b) /\ (Len(b) >= TRANSMIT_HEADER => Len(b) < TransmitLen(b))
        BY <1>7, <4>1 DEF Unfinished
      <4>3. a \in Transmit /\ e = EncodeTransmit(a) /\ Len(e) = 8 + Len(a.data)
        BY <2>6, <4>1, <4>2 DEF IsTransmit
      <4>4. Len(e) >= 8
        <5>1. Len(a.data) \in 0 .. 8
          BY <4>3, TransmitBytes
        <5> QED
          BY <4>3, <5>1
      <4>5. Len(b) >= 8
        BY <1>7, <2>6, <4>4
      <4>6. TransmitLen(b) = Len(e)
        BY <2>11, <4>3, <4>5
      <4> QED
        BY <1>7, <2>6, <4>2, <4>5, <4>6 DEF TRANSMIT_HEADER
    <3>3. \A m \in Len(commands) + 1 .. Len(asked) : got < asks[m].last
      <4> SUFFICES ASSUME NEW m \in Len(commands) + 1 .. Len(asked) PROVE got < asks[m].last
        OBVIOUS
      <4>1. CASE m = j
        BY <3>2, <4>1 DEF l
      <4>2. CASE m # j
        <5>1. m \in 1 .. Len(asks) /\ m \in j + 1 .. Len(asks)
          <6> DEFINE c == Len(commands)
          <6>1. c \in Nat /\ m \in c + 1 .. Len(asks) /\ m # c + 1
            BY <1>3, <4>2
          <6> HIDE DEF c
          <6>2. m \in 1 .. Len(asks) /\ m \in c + 1 + 1 .. Len(asks)
            BY <1>3, <6>1
          <6> QED
            BY <6>2 DEF c
        <5>2. l < asks[m].first
          BY <1>9, <2>3, <5>1, LaidOrder DEF l
        <5>3. asks[m].first < asks[m].last /\ asks[m].first \in Nat /\ asks[m].last \in Nat
          BY <1>9, <5>1, LaidOrder, LaidNumbers
        <5>4. \A w, x, y, z \in Nat : w < x /\ x < y /\ y < z => w < z
          OBVIOUS
        <5> QED
          BY <1>3, <2>4, <3>2, <5>2, <5>3, <5>4, Zenon
      <4> QED
        BY <4>1, <4>2
    <3>4. Speech(q)' /\ Understood(q)'
      BY <1>1, <1>4, <1>10, <1>11, <3>1, <3>3, TurnWaits
    <3> QED
      BY <3>1, <3>4, Zenon DEF DevLinkInv
  <2> QED
    BY <1>2, <2>13, <2>14, <2>15 DEF DevRound, b
<1>14. p = got \/ p < got
  BY <1>3, <1>5
<1> QED
  BY <1>12, <1>13, <1>14

LEMMA LinkDeviceStep ==
  DevLinkInv /\ [LinkNext]_linkVars =>
    DevLinkInv' /\ [Commands!Put \/ Commands!Deliver]_<<asked, commands>>
<1> SUFFICES ASSUME DevLinkInv, [LinkNext]_linkVars
             PROVE  /\ DevLinkInv'
                    /\ Commands!Put \/ Commands!Deliver \/ UNCHANGED <<asked, commands>>
  BY Zenon
<1>1. ASSUME NEW a \in Asks, NEW checksum \in {<<>>, << 0 >>}, Ask(a, checksum)
      PROVE  DevLinkInv' /\ Commands!Put
  <2>1. DevLinkInv'
    BY <1>1, AskKeepsLink
  <2>2. asked' = Append(asked, a) /\ UNCHANGED commands
    BY <1>1, Zenon DEF Ask, devVars
  <2>3. asked \in Seq(Asks)
    BY DEF DevLinkInv, Speech
  <2>4. Len(asked') = Len(asked) + 1 /\ SubSeq(asked', 1, Len(asked)) = asked
    BY <2>2, <2>3
  <2> QED
    BY <2>1, <2>2, <2>4, Zenon DEF Commands!Put
<1>2. ASSUME NEW n \in ChunkSizes, DeviceReads(n)
      PROVE  DevLinkInv' /\ UNCHANGED <<asked, commands>>
  <2>1. n \in Nat
    BY LinkAssumption
  <2> QED
    BY <1>2, <2>1, FeedKeepsLink, Zenon DEF DeviceReads
<1>3. CASE DeviceRuns
  <2>1. /\ DevLinkInv'
        /\ \/ UNCHANGED commands
           \/ /\ Len(commands) < Len(asked)
              /\ commands' = Append(commands, asked[Len(commands) + 1])
        /\ UNCHANGED asked
    BY <1>3, PassKeepsLink, Zenon DEF DeviceRuns
  <2> QED
    BY <2>1, Zenon DEF Commands!Deliver
<1>4. CASE UNCHANGED <<devVars, spoken, got, asked, asks>>
  <2>1. UNCHANGED <<binary, devBuf, serving, commands, spoken, got, asked, asks>>
    BY <1>4, Zenon DEF devVars
  <2>2. DevAt' = DevAt
    BY <2>1, Zenon DEF DevAt
  <2>3. PICK q \in 0 .. Len(spoken) : Speech(q) /\ Understood(q)
    BY DEF DevLinkInv
  <2>4. Speech(q)'
    BY <2>1, <2>3, Zenon DEF Speech, Paired
  <2>5. Understood(q)'
    <3>1. Between(asks', Len(commands'), DevAt')
      BY <2>1, <2>2, <2>3, Zenon DEF Understood
    <3>2. DevAt' \in 0 .. got' /\ devBuf' = SubSeq(spoken', DevAt' + 1, got')
      BY <2>1, <2>2, <2>3, Zenon DEF Understood
    <3>3. /\ ~binary' => DevAt' = 0 /\ got' < q /\ ~serving'
          /\ binary' => q <= DevAt'
      BY <2>1, <2>2, <2>3, Zenon DEF Understood
    <3> QED
      BY <2>1, <2>3, <3>1, <3>2, <3>3, Zenon DEF Understood
  <2> QED
    BY <2>1, <2>3, <2>4, <2>5, Zenon DEF DevLinkInv
<1>5. ASSUME Serve \/ (\E f \in Pushes : Push(f)) \/ (\E n \in ChunkSizes : HostReads(n)) \/ HostRuns
      PROVE  UNCHANGED <<devVars, spoken, got, asked, asks>>
  BY <1>5, Zenon DEF Serve, Push, HostReads, HostRuns
<1>6. UNCHANGED linkVars => UNCHANGED <<devVars, spoken, got, asked, asks>>
  BY DEF linkVars
<1>7. CASE UNCHANGED linkVars
  <2>1. DevLinkInv' /\ UNCHANGED <<asked, commands>>
    BY <1>4, <1>6, <1>7, Zenon DEF devVars
  <2> QED
    BY <2>1
<1>8. CASE Serve \/ (\E f \in Pushes : Push(f)) \/ (\E n \in ChunkSizes : HostReads(n)) \/ HostRuns
  <2>1. DevLinkInv' /\ UNCHANGED <<asked, commands>>
    BY <1>4, <1>5, <1>8, Zenon DEF devVars
  <2> QED
    BY <2>1
<1> DEFINE Goal == /\ DevLinkInv'
                   /\ Commands!Put \/ Commands!Deliver \/ UNCHANGED <<asked, commands>>
<1>9. \A a \in Asks, checksum \in {<<>>, << 0 >>} : Ask(a, checksum) => Goal
  BY <1>1, Zenon
<1>10. \A n \in ChunkSizes : DeviceReads(n) => Goal
  BY <1>2, Zenon
<1>11. \A n \in ChunkSizes : HostReads(n) => Goal
  BY <1>8, Zenon
<1>12. DeviceRuns \/ HostRuns \/ Serve \/ UNCHANGED linkVars => Goal
  BY <1>3, <1>7, <1>8, Zenon
<1>13. \A f \in Pushes : Push(f) => Goal
  BY <1>8, Zenon
<1> HIDE DEF Goal
<1>14. LinkNext => Goal
  BY <1>9, <1>10, <1>11, <1>12, <1>13, Zenon DEF LinkNext
<1>15. LinkNext \/ UNCHANGED linkVars
  OBVIOUS
<1>16. Goal
  BY <1>12, <1>14, <1>15, Zenon
<1> QED
  BY <1>16 DEF Goal

\* Whatever came before it, the hello is seen with its last byte.
LEMMA LinkDeviceInit == LinkInit => DevLinkInv
<1> SUFFICES ASSUME LinkInit PROVE DevLinkInv
  OBVIOUS
<1>1. PICK noise \in Noises : spoken = noise \o SYNC
  BY DEF LinkInit
<1> DEFINE m == Len(noise)
           q == IF m > 0 /\ noise[m] = 231 THEN m + 1 ELSE m + 2
<1>2. noise \in Seq(Byte) /\ m \in Nat /\ SyncFree(noise)
  BY LinkAssumption, LenProperties
<1>3. SYNC \in Seq(Byte) /\ Len(SYNC) = 2 /\ SYNC[1] = 231 /\ SYNC[2] = 231
  BY DEF SYNC, Byte
<1>4. /\ spoken \in Seq(Byte) /\ Len(spoken) = m + 2
      /\ \A i \in 1 .. m : spoken[i] = noise[i]
      /\ spoken[m + 1] = 231 /\ spoken[m + 2] = 231
  <2>1. /\ noise \o SYNC \in Seq(Byte) /\ Len(noise \o SYNC) = Len(noise) + Len(SYNC)
        /\ \A i \in 1 .. Len(noise) : (noise \o SYNC)[i] = noise[i]
        /\ \A i \in 1 .. Len(SYNC) : (noise \o SYNC)[Len(noise) + i] = SYNC[i]
    <3> DEFINE y == SYNC
    <3> HIDE DEF y, m
    <3>1. noise \in Seq(Byte) /\ y \in Seq(Byte)
      BY <1>2, <1>3 DEF y
    <3>2. /\ noise \o y \in Seq(Byte) /\ Len(noise \o y) = Len(noise) + Len(y)
          /\ \A i \in 1 .. Len(noise) : (noise \o y)[i] = noise[i]
          /\ \A i \in 1 .. Len(y) : (noise \o y)[Len(noise) + i] = y[i]
      BY <3>1, Joined
    <3> QED
      BY <3>2 DEF y
  <2>2. /\ spoken \in Seq(Byte) /\ Len(spoken) = m + 2
        /\ \A i \in 1 .. m : spoken[i] = noise[i]
        /\ \A i \in 1 .. 2 : spoken[m + i] = SYNC[i]
    BY <1>1, <1>3, <2>1, Zenon
  <2>3. 1 \in 1 .. 2 /\ 2 \in 1 .. 2
    OBVIOUS
  <2> QED
    BY <1>3, <2>2, <2>3
<1>5. q \in {m + 1, m + 2} /\ q >= 2 /\ q <= m + 2 /\ q \in 0 .. m + 2 /\ q \in Nat
      /\ (q = m + 1 => m > 0 /\ noise[m] = 231)
  <2> HIDE DEF m
  <2> QED
    BY <1>2
<1>6. Paired(spoken, q - 1)
  <2>1. CASE q = m + 1
    <3>1. m \in 1 .. m /\ q - 1 = m
      BY <1>2, <1>5, <2>1
    <3>2. spoken[m] = 231
      BY <1>4, <1>5, <2>1, <3>1
    <3> HIDE DEF m, q
    <3> QED
      BY <1>4, <3>1, <3>2, Zenon DEF Paired
  <2>2. CASE q = m + 2
    <3> HIDE DEF m, q
    <3>1. q - 1 = m + 1 /\ q - 1 + 1 = m + 2
      BY <1>2, <2>2
    <3>2. spoken[q - 1] = 231 /\ spoken[q - 1 + 1] = 231
      BY <1>4, <3>1, Zenon
    <3> QED
      BY <3>2, Zenon DEF Paired
  <2> HIDE DEF q
  <2> QED
    BY <1>5, <2>1, <2>2
<1>7. ASSUME NEW i \in 1 .. Len(spoken) - 1, Paired(spoken, i) PROVE i \in {q - 1, q}
  <2>1. i \in Nat /\ i >= 1 /\ i <= m + 1
    BY <1>2, <1>4
  <2>2. i >= m
    <3> SUFFICES ASSUME i < m PROVE FALSE
      BY <1>2, <2>1
    <3>1. i \in 1 .. m - 1 /\ i \in 1 .. m /\ i + 1 \in 1 .. m
      BY <1>2, <2>1
    <3>2. noise[i] = 231 /\ noise[i + 1] = 231
      BY <1>4, <1>7, <3>1 DEF Paired
    <3>3. noise[i] = SYNC[1] => noise[i + 1] # SYNC[2]
      BY <1>2, <3>1, Zenon DEF SyncFree
    <3> QED
      BY <1>3, <3>2, <3>3
  <2>3. CASE i = m
    <3>1. m > 0 /\ noise[m] = 231
      <4>1. spoken[m] = 231
        BY <1>7, <2>3 DEF Paired
      <4>2. m \in 1 .. m
        BY <1>2, <2>1, <2>3
      <4> QED
        BY <1>2, <1>4, <2>1, <2>3, <4>1, <4>2
    <3>2. q = m + 1
      BY <3>1
    <3> HIDE DEF m, q
    <3> QED
      BY <1>2, <2>3, <3>2
  <2>4. CASE i = m + 1
    <3> HIDE DEF m, q
    <3> QED
      BY <1>2, <1>5, <2>4
  <2> QED
    BY <1>2, <2>1, <2>2, <2>3, <2>4
<1> HIDE DEF q, m
<1>8. asks = <<>> /\ asked = <<>> /\ got = 0 /\ devBuf = <<>> /\ binary = FALSE
      /\ serving = FALSE /\ commands = <<>>
  BY Zenon DEF LinkInit, DevInit
<1>9. Laid(spoken, q, asks)
  <2>1. \A i \in q + 1 .. Len(spoken) : spoken[i] # CMD
    <3> SUFFICES ASSUME NEW i \in q + 1 .. Len(spoken) PROVE spoken[i] # CMD
      OBVIOUS
    <3>1. i = m + 2
      BY <1>2, <1>4, <1>5
    <3> QED
      BY <1>4, <3>1 DEF CMD
  <2>2. q \in 0 .. Len(spoken) /\ <<>> \in Seq(Marks) /\ Len(<<>>) = 0 /\ \A k \in 1 .. 0 : FALSE
    BY <1>4, <1>5
  <2>3. asks \in Seq(Marks) /\ \A k \in 1 .. Len(asks) : FALSE
    BY <1>8, <2>2
  <2> QED
    BY <1>4, <2>1, <2>2, <2>3, Zenon DEF Laid
<1>10. Len(<<>>) = 0 /\ \A k \in 1 .. 0 : FALSE
  OBVIOUS
<1>11. Speech(q)
  <2>1. asked \in Seq(Asks) /\ Len(asks) = Len(asked) /\ \A k \in 1 .. Len(asked) : FALSE
    BY <1>8, <1>10
  <2> QED
    BY <1>5, <1>6, <1>7, <1>9, <2>1, Zenon DEF Speech
<1>12. Understood(q)
  <2>1. DevAt = 0
    <3>1. DevAt = 0 - 0
      BY <1>8, <1>10, Zenon DEF DevAt
    <3> QED
      BY <3>1
  <2>2. got \in 0 .. Len(spoken) /\ DevAt \in 0 .. got /\ got < q
    BY <1>2, <1>4, <1>5, <1>8, <2>1
  <2>3. devBuf = SubSeq(spoken, DevAt + 1, got)
    <3>1. SubSeq(spoken, 0 + 1, 0) \in Seq(Byte) /\ Len(SubSeq(spoken, 0 + 1, 0)) = 0 - 0
      <4>1. 0 \in Nat /\ 0 <= 0 /\ 0 <= Len(spoken)
        BY <1>2, <1>4
      <4> DEFINE z == 0
      <4>2. z \in Nat /\ z <= z /\ z <= Len(spoken)
        BY <4>1
      <4> HIDE DEF z
      <4>3. SubSeq(spoken, z + 1, z) \in Seq(Byte) /\ Len(SubSeq(spoken, z + 1, z)) = z - z
        BY <1>4, <4>2, PairsOfStretch
      <4> QED
        BY <4>3 DEF z
    <3>2. SubSeq(spoken, 0 + 1, 0) = <<>>
      BY <3>1, EmptySeq
    <3> QED
      BY <1>8, <2>1, <3>2, Zenon
  <2>4. Between(asks, Len(commands), DevAt)
    <3>1. \A k \in 0 + 1 .. 0 : FALSE
      OBVIOUS
    <3> QED
      BY <1>8, <1>10, <3>1, Zenon DEF Between
  <2>5. /\ commands \in Seq(Asks) /\ Len(commands) <= Len(asked)
        /\ \A k \in 1 .. Len(commands) : FALSE
        /\ \A k \in Len(commands) + 1 .. Len(asked) : FALSE
    BY <1>8, <1>10
  <2>6. binary \in BOOLEAN /\ serving \in BOOLEAN /\ ~serving /\ ~binary
    BY <1>8
  <2> QED
    BY <2>1, <2>2, <2>3, <2>4, <2>5, <2>6, Zenon DEF Understood
<1> QED
  BY <1>4, <1>5, <1>11, <1>12 DEF DevLinkInv

\* For all noise, every cut of the stream, with the checksums or without them:
\* what the device acts on is what the client asked, each command whole, once
\* and in order.
THEOREM CommandsAreKept == LinkSpec => CommandsKept
<1>1. LinkInit => Commands!Init
  BY Zenon DEF LinkInit, DevInit, Commands!Init
<1> QED
  BY <1>1, LinkDeviceInit, LinkDeviceStep, PTL DEF LinkSpec, CommandsKept, Commands!Spec

-----------------------------------------------------------------------------
(* Counting the messages behind a position.                                *)

LEMMA Least ==
  ASSUME NEW T, T \subseteq Nat, T # {}
  PROVE  \E d \in T : \A e \in T : ~(e < d)
<1> DEFINE Less == OpToRel(<, Nat)
<1>1. IsWellFoundedOn(Less, Nat)
  BY NatLessThanWellFounded
<1>2. \A x, y \in Nat : <<y, x>> \in Less <=> y < x
  BY DEF OpToRel
<1> HIDE DEF Less
<1>3. \E x \in T : \A y \in T : ~(<<y, x>> \in Less)
  BY <1>1, WFMin
<1> QED
  BY <1>2, <1>3, Zenon

\* The messages that end by a position are the first so many.
LEMMA WholeIs ==
  ASSUME NEW line, NEW from, NEW where, Laid(line, from, where), NEW p \in Nat
  PROVE  /\ Whole(where, p) \in Nat /\ Whole(where, p) <= Len(where)
         /\ \A k \in 1 .. Len(where) : where[k].last <= p <=> k <= Whole(where, p)
<1> DEFINE M == Len(where)
           T == {k \in 1 .. M : p < where[k].last}
<1>1. /\ where \in Seq(Marks) /\ M \in Nat
      /\ \A k \in 1 .. M : where[k].first \in Nat /\ where[k].last \in Nat
  BY LaidNumbers
<1>2. \A k, l \in 1 .. M : k < l => where[k].last < where[l].last
  <2> SUFFICES ASSUME NEW k \in 1 .. M, NEW l \in 1 .. M, k < l
               PROVE  where[k].last < where[l].last
    OBVIOUS
  <2>1. l \in k + 1 .. M
    BY <1>1
  <2>2. where[k].last < where[l].first /\ where[l].first < where[l].last
    BY <2>1, LaidOrder
  <2>3. \A x, y, z \in Nat : x < y /\ y < z => x < z
    OBVIOUS
  <2> QED
    BY <1>1, <2>2, <2>3, Zenon
<1> HIDE DEF M
<1>3. \E n \in 0 .. M : /\ \A k \in 1 .. n : where[k].last <= p
                        /\ \A k \in n + 1 .. M : p < where[k].last
  <2>1. CASE T = {}
    <3>1. \A k \in 1 .. M : where[k].last <= p
      <4> SUFFICES ASSUME NEW k \in 1 .. M PROVE where[k].last <= p
        OBVIOUS
      <4>1. ~(p < where[k].last) /\ where[k].last \in Nat
        BY <1>1, <2>1
      <4> QED
        BY <4>1
    <3>2. M \in 0 .. M /\ \A k \in M + 1 .. M : FALSE
      BY <1>1
    <3> QED
      BY <3>1, <3>2, Zenon
  <2>2. CASE T # {}
    <3>1. T \subseteq Nat
      BY <1>1
    <3>2. PICK l \in T : \A e \in T : ~(e < l)
      <4> HIDE DEF T
      <4> QED
        BY <2>2, <3>1, Least
    <3>3. l \in 1 .. M /\ p < where[l].last
      BY <3>2
    <3> DEFINE n == l - 1
    <3>4. n \in 0 .. M /\ n + 1 = l
      BY <1>1, <3>3
    <3>5. \A k \in 1 .. n : where[k].last <= p
      <4> SUFFICES ASSUME NEW k \in 1 .. n PROVE where[k].last <= p
        OBVIOUS
      <4>1. k \in 1 .. M /\ k < l
        BY <1>1, <3>3
      <4>2. ~(p < where[k].last)
        BY <3>2, <4>1
      <4> QED
        BY <1>1, <4>1, <4>2
    <3>6. \A k \in n + 1 .. M : p < where[k].last
      <4> SUFFICES ASSUME NEW k \in l .. M PROVE p < where[k].last
        BY <3>4
      <4>1. CASE k = l
        BY <3>3, <4>1
      <4>2. CASE k # l
        <5>1. k \in 1 .. M /\ l < k
          BY <1>1, <3>3, <4>2
        <5>2. where[l].last < where[k].last /\ where[l].last \in Nat /\ where[k].last \in Nat
          BY <1>1, <1>2, <3>3, <5>1
        <5>3. \A x, y, z \in Nat : x < y /\ y < z => x < z
          OBVIOUS
        <5> QED
          BY <3>3, <5>2, <5>3, Zenon
      <4> QED
        BY <4>1, <4>2
    <3> HIDE DEF n
    <3> QED
      BY <3>4, <3>5, <3>6
  <2> QED
    BY <2>1, <2>2
<1>4. PICK n \in 0 .. M : /\ \A k \in 1 .. n : where[k].last <= p
                          /\ \A k \in n + 1 .. M : p < where[k].last
  BY <1>3
<1>5. Whole(where, p) = n
  BY <1>1, <1>4, WholeCount DEF M
<1>6. ASSUME NEW k \in 1 .. M PROVE where[k].last <= p <=> k <= n
  <2>1. CASE k <= n
    <3>1. k \in 1 .. n
      BY <1>1, <2>1
    <3> QED
      BY <1>4, <2>1, <3>1
  <2>2. CASE ~(k <= n)
    <3>1. k \in n + 1 .. M
      BY <1>1, <2>2
    <3>2. p < where[k].last /\ where[k].last \in Nat
      BY <1>1, <1>4, <3>1
    <3> QED
      BY <2>2, <3>2
  <2> QED
    BY <2>1, <2>2
<1> QED
  BY <1>1, <1>5, <1>6 DEF M

\* A position between two messages has those behind it that end by it.
LEMMA BetweenCounts ==
  ASSUME NEW line, NEW from, NEW where, Laid(line, from, where), NEW p \in Nat,
         NEW n \in 0 .. Len(where), Between(where, n, p)
  PROVE  Whole(where, p) = n
<1>1. /\ where \in Seq(Marks) /\ Len(where) \in Nat
      /\ \A k \in 1 .. Len(where) : where[k].first \in Nat /\ where[k].last \in Nat
  BY LaidNumbers
<1>2. \A k \in n + 1 .. Len(where) : p < where[k].last
  <2> SUFFICES ASSUME NEW k \in n + 1 .. Len(where) PROVE p < where[k].last
    OBVIOUS
  <2>1. k \in 1 .. Len(where)
    BY <1>1
  <2>2. p < where[k].first /\ where[k].first < where[k].last
    BY <2>1, LaidOrder DEF Between
  <2>3. \A x, y, z \in Nat : x < y /\ y < z => x < z
    OBVIOUS
  <2> QED
    BY <1>1, <2>1, <2>2, <2>3, Zenon
<1>3. \A k \in 1 .. n : where[k].last <= p
  BY DEF Between
<1> QED
  BY <1>1, <1>2, <1>3, WholeCount

\* A position is between two messages or inside one.
LEMMA Whereabouts ==
  ASSUME NEW line, NEW from, NEW where, Laid(line, from, where), NEW p \in Nat
  PROVE  LET n == Whole(where, p)
         IN  \/ Between(where, n, p)
             \/ n < Len(where) /\ where[n + 1].first <= p /\ p < where[n + 1].last
<1> DEFINE M == Len(where)
           n == Whole(where, p)
<1>1. M \in Nat /\ \A k \in 1 .. M : where[k].first \in Nat /\ where[k].last \in Nat
  BY LaidNumbers
<1>2. n \in Nat /\ n <= M /\ \A k \in 1 .. M : where[k].last <= p <=> k <= n
  BY WholeIs
<1>3. \A k \in 1 .. M : \A l \in k + 1 .. M : where[k].last < where[l].first
  BY LaidOrder
<1> HIDE DEF M, n
<1>4. \A k \in 1 .. n : where[k].last <= p
  <2>1. \A k \in 1 .. n : k \in 1 .. M /\ k <= n
    BY <1>1, <1>2
  <2> QED
    BY <1>2, <2>1
<1>5. CASE n = M
  <2>1. \A k \in n + 1 .. M : FALSE
    BY <1>1, <1>5
  <2> QED
    BY <1>4, <2>1, Zenon DEF Between, M, n
<1>6. CASE n # M
  <2> DEFINE j == n + 1
  <2>1. j \in 1 .. M /\ ~(j <= n) /\ n < M
    BY <1>1, <1>2, <1>6
  <2>2. p < where[j].last
    BY <1>1, <1>2, <2>1
  <2>3. CASE where[j].first <= p
    BY <2>1, <2>2, <2>3, Zenon DEF M, n
  <2>4. CASE ~(where[j].first <= p)
    <3>1. \A k \in n + 1 .. M : p < where[k].first
      <4> SUFFICES ASSUME NEW k \in j .. M PROVE p < where[k].first
        OBVIOUS
      <4>1. CASE k = j
        BY <1>1, <2>1, <2>4, <4>1
      <4>2. CASE k # j
        <5>1. k \in j + 1 .. M /\ k \in 1 .. M
          BY <1>1, <2>1, <4>2
        <5>2. where[j].last < where[k].first
          BY <1>3, <2>1, <5>1
        <5>3. \A x, y, z \in Nat : x < y /\ y < z => x < z
          OBVIOUS
        <5>4. where[j].last \in Nat /\ where[k].first \in Nat
          BY <1>1, <2>1, <5>1
        <5> QED
          BY <2>2, <5>2, <5>3, <5>4, Zenon
      <4> QED
        BY <4>1, <4>2
    <3> QED
      BY <1>4, <3>1, Zenon DEF Between, M, n
  <2> QED
    BY <2>3, <2>4
<1> QED
  BY <1>5, <1>6

-----------------------------------------------------------------------------
(* The host hears what the device said.                                    *)

\* What the bytes b, sync byte first, begin with: how long it is and what it says.
Known(b) == b[2] \in Requests \cup {OP_FRAME}
TakenLen(b) == IF b[2] = OP_FRAME THEN FrameLen(b) ELSE ReplyLen(b[2])
Taken(b) == IF b[2] = OP_FRAME THEN FrameMessage(b, FrameLen(b) - FRAME_HEADER)
                               ELSE ReplyMessage(b)

\* e is what is sent of the message m.
Reads(e, m) ==
  /\ Len(e) >= 2 /\ e[1] = CMD /\ Known(e)
  /\ e[2] = OP_FRAME => Len(e) >= FRAME_HEADER
  /\ Len(e) = TakenLen(e) /\ m = Taken(e)
  /\ Plain(m) => \A i \in 2 .. Len(e) : e[i] # CMD

Message ==
  {FrameMessage(b, n) : b \in Seq(Byte), n \in 0 .. 64} \cup {ReplyMessage(b) : b \in Seq(Byte)}

\* What the device has said.
Talk ==
  /\ rubbish \in Seq(Byte) /\ Laid(wire, Len(rubbish), spans)
  /\ \A i \in 1 .. Len(rubbish) : wire[i] = rubbish[i]
  /\ said \in Seq(Message) /\ Len(spans) = Len(said)
  /\ Len(said) = 0 => Len(wire) = Len(rubbish)
  /\ Len(said) > 0 => spans[1].first = Len(rubbish) + 1
  /\ \A k \in 1 .. Len(said) : Reads(SubSeq(wire, spans[k].first, spans[k].last), said[k])

\* h is the first n messages said, or ends with those from "first" to n.
Follows(h, n) == Len(h) = n /\ \A k \in 1 .. n : h[k] = said[k]
Ends(h, first, n) ==
  /\ n - first + 1 <= Len(h)
  /\ \A k \in first .. n : h[Len(h) - (n - k)] = said[k]

\* A host that has heard h and consumed p bytes is still in what it heard first,
InRubbish(h, p) ==
  /\ p < Len(rubbish)
  /\ FalseHeads = {} => Len(h) = 0

\* or between two messages, and has heard those behind it since a false head,
InStepAt(h, p, n) ==
  /\ Between(spans, n, p)
  /\ FalseHeads = {} => Follows(h, n)
  /\ \A first \in 1 .. n :
       (\A i \in FalseHeads : Claimed(i) < spans[first].first) => Ends(h, first, n)

InStep(h, p) == Len(rubbish) <= p /\ \E n \in 0 .. Len(said) : InStepAt(h, p, n)

\* or inside one that a false head may have reached,
Inside(p) ==
  \E n \in 1 .. Len(said) :
    /\ spans[n].first <= p /\ p < spans[n].last
    /\ \E i \in FalseHeads : spans[n].first <= Claimed(i)

\* or has one behind it that is not plain, and may be anywhere.
Astray(p) ==
  /\ FalseHeads # {}
  /\ \E k \in 1 .. Len(said) : spans[k].last <= p /\ ~Plain(said[k])

Bearing(h, p) == InRubbish(h, p) \/ InStep(h, p) \/ Inside(p) \/ Astray(p)

HostAt == fed - Len(hostBuf)

HeardSoFar ==
  /\ fed \in 0 .. Len(wire) /\ HostAt \in 0 .. fed
  /\ hostBuf = SubSeq(wire, HostAt + 1, fed)
  /\ reading \in BOOLEAN /\ heard \in Seq(Message)
  /\ Bearing(heard, HostAt)
  /\ ~reading /\ FalseHeads = {} =>
       \A k \in 1 .. Len(said) : spans[k].last <= fed => spans[k].last <= HostAt

HostLinkInv == Talk /\ HeardSoFar

\* The numbers of what the device has said.
LEMMA TalkNumbers ==
  ASSUME Talk
  PROVE  /\ wire \in Seq(Byte) /\ Len(wire) \in Nat
         /\ rubbish \in Seq(Byte) /\ Len(rubbish) \in Nat /\ Len(rubbish) <= Len(wire)
         /\ Len(said) \in Nat /\ Len(spans) = Len(said)
         /\ \A k \in 1 .. Len(said) : spans[k].first \in Nat /\ spans[k].last \in Nat
<1>1. Laid(wire, Len(rubbish), spans) /\ Len(spans) = Len(said) /\ rubbish \in Seq(Byte)
  BY Zenon DEF Talk
<1>2. /\ wire \in Seq(Byte) /\ Len(wire) \in Nat /\ Len(rubbish) \in Nat
      /\ Len(rubbish) <= Len(wire) /\ Len(spans) \in Nat
      /\ \A k \in 1 .. Len(spans) : spans[k].first \in Nat /\ spans[k].last \in Nat
  BY <1>1, LaidNumbers
<1> QED
  BY <1>1, <1>2, Zenon

\* Each message lies behind what was heard first and ahead of those after it.
LEMMA TalkOrder ==
  ASSUME Talk, NEW k \in 1 .. Len(said)
  PROVE  /\ Len(rubbish) < spans[k].first /\ spans[k].first < spans[k].last
         /\ spans[k].last <= Len(wire) /\ wire[spans[k].first] = CMD
         /\ \A l \in k + 1 .. Len(said) : spans[k].last < spans[l].first
<1>1. Laid(wire, Len(rubbish), spans) /\ Len(spans) = Len(said)
  BY Zenon DEF Talk
<1>2. k \in 1 .. Len(spans)
  BY <1>1
<1> QED
  BY <1>1, <1>2, LaidOrder

\* Where a message ends is between two.
LEMMA EndIsBetween ==
  ASSUME Talk, NEW n \in 1 .. Len(said)
  PROVE  Between(spans, n, spans[n].last)
<1> DEFINE M == Len(said)
<1>1. /\ M \in Nat /\ Len(spans) = M /\ n \in 1 .. M
      /\ \A k \in 1 .. M : spans[k].first \in Nat /\ spans[k].last \in Nat
  BY TalkNumbers
<1> HIDE DEF M
<1>2. spans[n].first \in Nat /\ spans[n].last \in Nat
  BY <1>1
<1>3. ASSUME NEW k \in 1 .. n PROVE spans[k].last <= spans[n].last
  <2>1. CASE k = n
    BY <1>2, <2>1
  <2>2. CASE k # n
    <3>1. k \in 1 .. M /\ n \in k + 1 .. M
      BY <1>1, <2>2
    <3>2. spans[k].last < spans[n].first /\ spans[k].last \in Nat
      BY <1>1, <3>1, TalkOrder DEF M
    <3>3. spans[n].first < spans[n].last
      BY TalkOrder DEF M
    <3> QED
      BY <1>2, <3>2, <3>3
  <2> QED
    BY <2>1, <2>2
<1>4. \A k \in n + 1 .. Len(spans) : spans[n].last < spans[k].first
  BY <1>1, TalkOrder DEF M
<1> QED
  BY <1>3, <1>4, Zenon DEF Between

\* What a false head claims is a number.
LEMMA ClaimIsNumber ==
  ASSUME rubbish \in Seq(Byte), NEW i \in FalseHeads
  PROVE  Claimed(i) \in Int
<1>1. Len(rubbish) \in Nat
  BY LenProperties
<1>2. i \in Nat /\ i >= 1 /\ i <= Len(rubbish) - 1 /\ rubbish[i + 1] \in Requests \cup {OP_FRAME}
  BY <1>1 DEF FalseHeads
<1>3. CASE rubbish[i + 1] # OP_FRAME
  <2>1. ReplyLen(rubbish[i + 1]) \in 3 .. 12
    BY <1>2, <1>3, ReplyLenBounded
  <2>2. Claimed(i) = i - 1 + ReplyLen(rubbish[i + 1])
    BY <1>3, Zenon DEF Claimed
  <2> QED
    BY <1>2, <2>1, <2>2
<1>4. CASE rubbish[i + 1] = OP_FRAME
  <2>1. CASE i + FRAME_HEADER - 1 > Len(rubbish)
    <3>1. Claimed(i) = i - 1 + (FRAME_HEADER + 64)
      BY <1>4, <2>1, Zenon DEF Claimed
    <3> QED
      BY <1>2, <3>1 DEF FRAME_HEADER
  <2>2. CASE ~(i + FRAME_HEADER - 1 > Len(rubbish))
    <3> DEFINE c == Drop(rubbish, i - 1)
    <3>1. c \in Seq(Byte) /\ Len(c) = Len(rubbish) - (i - 1)
      <4>1. i - 1 \in 0 .. Len(rubbish)
        BY <1>1, <1>2
      <4> QED
        BY <4>1, Dropping
    <3>2. Claimed(i) = i - 1 + FrameLen(c)
      BY <1>4, <2>2, Zenon DEF Claimed
    <3> HIDE DEF c
    <3>3. Len(c) >= FRAME_HEADER
      BY <1>1, <1>2, <2>2, <3>1 DEF FRAME_HEADER
    <3>4. FrameLen(c) \in FRAME_HEADER .. FRAME_HEADER + 64
      BY <3>1, <3>3, FrameLenBounded
    <3>5. \A n \in FRAME_HEADER .. FRAME_HEADER + 64 : i - 1 + n \in Int
      BY <1>2 DEF FRAME_HEADER
    <3> QED
      BY <3>2, <3>4, <3>5, Zenon
  <2> QED
    BY <2>1, <2>2
<1> QED
  BY <1>3, <1>4

\* The bearing of a host that passes over what is no sync byte is kept.
LEMMA SkipKeepsBearing ==
  ASSUME Talk, NEW h, NEW p \in Nat, Bearing(h, p), NEW q \in p .. Len(wire),
         \A i \in p + 1 .. q : wire[i] # CMD
  PROVE  Bearing(h, q)
<1> DEFINE R == Len(rubbish)
           M == Len(said)
<1>1. /\ Len(wire) \in Nat /\ R \in Nat /\ R <= Len(wire) /\ M \in Nat /\ Len(spans) = M
      /\ \A k \in 1 .. M : spans[k].first \in Nat /\ spans[k].last \in Nat
  BY TalkNumbers
<1>2. Laid(wire, R, spans)
  BY Zenon DEF Talk
<1>3. q \in Nat /\ p <= q /\ q <= Len(wire)
  BY <1>1
<1>4. CASE InRubbish(h, p)
  <2>1. CASE q < R
    BY <1>4, <2>1 DEF InRubbish, Bearing
  <2>2. CASE ~(q < R)
    <3>1. R \in R .. Len(wire) /\ q \in R .. Len(wire) /\ 0 \in 0 .. Len(spans) /\ R >= p
          /\ \A i \in R + 1 .. q : i \in p + 1 .. q
      <4>1. p < R
        BY <1>4 DEF InRubbish
      <4> HIDE DEF R
      <4> QED
        BY <1>1, <1>3, <2>2, <4>1
    <3>2. Between(spans, 0, R)
      <4>1. \A k \in 1 .. Len(spans) : R < spans[k].first
        BY <1>1, TalkOrder
      <4>2. \A k \in 1 .. 0 : FALSE
        OBVIOUS
      <4>3. 0 + 1 = 1
        OBVIOUS
      <4> QED
        BY <4>1, <4>2, <4>3, Zenon DEF Between
    <3>3. Between(spans, 0, q)
      <4> DEFINE n == 0
      <4>1. n \in 0 .. Len(spans) /\ Between(spans, n, R)
        BY <3>1, <3>2
      <4>2. \A i \in R + 1 .. q : wire[i] # CMD
        BY <3>1
      <4> HIDE DEF n, R
      <4>3. Between(spans, n, q)
        BY <1>2, <3>1, <4>1, <4>2, NextFound
      <4> QED
        BY <4>3 DEF n
    <3>4. FalseHeads = {} => Follows(h, 0)
      <4>1. \A k \in 1 .. 0 : FALSE
        OBVIOUS
      <4> QED
        BY <1>4, <4>1, Zenon DEF InRubbish, Follows
    <3>5. InStepAt(h, q, 0)
      <4>1. \A k \in 1 .. 0 : FALSE
        OBVIOUS
      <4> QED
        BY <3>3, <3>4, <4>1, Zenon DEF InStepAt
    <3>6. R <= q /\ 0 \in 0 .. M
      BY <1>1, <3>1
    <3> QED
      BY <3>5, <3>6, Zenon DEF Bearing, InStep
  <2> QED
    BY <2>1, <2>2
<1>5. CASE InStep(h, p)
  <2>1. PICK n \in 0 .. M : InStepAt(h, p, n)
    BY <1>5 DEF InStep
  <2>2. n \in 0 .. Len(spans) /\ Between(spans, n, p) /\ p \in R .. Len(wire) /\ R <= q
    <3>1. R <= p
      BY <1>5 DEF InStep
    <3>2. Between(spans, n, p)
      BY <2>1 DEF InStepAt
    <3> HIDE DEF R, M
    <3> QED
      BY <1>1, <1>3, <3>1, <3>2
  <2> HIDE DEF R
  <2>3. Between(spans, n, q)
    BY <1>2, <2>2, NextFound
  <2>4. InStepAt(h, q, n)
    BY <2>1, <2>3, Zenon DEF InStepAt
  <2> QED
    BY <2>2, <2>4, Zenon DEF Bearing, InStep, R
<1>6. CASE Inside(p)
  <2>1. PICK n \in 1 .. M : /\ spans[n].first <= p /\ p < spans[n].last
                            /\ \E i \in FalseHeads : spans[n].first <= Claimed(i)
    BY <1>6 DEF Inside
  <2> HIDE DEF R, M
  <2>2. spans[n].first \in Nat /\ spans[n].last \in Nat
    BY <1>1
  <2>3. CASE q < spans[n].last
    <3>1. spans[n].first <= q
      BY <1>3, <2>1, <2>2
    <3> QED
      BY <2>1, <2>3, <3>1, Zenon DEF Bearing, Inside, M
  <2>4. CASE ~(q < spans[n].last)
    <3>1. spans[n].last <= q
      BY <1>3, <2>2, <2>4
    <3>2. Between(spans, n, spans[n].last)
      BY EndIsBetween DEF M
    <3>3. n \in 0 .. Len(spans) /\ spans[n].last \in R .. Len(wire) /\ q \in spans[n].last .. Len(wire)
      <4>1. R < spans[n].first /\ spans[n].first < spans[n].last
        BY TalkOrder DEF R, M
      <4> QED
        BY <1>1, <1>3, <2>2, <3>1, <4>1
    <3>4. \A i \in spans[n].last + 1 .. q : wire[i] # CMD
      <4>1. \A i \in spans[n].last + 1 .. q : i \in p + 1 .. q
        BY <1>3, <2>1, <2>2
      <4> QED
        BY <4>1
    <3>5. Between(spans, n, q)
      <4> DEFINE o == spans[n].last
      <4>1. o \in R .. Len(wire) /\ q \in o .. Len(wire) /\ Between(spans, n, o)
            /\ \A i \in o + 1 .. q : wire[i] # CMD
        BY <3>2, <3>3, <3>4
      <4> HIDE DEF o
      <4> QED
        BY <1>2, <3>3, <4>1, NextFound
    <3>6. PICK i \in FalseHeads : spans[n].first <= Claimed(i)
      BY <2>1
    <3>7. \A first \in 1 .. n : ~(Claimed(i) < spans[first].first)
      <4> SUFFICES ASSUME NEW first \in 1 .. n PROVE ~(Claimed(i) < spans[first].first)
        OBVIOUS
      <4>1. first \in 1 .. M /\ spans[first].first \in Nat /\ spans[first].last \in Nat
        BY <1>1
      <4>2. spans[first].first <= spans[n].first
        <5>1. CASE first = n
          BY <2>2, <5>1
        <5>2. CASE first # n
          <6>1. n \in first + 1 .. M
            BY <1>1, <5>2
          <6>2. spans[first].first < spans[first].last /\ spans[first].last < spans[n].first
            BY <4>1, <6>1, TalkOrder DEF M
          <6> QED
            BY <2>2, <4>1, <6>2
        <5> QED
          BY <5>1, <5>2
      <4>3. Claimed(i) \in Int
        BY TalkNumbers, ClaimIsNumber
      <4> QED
        BY <2>2, <3>6, <4>1, <4>2, <4>3
    <3>8. InStepAt(h, q, n)
      BY <3>5, <3>6, <3>7, Zenon DEF InStepAt
    <3>9. R <= q /\ n \in 0 .. M
      BY <1>1, <1>3, <3>3
    <3> QED
      BY <3>8, <3>9, Zenon DEF Bearing, InStep, R, M
  <2> QED
    BY <2>3, <2>4
<1>7. CASE Astray(p)
  <2>1. PICK k \in 1 .. M : spans[k].last <= p /\ ~Plain(said[k])
    BY <1>7 DEF Astray
  <2> HIDE DEF M
  <2>2. spans[k].last <= q
    <3>1. spans[k].last \in Nat
      BY <1>1
    <3> QED
      BY <1>3, <2>1, <3>1
  <2> QED
    BY <1>7, <2>1, <2>2, Zenon DEF Bearing, Astray, M
<1> QED
  BY <1>4, <1>5, <1>6, <1>7, Zenon DEF Bearing

-----------------------------------------------------------------------------
(* One round of the host's decoder.                                        *)

LEMMA SameStretch ==
  ASSUME NEW s \in Seq(Byte), NEW t \in Seq(Byte), NEW i \in Nat \ {0}, NEW j \in Nat,
         i <= j + 1, j <= Len(s), j <= Len(t), \A n \in i .. j : s[n] = t[n]
  PROVE  SubSeq(s, i, j) = SubSeq(t, i, j)
<1> DEFINE a == SubSeq(s, i, j)
           b == SubSeq(t, i, j)
<1>1. a \in Seq(Byte) /\ Len(a) = j - i + 1 /\ \A n \in 1 .. j - i + 1 : a[n] = s[i + n - 1]
  BY Stretch
<1>2. b \in Seq(Byte) /\ Len(b) = j - i + 1 /\ \A n \in 1 .. j - i + 1 : b[n] = t[i + n - 1]
  BY Stretch
<1>3. \A n \in 1 .. j - i + 1 : i + n - 1 \in i .. j
  OBVIOUS
<1> HIDE DEF a, b
<1>4. \A n \in 1 .. Len(a) : a[n] = b[n]
  BY <1>1, <1>2, <1>3
<1>5. a = b
  BY <1>1, <1>2, <1>4, SeqEqual
<1> QED
  BY <1>5 DEF a, b

LEMMA FrameIsNoRequest == OP_FRAME \notin Requests
BY DEF OP_FRAME, Requests, OP_TIMEBASE, OP_CANBUS_PARAMS, OP_DEV_INFO, OP_KEEPALIVE, OP_NUM_BUSES

\* What the decoder makes of bytes that begin with a known opcode.
LEMMA Completeness ==
  ASSUME NEW b \in Seq(Byte), Len(b) >= 2, Known(b)
  PROVE  /\ IsFrame(b) <=> b[2] = OP_FRAME
         /\ IsReply(b) <=> b[2] # OP_FRAME
         /\ Incomplete(b) <=> \/ b[2] = OP_FRAME /\ ~(Len(b) >= FRAME_HEADER)
                              \/ Len(b) < TakenLen(b)
                                 /\ (b[2] = OP_FRAME => Len(b) >= FRAME_HEADER)
<1>1. Len(b) \in Nat /\ ~(Len(b) < 2)
  BY LenProperties
<1>2. /\ IsFrame(b) <=> b[2] = OP_FRAME
      /\ IsReply(b) <=> b[2] # OP_FRAME
  BY FrameIsNoRequest, Zenon DEF IsFrame, IsReply, Known
<1> QED
  BY <1>1, <1>2, Zenon DEF Incomplete, TakenLen

\* Bytes that begin as a message sent does are taken for it, and when all of it
\* is there.
LEMMA ReadsAlike ==
  ASSUME NEW e \in Seq(Byte), NEW b \in Seq(Byte), NEW m, Reads(e, m),
         \A i \in 1 .. Len(e) : i <= Len(b) => b[i] = e[i]
  PROVE  /\ Len(b) >= Len(e) => ~Incomplete(b)
         /\ ~Incomplete(b) =>
              Known(b) /\ TakenLen(b) = Len(e) /\ Taken(b) = m /\ Len(e) <= Len(b)
<1>1. Len(e) \in Nat /\ Len(b) \in Nat /\ Len(e) >= 2
  BY LenProperties DEF Reads
<1>2. SUFFICES ASSUME Len(b) >= 2
      PROVE  /\ Len(b) >= Len(e) => ~Incomplete(b)
             /\ ~Incomplete(b) =>
                  Known(b) /\ TakenLen(b) = Len(e) /\ Taken(b) = m /\ Len(e) <= Len(b)
  <2>1. CASE ~(Len(b) >= 2)
    <3>1. Incomplete(b) /\ ~(Len(b) >= Len(e))
      BY <1>1, <2>1 DEF Incomplete
    <3> QED
      BY <3>1
  <2> QED
    BY <2>1
<1>3. b[2] = e[2] /\ Known(b) /\ Known(e)
  <2>1. 2 \in 1 .. Len(e) /\ 2 <= Len(b)
    BY <1>1, <1>2
  <2>2. b[2] = e[2] /\ Known(e)
    BY <2>1 DEF Reads
  <2> QED
    BY <2>2, Zenon DEF Known
<1>4. CASE b[2] = OP_FRAME
  <2>1. Len(e) >= FRAME_HEADER /\ Len(e) = FrameLen(e)
        /\ m = FrameMessage(e, FrameLen(e) - FRAME_HEADER)
    BY <1>3, <1>4, Zenon DEF Reads, TakenLen, Taken
  <2>2. ASSUME Len(b) >= FRAME_HEADER
        PROVE  FrameLen(b) = Len(e)
    <3>1. 11 \in 1 .. Len(e) /\ 11 <= Len(b)
      BY <1>1, <2>1, <2>2 DEF FRAME_HEADER
    <3>2. b[11] = e[11]
      BY <3>1
    <3> QED
      BY <2>1, <3>2, Zenon DEF FrameLen
  <2>3. ASSUME Len(b) >= Len(e) PROVE ~Incomplete(b)
    <3>1. Len(b) >= FRAME_HEADER
      BY <1>1, <2>1, <2>3 DEF FRAME_HEADER
    <3>2. TakenLen(b) = Len(e)
      BY <1>4, <2>2, <3>1, Zenon DEF TakenLen
    <3>3. ~(Len(b) < TakenLen(b))
      BY <1>1, <2>3, <3>2
    <3> QED
      BY <1>2, <1>3, <3>1, <3>3, Completeness
  <2>4. ASSUME ~Incomplete(b)
        PROVE  Known(b) /\ TakenLen(b) = Len(e) /\ Taken(b) = m /\ Len(e) <= Len(b)
    <3>1. Len(b) >= FRAME_HEADER /\ ~(Len(b) < TakenLen(b))
      BY <1>2, <1>3, <1>4, <2>4, Completeness
    <3>2. TakenLen(b) = Len(e) /\ FrameLen(b) = Len(e)
      BY <1>4, <2>2, <3>1, Zenon DEF TakenLen
    <3>3. Len(e) <= Len(b)
      BY <1>1, <3>1, <3>2
    <3> DEFINE n == Len(e) - FRAME_HEADER
    <3>4. FrameMessage(b, n) = FrameMessage(e, n)
      <4>1. \A i \in 1 .. Len(e) : b[i] = e[i]
        <5>1. \A i \in 1 .. Len(e) : i <= Len(b)
          BY <1>1, <3>3
        <5> QED
          BY <5>1
      <4>2. Len(e) >= 11 /\ FRAME_HEADER = 11
        BY <2>1 DEF FRAME_HEADER
      <4>3. /\ SubSeq(b, 3, 6) = SubSeq(e, 3, 6)
            /\ SubSeq(b, 7, 10) = SubSeq(e, 7, 10)
        <5>1. /\ 3 \in Nat \ {0} /\ 6 \in Nat /\ 3 <= 6 + 1 /\ 6 <= Len(b) /\ 6 <= Len(e)
              /\ 7 \in Nat \ {0} /\ 10 \in Nat /\ 7 <= 10 + 1 /\ 10 <= Len(b) /\ 10 <= Len(e)
          BY <1>1, <3>3, <4>2
        <5>2. \A i \in 3 .. 6 : b[i] = e[i]
          <6>1. \A i \in 3 .. 6 : i \in 1 .. Len(e)
            BY <1>1, <4>2
          <6> QED
            BY <4>1, <6>1
        <5>3. \A i \in 7 .. 10 : b[i] = e[i]
          <6>1. \A i \in 7 .. 10 : i \in 1 .. Len(e)
            BY <1>1, <4>2
          <6> QED
            BY <4>1, <6>1
        <5>4. SubSeq(b, 3, 6) = SubSeq(e, 3, 6)
          BY <5>1, <5>2, SameStretch
        <5>5. SubSeq(b, 7, 10) = SubSeq(e, 7, 10)
          BY <5>1, <5>3, SameStretch
        <5> QED
          BY <5>4, <5>5
      <4>4. b[11] = e[11]
        <5>1. 11 \in 1 .. Len(e)
          BY <1>1, <4>2
        <5> QED
          BY <4>1, <5>1
      <4>5. SubSeq(b, FRAME_HEADER + 1, FRAME_HEADER + n)
              = SubSeq(e, FRAME_HEADER + 1, FRAME_HEADER + n)
        <5> DEFINE i == FRAME_HEADER + 1
                   j == FRAME_HEADER + n
        <5>1. i \in Nat \ {0} /\ j \in Nat /\ i <= j + 1 /\ j <= Len(b) /\ j <= Len(e)
          BY <1>1, <3>3, <4>2
        <5>2. \A k \in i .. j : k \in 1 .. Len(e)
          BY <1>1, <4>2
        <5> HIDE DEF i, j
        <5>3. \A k \in i .. j : b[k] = e[k]
          BY <4>1, <5>2
        <5>4. SubSeq(b, i, j) = SubSeq(e, i, j)
          BY <5>1, <5>3, SameStretch
        <5> QED
          BY <5>4 DEF i, j
      <4> HIDE DEF n
      <4> QED
        BY <4>3, <4>4, <4>5, Zenon DEF FrameMessage
    <3>5. Taken(b) = m
      <4>1. Taken(b) = FrameMessage(b, n)
        BY <1>4, <3>2, Zenon DEF Taken
      <4>2. m = FrameMessage(e, n)
        BY <2>1, Zenon
      <4> QED
        BY <3>4, <4>1, <4>2, Zenon
    <3> QED
      BY <1>3, <3>2, <3>3, <3>5
  <2> QED
    BY <2>3, <2>4
<1>5. CASE b[2] # OP_FRAME
  <2>1. Len(e) = ReplyLen(e[2]) /\ m = ReplyMessage(e)
    BY <1>3, <1>5, Zenon DEF Reads, TakenLen, Taken
  <2>2. TakenLen(b) = Len(e)
    BY <1>3, <1>5, <2>1, Zenon DEF TakenLen
  <2>3. ASSUME Len(b) >= Len(e) PROVE ~Incomplete(b)
    <3>1. ~(Len(b) < TakenLen(b))
      BY <1>1, <2>2, <2>3
    <3> QED
      BY <1>2, <1>3, <1>5, <3>1, Completeness
  <2>4. ASSUME ~Incomplete(b)
        PROVE  Known(b) /\ TakenLen(b) = Len(e) /\ Taken(b) = m /\ Len(e) <= Len(b)
    <3>1. ~(Len(b) < TakenLen(b))
      BY <1>2, <1>3, <1>5, <2>4, Completeness
    <3>2. Len(e) <= Len(b)
      BY <1>1, <2>2, <3>1
    <3>3. ReplyMessage(b) = ReplyMessage(e)
      <4> DEFINE j == Len(e)
      <4>1. j >= 3
        <5>1. e[2] \in Requests
          BY <1>3, <1>5, Zenon DEF Known
        <5> QED
          BY <2>1, <5>1, ReplyLenBounded
      <4>2. 3 \in Nat \ {0} /\ j \in Nat /\ 3 <= j + 1 /\ j <= Len(b) /\ j <= Len(e)
        BY <1>1, <3>2, <4>1
      <4>3. \A k \in 3 .. j : b[k] = e[k]
        <5>1. \A k \in 3 .. j : k \in 1 .. Len(e) /\ k <= Len(b)
          BY <1>1, <3>2
        <5> QED
          BY <5>1
      <4> HIDE DEF j
      <4>4. SubSeq(b, 3, j) = SubSeq(e, 3, j)
        BY <4>2, <4>3, SameStretch
      <4>5. ReplyLen(b[2]) = j /\ ReplyLen(e[2]) = j
        BY <1>3, <2>1, Zenon DEF j
      <4> QED
        BY <1>3, <4>4, <4>5, Zenon DEF ReplyMessage
    <3>4. Taken(b) = m
      BY <1>5, <2>1, <3>3, Zenon DEF Taken
    <3> QED
      BY <1>3, <2>2, <3>2, <3>4
  <2> QED
    BY <2>3, <2>4
<1> QED
  BY <1>4, <1>5

\* b is what the host has of the wire from p to f.
Ahead(b, p, f) ==
  /\ b \in Seq(Byte) /\ Len(b) = f - p
  /\ \A i \in 1 .. f - p : b[i] = wire[p + i]

LEMMA StretchIsAhead ==
  ASSUME Talk, NEW f \in 0 .. Len(wire), NEW p \in 0 .. f
  PROVE  Ahead(SubSeq(wire, p + 1, f), p, f)
<1> DEFINE o == p + 1
<1>1. wire \in Seq(Byte) /\ Len(wire) \in Nat
  BY TalkNumbers
<1>2. /\ p \in Nat /\ f \in Nat /\ o \in Nat \ {0} /\ o <= f + 1 /\ f <= Len(wire)
      /\ f - o + 1 = f - p /\ \A i \in 1 .. f - p : o + i - 1 = p + i
  BY <1>1
<1> HIDE DEF o
<1>3. /\ SubSeq(wire, o, f) \in Seq(Byte) /\ Len(SubSeq(wire, o, f)) = f - o + 1
      /\ \A i \in 1 .. f - o + 1 : SubSeq(wire, o, f)[i] = wire[o + i - 1]
  BY <1>1, <1>2, Stretch
<1>4. Ahead(SubSeq(wire, o, f), p, f)
  BY <1>2, <1>3 DEF Ahead
<1> QED
  BY <1>4 DEF o

LEMMA MessageForms ==
  /\ \A b \in Seq(Byte), n \in 0 .. 64 : FrameMessage(b, n) \in Message
  /\ \A b \in Seq(Byte) : ReplyMessage(b) \in Message
BY SMT DEF Message

\* What is taken is there, and is a message.
LEMMA TakenBounds ==
  ASSUME NEW b \in Seq(Byte), ~Incomplete(b), Known(b)
  PROVE  TakenLen(b) \in 1 .. Len(b) /\ Taken(b) \in Message /\ Len(b) >= 2
<1>1. Len(b) \in Nat /\ Len(b) >= 2
  BY LenProperties DEF Incomplete
<1>2. CASE b[2] = OP_FRAME
  <2>1. Len(b) >= FRAME_HEADER /\ ~(Len(b) < TakenLen(b)) /\ TakenLen(b) = FrameLen(b)
    BY <1>1, <1>2, Completeness DEF TakenLen
  <2>2. FrameLen(b) \in FRAME_HEADER .. FRAME_HEADER + 64
    BY <2>1, FrameLenBounded
  <2>3. TakenLen(b) \in 1 .. Len(b) /\ FrameLen(b) - FRAME_HEADER \in 0 .. 64
    <3>1. \A n \in FRAME_HEADER .. FRAME_HEADER + 64, m \in Nat :
            ~(m < n) => n \in 1 .. m /\ n - FRAME_HEADER \in 0 .. 64
      BY DEF FRAME_HEADER
    <3> QED
      BY <1>1, <2>1, <2>2, <3>1, Zenon
  <2>4. Taken(b) = FrameMessage(b, FrameLen(b) - FRAME_HEADER)
    BY <1>2, Zenon DEF Taken
  <2> QED
    BY <1>1, <2>3, <2>4, MessageForms, Zenon
<1>3. CASE b[2] # OP_FRAME
  <2>1. ~(Len(b) < TakenLen(b)) /\ TakenLen(b) = ReplyLen(b[2])
    BY <1>1, <1>3, Completeness DEF TakenLen
  <2>2. ReplyLen(b[2]) \in 3 .. 12
    BY <1>3, ReplyLenBounded DEF Known
  <2>3. TakenLen(b) \in 1 .. Len(b)
    BY <1>1, <2>1, <2>2
  <2>4. Taken(b) = ReplyMessage(b)
    BY <1>3, Zenon DEF Taken
  <2> QED
    BY <1>1, <2>3, <2>4, MessageForms, Zenon
<1> QED
  BY <1>2, <1>3

\* A known head in what the host heard first is a false one.
LEMMA FalseHeadSeen ==
  ASSUME Talk, NEW f \in Nat, NEW p \in Nat, p < Len(rubbish), f <= Len(wire),
         NEW b, Ahead(b, p, f), Len(b) >= 2, b[1] = CMD, Known(b)
  PROVE  p + 1 \in FalseHeads /\ p + 1 <= Len(rubbish) - 1 /\ rubbish[p + 1 + 1] = b[2]
<1>1. /\ Len(wire) \in Nat /\ Len(rubbish) \in Nat /\ Len(rubbish) <= Len(wire) /\ Len(said) \in Nat
  BY TalkNumbers
<1>2. p + 2 <= f /\ wire[p + 1] = CMD /\ wire[p + 2] = b[2]
  <2>1. 1 \in 1 .. f - p /\ 2 \in 1 .. f - p /\ p + 2 <= f
    BY DEF Ahead
  <2> QED
    BY <2>1 DEF Ahead
<1>3. CASE p + 1 < Len(rubbish)
  <2>1. /\ p + 1 \in 1 .. Len(rubbish) - 1 /\ p + 1 \in 1 .. Len(rubbish)
        /\ p + 2 \in 1 .. Len(rubbish) /\ p + 1 + 1 = p + 2 /\ p + 1 <= Len(rubbish) - 1
    BY <1>1, <1>3
  <2>2. rubbish[p + 1] = CMD /\ rubbish[p + 1 + 1] = b[2]
    <3>1. wire[p + 1] = rubbish[p + 1] /\ wire[p + 2] = rubbish[p + 2]
      BY <2>1, Zenon DEF Talk
    <3> QED
      BY <1>2, <2>1, <3>1, Zenon
  <2> QED
    BY <2>1, <2>2, Zenon DEF FalseHeads, Known
<1>4. CASE ~(p + 1 < Len(rubbish))
  <2>1. p + 1 = Len(rubbish)
    BY <1>1, <1>4
  <2>2. Len(said) > 0
    <3>1. Len(said) # 0
      BY <1>1, <1>2, <2>1 DEF Talk
    <3> QED
      BY <1>1, <3>1
  <2>3. spans[1].first = p + 2
    BY <2>1, <2>2 DEF Talk
  <2>4. wire[p + 2] = CMD
    <3>1. 1 \in 1 .. Len(said)
      BY <1>1, <2>2
    <3>2. wire[spans[1].first] = CMD
      BY <3>1, TalkOrder
    <3> QED
      BY <2>3, <3>2
  <2>5. CMD \notin Requests \cup {OP_FRAME}
    BY DEF CMD, OP_FRAME, Requests, OP_TIMEBASE, OP_CANBUS_PARAMS, OP_DEV_INFO, OP_KEEPALIVE,
           OP_NUM_BUSES
  <2> QED
    BY <1>2, <2>4, <2>5 DEF Known
<1> QED
  BY <1>3, <1>4

\* What is taken for a message there does not reach beyond what its head claims.
LEMMA TakenWithinClaim ==
  ASSUME Talk, NEW f \in Nat, NEW p \in Nat, p < Len(rubbish), f <= Len(wire),
         NEW b, Ahead(b, p, f), b[1] = CMD, ~Incomplete(b), Known(b)
  PROVE  p + 1 \in FalseHeads /\ p + TakenLen(b) <= Claimed(p + 1)
<1>1. b \in Seq(Byte) /\ Len(b) = f - p /\ \A i \in 1 .. f - p : b[i] = wire[p + i]
  BY Zenon DEF Ahead
<1>2. Len(b) >= 2 /\ Len(b) \in Nat /\ TakenLen(b) \in Nat
  BY <1>1, TakenBounds, LenProperties
<1> DEFINE i == p + 1
<1>3. i \in FalseHeads /\ i <= Len(rubbish) - 1 /\ rubbish[i + 1] = b[2]
  BY <1>2, FalseHeadSeen
<1>4. /\ rubbish \in Seq(Byte) /\ Len(rubbish) \in Nat /\ Len(rubbish) <= Len(wire) /\ Len(wire) \in Nat
  BY TalkNumbers
<1>5. i \in Nat /\ i - 1 = p
  OBVIOUS
<1> HIDE DEF i
<1>6. CASE b[2] # OP_FRAME
  <2>1. Claimed(i) = i - 1 + ReplyLen(b[2])
    BY <1>3, <1>6, Zenon DEF Claimed
  <2>2. TakenLen(b) = ReplyLen(b[2])
    BY <1>6, Zenon DEF TakenLen
  <2>3. Claimed(i) = p + TakenLen(b)
    BY <1>5, <2>1, <2>2
  <2> QED
    BY <1>2, <1>3, <2>3 DEF i
<1>7. CASE b[2] = OP_FRAME
  <2>1. Len(b) >= FRAME_HEADER /\ TakenLen(b) = FrameLen(b)
    BY <1>1, <1>2, <1>7, Completeness DEF TakenLen
  <2>2. FrameLen(b) \in FRAME_HEADER .. FRAME_HEADER + 64
    BY <1>1, <2>1, FrameLenBounded
  <2>3. CASE i + FRAME_HEADER - 1 > Len(rubbish)
    <3>1. Claimed(i) = i - 1 + (FRAME_HEADER + 64)
      BY <1>3, <1>7, <2>3, Zenon DEF Claimed
    <3>2. \A n \in FRAME_HEADER .. FRAME_HEADER + 64 : p + n <= i - 1 + (FRAME_HEADER + 64)
      BY <1>5 DEF FRAME_HEADER
    <3>3. p + TakenLen(b) <= Claimed(i)
      BY <2>1, <2>2, <3>1, <3>2, Zenon
    <3> QED
      BY <1>3, <3>3 DEF i
  <2>4. CASE ~(i + FRAME_HEADER - 1 > Len(rubbish))
    <3> DEFINE c == Drop(rubbish, i - 1)
    <3>1. Claimed(i) = i - 1 + FrameLen(c)
      BY <1>3, <1>7, <2>4, Zenon DEF Claimed
    <3>2. i - 1 \in 0 .. Len(rubbish) /\ 11 \in 1 .. Len(rubbish) - (i - 1)
          /\ i - 1 + 11 \in 1 .. Len(rubbish) /\ 11 \in 1 .. f - p /\ i - 1 + 11 = p + 11
      BY <1>1, <1>2, <1>4, <1>5, <2>1, <2>4 DEF FRAME_HEADER
    <3>3. c[11] = rubbish[i - 1 + 11]
      BY <1>4, <3>2, Dropping
    <3>4. rubbish[i - 1 + 11] = wire[i - 1 + 11]
      BY <3>2, Zenon DEF Talk
    <3>5. b[11] = wire[p + 11]
      BY <1>1, <3>2
    <3>6. c[11] = b[11]
      BY <3>2, <3>3, <3>4, <3>5, Zenon
    <3> HIDE DEF c
    <3>7. FrameLen(c) = FrameLen(b)
      BY <3>6, Zenon DEF FrameLen
    <3>8. Claimed(i) = p + TakenLen(b)
      BY <1>5, <2>1, <3>1, <3>7
    <3> QED
      BY <1>2, <1>3, <3>8 DEF i
  <2> QED
    BY <2>3, <2>4
<1> QED
  BY <1>6, <1>7

\* A host between two messages whose next byte is a sync byte has the next
\* message before it, and takes that and nothing else.
LEMMA NextMessage ==
  ASSUME Talk, NEW h, NEW p \in Nat, NEW n \in 0 .. Len(said), InStepAt(h, p, n),
         Len(rubbish) <= p, NEW f \in Nat, p < f, f <= Len(wire),
         NEW b, Ahead(b, p, f), b[1] = CMD
  PROVE  /\ n < Len(said) /\ spans[n + 1].first = p + 1
         /\ spans[n + 1].last <= f => ~Incomplete(b)
         /\ ~Incomplete(b) => /\ Known(b) /\ Taken(b) = said[n + 1]
                              /\ p + TakenLen(b) = spans[n + 1].last
<1> DEFINE R == Len(rubbish)
           M == Len(said)
<1>1. /\ wire \in Seq(Byte) /\ Len(wire) \in Nat /\ R \in Nat /\ M \in Nat /\ Len(spans) = M
      /\ \A k \in 1 .. M : spans[k].first \in Nat /\ spans[k].last \in Nat
  BY TalkNumbers
<1>2. b \in Seq(Byte) /\ Len(b) = f - p /\ \A i \in 1 .. f - p : b[i] = wire[p + i]
  BY Zenon DEF Ahead
<1>3. n < M /\ spans[n + 1].first = p + 1
  <2>1. Laid(wire, R, spans)
    BY Zenon DEF Talk
  <2>2. n \in 0 .. Len(spans) /\ p \in R .. Len(wire) /\ p \in p .. Len(wire)
        /\ p < Len(wire) /\ \A i \in p + 1 .. p : wire[i] # CMD
    BY <1>1
  <2>3. Between(spans, n, p)
    BY DEF InStepAt
  <2>4. wire[p + 1] = CMD
    <3>1. 1 \in 1 .. f - p
      OBVIOUS
    <3> QED
      BY <1>2, <3>1
  <2> HIDE DEF R, M
  <2>5. n < Len(spans) /\ spans[n + 1].first = p + 1
    BY <2>1, <2>2, <2>3, <2>4, NextFound
  <2> QED
    BY <1>1, <2>5
<1> DEFINE k == n + 1
<1>4. k \in 1 .. M /\ n \in Nat
  BY <1>1, <1>3
<1> HIDE DEF R, M, k
<1> DEFINE i == spans[k].first
           j == spans[k].last
           e == SubSeq(wire, i, j)
<1>5. i = p + 1 /\ i \in Nat /\ j \in Nat /\ i < j /\ j <= Len(wire)
  BY <1>1, <1>3, <1>4, TalkOrder DEF M, k
<1>6. Reads(e, said[k])
  BY <1>4, Zenon DEF Talk, M
<1> HIDE DEF i, j
<1>7. e \in Seq(Byte) /\ Len(e) = j - p /\ \A x \in 1 .. j - p : e[x] = wire[p + x]
  <2>1. i \in Nat \ {0} /\ i <= j + 1 /\ j - i + 1 = j - p
    BY <1>5
  <2>2. e \in Seq(Byte) /\ Len(e) = j - i + 1 /\ \A x \in 1 .. j - i + 1 : e[x] = wire[i + x - 1]
    BY <1>1, <1>5, <2>1, Stretch
  <2>3. \A x \in 1 .. j - p : i + x - 1 = p + x
    BY <1>3, <1>5
  <2> HIDE DEF e
  <2> QED
    BY <2>1, <2>2, <2>3
<1> HIDE DEF e
<1>8. \A x \in 1 .. Len(e) : x <= Len(b) => b[x] = e[x]
  <2>1. \A x \in 1 .. Len(e) : x <= Len(b) => x \in 1 .. f - p /\ x \in 1 .. j - p
    BY <1>2, <1>5, <1>7
  <2> QED
    BY <1>2, <1>7, <2>1
<1>9. /\ Len(b) >= Len(e) => ~Incomplete(b)
      /\ ~Incomplete(b) =>
           Known(b) /\ TakenLen(b) = Len(e) /\ Taken(b) = said[k] /\ Len(e) <= Len(b)
  <2> DEFINE m == said[k]
  <2>1. Reads(e, m)
    BY <1>6
  <2> HIDE DEF m
  <2>2. /\ Len(b) >= Len(e) => ~Incomplete(b)
        /\ ~Incomplete(b) =>
             Known(b) /\ TakenLen(b) = Len(e) /\ Taken(b) = m /\ Len(e) <= Len(b)
    BY <1>2, <1>7, <1>8, <2>1, ReadsAlike
  <2> QED
    BY <2>2 DEF m
<1>10. ASSUME j <= f PROVE ~Incomplete(b)
  <2>1. Len(b) >= Len(e)
    BY <1>2, <1>5, <1>7, <1>10
  <2> QED
    BY <1>9, <2>1
<1>11. ASSUME ~Incomplete(b)
       PROVE  Known(b) /\ Taken(b) = said[k] /\ p + TakenLen(b) = j
  <2>1. TakenLen(b) = j - p
    BY <1>7, <1>9, <1>11
  <2>2. p + TakenLen(b) = j
    BY <1>5, <2>1
  <2> QED
    BY <1>9, <1>11, <2>2
<1> QED
  BY <1>3, <1>10, <1>11 DEF k, j, M

\* A message with a sync byte in it is not plain.
LEMMA SyncInsideIsNotPlain ==
  ASSUME Talk, NEW p \in Nat, NEW k \in 1 .. Len(said),
         spans[k].first <= p, p < spans[k].last, wire[p + 1] = CMD
  PROVE  ~Plain(said[k])
<1> DEFINE i == spans[k].first
           j == spans[k].last
           e == SubSeq(wire, i, j)
<1>1. /\ wire \in Seq(Byte) /\ Len(wire) \in Nat /\ Len(rubbish) \in Nat
      /\ i \in Nat /\ j \in Nat
  BY TalkNumbers
<1>2. Len(rubbish) < i /\ i < j /\ j <= Len(wire) /\ i <= p /\ p < j
  BY TalkOrder
<1>3. Reads(e, said[k])
  BY Zenon DEF Talk
<1> HIDE DEF i, j
<1> DEFINE x == p - i + 2
<1>4. i \in Nat \ {0} /\ i <= j + 1 /\ x \in 1 .. j - i + 1 /\ x \in 2 .. j - i + 1 /\ i + x - 1 = p + 1
  BY <1>1, <1>2
<1>5. Len(e) = j - i + 1 /\ \A y \in 1 .. j - i + 1 : e[y] = wire[i + y - 1]
  BY <1>1, <1>2, <1>4, Stretch
<1> HIDE DEF e, x
<1>6. e[x] = CMD /\ x \in 2 .. Len(e)
  BY <1>4, <1>5
<1> QED
  BY <1>3, <1>6, Zenon DEF Reads

\* Inside a message with a sync byte next, wherever the host comes.
LEMMA InsideKeepsBearing ==
  ASSUME Talk, NEW p \in Nat, Inside(p), wire[p + 1] = CMD, NEW h, NEW q \in Nat, p <= q
  PROVE  Bearing(h, q)
<1>1. PICK n \in 1 .. Len(said) : /\ spans[n].first <= p /\ p < spans[n].last
                                  /\ \E i \in FalseHeads : spans[n].first <= Claimed(i)
  BY DEF Inside
<1>2. spans[n].first \in Nat /\ spans[n].last \in Nat
  BY TalkNumbers
<1>3. ~Plain(said[n])
  BY <1>1, SyncInsideIsNotPlain
<1>4. CASE q < spans[n].last
  <2>1. spans[n].first <= q
    BY <1>1, <1>2
  <2> QED
    BY <1>1, <1>4, <2>1, Zenon DEF Bearing, Inside
<1>5. CASE ~(q < spans[n].last)
  <2>1. spans[n].last <= q
    BY <1>2, <1>5
  <2>2. FalseHeads # {}
    BY <1>1
  <2> QED
    BY <1>3, <2>1, <2>2, Zenon DEF Bearing, Astray
<1> QED
  BY <1>4, <1>5

\* A host that is astray may go on.
LEMMA AstrayKeepsBearing ==
  ASSUME Talk, NEW p \in Nat, Astray(p), NEW h, NEW q \in Nat, p <= q
  PROVE  Bearing(h, q)
<1>1. PICK k \in 1 .. Len(said) : spans[k].last <= p /\ ~Plain(said[k])
  BY DEF Astray
<1>2. spans[k].last \in Nat
  BY TalkNumbers
<1>3. spans[k].last <= q
  BY <1>1, <1>2
<1> QED
  BY <1>1, <1>3, Zenon DEF Bearing, Astray

\* Past a false head the host is where that head claims at most.
LEMMA ClaimKeepsBearing ==
  ASSUME Talk, NEW q \in Nat, q <= Len(wire), NEW i \in FalseHeads, q <= Claimed(i), NEW h
  PROVE  Bearing(h, q)
<1> DEFINE R == Len(rubbish)
           M == Len(said)
<1>1. /\ Len(wire) \in Nat /\ R \in Nat /\ M \in Nat /\ Len(spans) = M
      /\ \A k \in 1 .. M : spans[k].first \in Nat /\ spans[k].last \in Nat
  BY TalkNumbers
<1>2. Claimed(i) \in Int
  BY TalkNumbers, ClaimIsNumber
<1>3. CASE q < R
  BY <1>3, Zenon DEF Bearing, InRubbish
<1>4. CASE ~(q < R)
  <2> DEFINE n == Whole(spans, q)
  <2>1. Laid(wire, R, spans)
    BY Zenon DEF Talk
  <2>2. n \in Nat /\ n <= M /\ \A k \in 1 .. M : spans[k].last <= q <=> k <= n
    BY <1>1, <2>1, WholeIs
  <2>3. \/ Between(spans, n, q)
        \/ n < M /\ spans[n + 1].first <= q /\ q < spans[n + 1].last
    BY <1>1, <2>1, Whereabouts
  <2> HIDE DEF n
  <2>4. CASE Between(spans, n, q)
    <3>1. ASSUME NEW first \in 1 .. n PROVE ~(Claimed(i) < spans[first].first)
      <4>1. first \in 1 .. M /\ first <= n
        BY <1>1, <2>2
      <4>2. spans[first].last <= q /\ spans[first].first < spans[first].last
            /\ spans[first].first \in Nat /\ spans[first].last \in Nat
        BY <1>1, <2>2, <4>1, TalkOrder
      <4> QED
        BY <1>2, <4>2
    <3>2. InStepAt(h, q, n)
      BY <2>4, <3>1, Zenon DEF InStepAt
    <3>3. R <= q /\ n \in 0 .. M
      BY <1>1, <1>4, <2>2
    <3> QED
      BY <3>2, <3>3, Zenon DEF Bearing, InStep
  <2>5. CASE n < M /\ spans[n + 1].first <= q /\ q < spans[n + 1].last
    <3> DEFINE k == n + 1
    <3>1. k \in 1 .. M /\ spans[k].first <= q /\ q < spans[k].last
      BY <1>1, <2>2, <2>5
    <3> HIDE DEF k
    <3>2. spans[k].first <= Claimed(i)
      BY <1>1, <1>2, <3>1
    <3> QED
      BY <3>1, <3>2, Zenon DEF Bearing, Inside
  <2> QED
    BY <2>3, <2>4, <2>5
<1> QED
  BY <1>3, <1>4

\* One message more: what was heard still is what was said.
LEMMA TakeInStep ==
  ASSUME Talk, NEW h \in Seq(Message), NEW p \in Nat, NEW n \in 0 .. Len(said) - 1,
         InStepAt(h, p, n), NEW m \in Message, m = said[n + 1]
  PROVE  InStepAt(Append(h, m), spans[n + 1].last, n + 1)
<1> DEFINE M == Len(said)
           g == Append(h, m)
           k == n + 1
<1>1. M \in Nat /\ \A l \in 1 .. M : spans[l].first \in Nat
  BY TalkNumbers
<1>2. n \in Nat /\ k \in Nat /\ k \in 1 .. M
  BY <1>1
<1>3. Len(h) \in Nat /\ Len(g) = Len(h) + 1 /\ g[Len(h) + 1] = m /\ \A x \in 1 .. Len(h) : g[x] = h[x]
  BY AppendProperties, LenProperties
<1> HIDE DEF g
<1>4. Between(spans, k, spans[k].last)
  <2> HIDE DEF k
  <2> QED
    BY <1>2, EndIsBetween
<1>5. ASSUME Follows(h, n) PROVE Follows(g, k)
  <2>1. Len(h) = n /\ \A x \in 1 .. n : h[x] = said[x]
    BY <1>5 DEF Follows
  <2>2. ASSUME NEW x \in 1 .. k PROVE g[x] = said[x]
    <3>1. CASE x = k
      BY <1>3, <2>1, <3>1
    <3>2. CASE x # k
      <4>1. x \in 1 .. n /\ x \in 1 .. Len(h)
        BY <1>2, <2>1, <3>2
      <4> QED
        BY <1>3, <2>1, <4>1
    <3> QED
      BY <3>1, <3>2
  <2>3. Len(g) = k
    BY <1>3, <2>1
  <2> QED
    BY <2>2, <2>3, Zenon DEF Follows
<1>6. ASSUME NEW first \in 1 .. n, Ends(h, first, n) PROVE Ends(g, first, k)
  <2> DEFINE L == Len(h)
             G == Len(g)
  <2>1. /\ n - first + 1 <= L
        /\ \A x \in first .. n : h[L - (n - x)] = said[x]
    BY <1>6 DEF Ends
  <2>2. L \in Nat /\ G = L + 1 /\ first \in Nat /\ first >= 1 /\ first <= n
    BY <1>2, <1>3
  <2> HIDE DEF L, G
  <2>3. k - first + 1 <= G
    BY <1>2, <2>1, <2>2
  <2>4. ASSUME NEW x \in first .. k PROVE g[G - (k - x)] = said[x]
    <3>1. CASE x = k
      <4>1. G - (k - x) = L + 1
        BY <1>2, <2>2, <3>1
      <4> QED
        BY <1>3, <3>1, <4>1 DEF L
    <3>2. CASE x # k
      <4>1. x \in first .. n /\ G - (k - x) = L - (n - x) /\ L - (n - x) \in 1 .. L
        BY <1>2, <2>1, <2>2, <3>2
      <4>2. g[L - (n - x)] = h[L - (n - x)]
        BY <1>3, <4>1 DEF L
      <4> QED
        BY <2>1, <4>1, <4>2, Zenon
    <3> QED
      BY <3>1, <3>2
  <2> HIDE DEF k
  <2> QED
    BY <2>3, <2>4, Zenon DEF Ends, G
<1>7. Ends(g, k, k)
  <2> HIDE DEF k
  <2>1. k - k + 1 = 1 /\ \A x \in k .. k : x = k
    BY <1>2
  <2>2. 1 <= Len(g) /\ Len(g) - (k - k) = Len(g)
    BY <1>2, <1>3
  <2>3. g[Len(g)] = said[k]
    BY <1>3 DEF k
  <2>4. \A x \in k .. k : g[Len(g) - (k - x)] = said[x]
    BY <2>1, <2>2, <2>3, Zenon
  <2> QED
    BY <2>1, <2>2, <2>4, Zenon DEF Ends
<1>8. ASSUME NEW first \in 1 .. k, \A i \in FalseHeads : Claimed(i) < spans[first].first
      PROVE  Ends(g, first, k)
  <2>1. CASE first = k
    BY <1>7, <2>1, Zenon
  <2>2. CASE first # k
    <3>1. first \in 1 .. n
      BY <1>2, <2>2
    <3>2. Ends(h, first, n)
      BY <1>8, <3>1, Zenon DEF InStepAt
    <3> QED
      BY <1>6, <3>1, <3>2, Zenon
  <2> QED
    BY <2>1, <2>2
<1>9. FalseHeads = {} => Follows(g, k)
  BY <1>5, Zenon DEF InStepAt
<1> HIDE DEF k
<1>10. InStepAt(g, spans[k].last, k)
  BY <1>4, <1>8, <1>9, Zenon DEF InStepAt
<1> QED
  BY <1>10 DEF g, k

\* A host that takes a message keeps its bearing.
LEMMA TakeKeepsBearing ==
  ASSUME Talk, NEW h \in Seq(Message), NEW p \in Nat, Bearing(h, p),
         NEW f \in Nat, p < f, f <= Len(wire),
         NEW b, Ahead(b, p, f), b[1] = CMD, ~Incomplete(b), Known(b)
  PROVE  Bearing(Append(h, Taken(b)), p + TakenLen(b))
<1> DEFINE g == Append(h, Taken(b))
           q == p + TakenLen(b)
<1>1. b \in Seq(Byte) /\ Len(b) = f - p /\ \A i \in 1 .. f - p : b[i] = wire[p + i]
  BY Zenon DEF Ahead
<1>2. TakenLen(b) \in 1 .. Len(b) /\ Taken(b) \in Message
  BY <1>1, TakenBounds
<1>3. Len(wire) \in Nat /\ Len(rubbish) \in Nat /\ Len(said) \in Nat
      /\ \A k \in 1 .. Len(said) : spans[k].first \in Nat /\ spans[k].last \in Nat
  BY TalkNumbers
<1>4. q \in Nat /\ p <= q /\ q <= Len(wire)
  BY <1>1, <1>2, <1>3
<1>5. wire[p + 1] = CMD
  <2>1. 1 \in 1 .. f - p
    OBVIOUS
  <2> QED
    BY <1>1, <2>1
<1>6. CASE InRubbish(h, p)
  <2> DEFINE i == p + 1
  <2>1. i \in FalseHeads /\ q <= Claimed(i)
    <3>1. p < Len(rubbish)
      BY <1>6 DEF InRubbish
    <3> QED
      BY <3>1, TakenWithinClaim
  <2> HIDE DEF i, q, g
  <2>2. Bearing(g, q)
    BY <1>4, <2>1, ClaimKeepsBearing
  <2> QED
    BY <2>2 DEF g, q
<1>7. CASE InStep(h, p)
  <2>1. PICK n \in 0 .. Len(said) : InStepAt(h, p, n)
    BY <1>7 DEF InStep
  <2>2. Len(rubbish) <= p
    BY <1>7 DEF InStep
  <2>3. n < Len(said) /\ Taken(b) = said[n + 1] /\ q = spans[n + 1].last
    BY <2>1, <2>2, NextMessage
  <2>4. n \in 0 .. Len(said) - 1
    BY <1>3, <2>3
  <2>5. InStepAt(g, spans[n + 1].last, n + 1)
    <3> DEFINE m == Taken(b)
    <3>1. m \in Message /\ m = said[n + 1]
      BY <1>2, <2>3
    <3> HIDE DEF m
    <3>2. InStepAt(Append(h, m), spans[n + 1].last, n + 1)
      BY <2>1, <2>4, <3>1, TakeInStep
    <3> QED
      BY <3>2 DEF m
  <2>6. n + 1 \in 0 .. Len(said) /\ Len(rubbish) <= q
    <3> HIDE DEF q
    <3> QED
      BY <1>3, <1>4, <2>2, <2>4
  <2> HIDE DEF q, g
  <2>7. Bearing(g, q)
    BY <2>3, <2>5, <2>6, Zenon DEF Bearing, InStep
  <2> QED
    BY <2>7 DEF g, q
<1>8. CASE Inside(p)
  <2> HIDE DEF q, g
  <2>1. Bearing(g, q)
    BY <1>4, <1>5, <1>8, InsideKeepsBearing
  <2> QED
    BY <2>1 DEF g, q
<1>9. CASE Astray(p)
  <2> HIDE DEF q, g
  <2>1. Bearing(g, q)
    BY <1>4, <1>9, AstrayKeepsBearing
  <2> QED
    BY <2>1 DEF g, q
<1> QED
  BY <1>6, <1>7, <1>8, <1>9, Zenon DEF Bearing

\* A host that drops a sync byte is not between two messages.
LEMMA DropKeepsBearing ==
  ASSUME Talk, NEW h, NEW p \in Nat, Bearing(h, p),
         NEW f \in Nat, p < f, f <= Len(wire),
         NEW b, Ahead(b, p, f), b[1] = CMD, ~Incomplete(b), ~Known(b)
  PROVE  Bearing(h, p + 1)
<1> DEFINE q == p + 1
<1>1. Len(wire) \in Nat /\ Len(rubbish) \in Nat /\ Len(said) \in Nat /\ Len(spans) = Len(said)
  BY TalkNumbers
<1>2. q \in Nat /\ p <= q /\ q <= Len(wire)
  BY <1>1
<1>3. wire[p + 1] = CMD
  <2>1. 1 \in 1 .. f - p /\ 1 \in 1 .. Len(b)
    BY DEF Ahead
  <2> QED
    BY <2>1 DEF Ahead
<1>4. CASE InRubbish(h, p)
  <2>1. p < Len(rubbish) /\ (FalseHeads = {} => Len(h) = 0)
    BY <1>4, Zenon DEF InRubbish
  <2>2. CASE q < Len(rubbish)
    BY <2>1, <2>2, Zenon DEF Bearing, InRubbish
  <2>3. CASE ~(q < Len(rubbish))
    <3>1. q = Len(rubbish) /\ Len(rubbish) <= q /\ 0 \in 0 .. Len(said)
      BY <1>1, <2>1, <2>3
    <3>2. \A k \in 1 .. 0 : FALSE
      OBVIOUS
    <3>3. Between(spans, 0, q)
      <4>1. \A k \in 0 + 1 .. Len(spans) : q < spans[k].first
        <5>1. \A k \in 0 + 1 .. Len(spans) : k \in 1 .. Len(said)
          BY <1>1
        <5> HIDE DEF q
        <5> QED
          BY <3>1, <5>1, TalkOrder
      <4> QED
        BY <3>2, <4>1, Zenon DEF Between
    <3>4. FalseHeads = {} => Follows(h, 0)
      BY <2>1, <3>2, Zenon DEF Follows
    <3>5. InStepAt(h, q, 0)
      BY <3>2, <3>3, <3>4, Zenon DEF InStepAt
    <3> QED
      BY <3>1, <3>5, Zenon DEF Bearing, InStep
  <2> QED
    BY <2>2, <2>3
<1>5. CASE InStep(h, p)
  <2>1. PICK n \in 0 .. Len(said) : InStepAt(h, p, n)
    BY <1>5 DEF InStep
  <2>2. Len(rubbish) <= p
    BY <1>5 DEF InStep
  <2>3. Known(b)
    BY <2>1, <2>2, NextMessage
  <2> QED
    BY <2>3
<1>6. CASE Inside(p)
  <2> HIDE DEF q
  <2>1. Bearing(h, q)
    BY <1>2, <1>3, <1>6, InsideKeepsBearing
  <2> QED
    BY <2>1 DEF q
<1>7. CASE Astray(p)
  <2> HIDE DEF q
  <2>1. Bearing(h, q)
    BY <1>2, <1>7, AstrayKeepsBearing
  <2> QED
    BY <2>1 DEF q
<1> QED
  BY <1>4, <1>5, <1>6, <1>7, Zenon DEF Bearing

\* A host that waits, and was thrown into nothing that looks like a message,
\* has no whole message before it.
LEMMA WaitHasNone ==
  ASSUME Talk, NEW h, NEW p \in Nat, Bearing(h, p), FalseHeads = {},
         NEW f \in Nat, p <= f, f <= Len(wire),
         \/ \A i \in p + 1 .. f : wire[i] # CMD
         \/ \E b : Ahead(b, p, f) /\ p < f /\ b[1] = CMD /\ Incomplete(b),
         NEW k \in 1 .. Len(said), spans[k].last <= f
  PROVE  spans[k].last <= p
<1> DEFINE R == Len(rubbish)
           M == Len(said)
<1>1. /\ Len(wire) \in Nat /\ R \in Nat /\ M \in Nat /\ Len(spans) = M
      /\ spans[k].first \in Nat /\ spans[k].last \in Nat
  BY TalkNumbers
<1>2. R < spans[k].first /\ spans[k].first < spans[k].last /\ wire[spans[k].first] = CMD
  BY TalkOrder
<1>3. CASE InRubbish(h, p)
  <2>1. p < R
    BY <1>3 DEF InRubbish
  <2>2. CASE \A i \in p + 1 .. f : wire[i] # CMD
    <3>1. spans[k].first \in p + 1 .. f
      BY <1>1, <1>2, <2>1
    <3> QED
      BY <1>2, <2>2, <3>1
  <2>3. CASE \E b : Ahead(b, p, f) /\ p < f /\ b[1] = CMD /\ Incomplete(b)
    <3>1. PICK b : Ahead(b, p, f) /\ p < f /\ b[1] = CMD /\ Incomplete(b)
      BY <2>3
    <3>2. Len(b) = f - p
      BY <3>1 DEF Ahead
    <3>3. Len(b) >= 2
      BY <1>1, <1>2, <2>1, <3>2
    <3>4. Known(b)
      <4>1. ~(Len(b) < 2)
        BY <3>2, <3>3
      <4> QED
        BY <3>1, <4>1, Zenon DEF Incomplete, IsFrame, IsReply, Known
    <3>5. p + 1 \in FalseHeads
      BY <2>1, <3>1, <3>3, <3>4, FalseHeadSeen
    <3> QED
      BY <3>5
  <2> QED
    BY <2>2, <2>3
<1>4. CASE InStep(h, p)
  <2>1. PICK n \in 0 .. M : InStepAt(h, p, n)
    BY <1>4 DEF InStep
  <2>2. R <= p /\ Between(spans, n, p)
    <3>1. R <= p
      BY <1>4 DEF InStep
    <3>2. Between(spans, n, p)
      BY <2>1 DEF InStepAt
    <3> QED
      BY <3>1, <3>2
  <2>3. CASE k <= n
    <3>1. k \in 1 .. n
      BY <1>1, <2>3
    <3> QED
      BY <2>2, <3>1 DEF Between
  <2>4. CASE ~(k <= n)
    <3>1. k \in n + 1 .. Len(spans)
      BY <1>1, <2>4
    <3>2. p < spans[k].first
      BY <2>2, <3>1 DEF Between
    <3>3. CASE \A i \in p + 1 .. f : wire[i] # CMD
      <4>1. spans[k].first \in p + 1 .. f
        BY <1>1, <1>2, <3>2
      <4> QED
        BY <1>2, <3>3, <4>1
    <3>4. CASE \E b : Ahead(b, p, f) /\ p < f /\ b[1] = CMD /\ Incomplete(b)
      <4>1. PICK b : Ahead(b, p, f) /\ p < f /\ b[1] = CMD /\ Incomplete(b)
        BY <3>4
      <4>2. n < M /\ ~(spans[n + 1].last <= f)
        BY <2>1, <2>2, <4>1, NextMessage
      <4> DEFINE l == n + 1
      <4>3. l \in 1 .. M /\ (k = l \/ k \in l + 1 .. M)
        BY <1>1, <2>4, <4>2
      <4>4. ~(spans[l].last <= f) /\ spans[l].last \in Nat
        BY <4>2, <4>3, TalkNumbers
      <4> HIDE DEF l
      <4>5. k # l
        BY <4>4
      <4>6. spans[l].last < spans[k].first
        BY <4>3, <4>5, TalkOrder
      <4> QED
        BY <1>1, <1>2, <4>4, <4>6
    <3> QED
      BY <3>3, <3>4
  <2> QED
    BY <2>3, <2>4
<1>5. ~Inside(p) /\ ~Astray(p)
  BY Zenon DEF Inside, Astray
<1> QED
  BY <1>3, <1>4, <1>5, Zenon DEF Bearing

-----------------------------------------------------------------------------
(* A step of the host.                                                     *)

\* The numbers of a host that has heard part of what the device said.
LEMMA HostNumbers ==
  ASSUME Talk, HeardSoFar
  PROVE  /\ wire \in Seq(Byte) /\ Len(wire) \in Nat
         /\ fed \in Nat /\ fed <= Len(wire) /\ HostAt \in Nat /\ HostAt <= fed
         /\ hostBuf = SubSeq(wire, HostAt + 1, fed) /\ Ahead(hostBuf, HostAt, fed)
         /\ hostBuf \in Seq(Byte) /\ Len(hostBuf) = fed - HostAt
         /\ heard \in Seq(Message) /\ Bearing(heard, HostAt)
<1> DEFINE p == HostAt
<1>1. wire \in Seq(Byte) /\ Len(wire) \in Nat
  BY TalkNumbers
<1>2. /\ fed \in 0 .. Len(wire) /\ p \in 0 .. fed /\ hostBuf = SubSeq(wire, p + 1, fed)
      /\ heard \in Seq(Message) /\ Bearing(heard, p)
  BY Zenon DEF HeardSoFar
<1> HIDE DEF p
<1>3. fed \in Nat /\ fed <= Len(wire) /\ p \in Nat /\ p <= fed
  BY <1>1, <1>2
<1>4. Ahead(SubSeq(wire, p + 1, fed), p, fed)
  BY <1>2, StretchIsAhead
<1>5. Ahead(hostBuf, p, fed)
  BY <1>2, <1>4, Zenon
<1>6. hostBuf \in Seq(Byte) /\ Len(hostBuf) = fed - p
  BY <1>5, Zenon DEF Ahead
<1> QED
  BY <1>1, <1>2, <1>3, <1>5, <1>6 DEF p

\* What was said stays, and so does what it means to have one's bearing.
LEMMA TalkStays ==
  ASSUME UNCHANGED <<wire, said, spans, rubbish>>
  PROVE  Talk => Talk'
<1>1. wire' = wire /\ said' = said /\ spans' = spans /\ rubbish' = rubbish
  OBVIOUS
<1> QED
  BY <1>1, Zenon DEF Talk

LEMMA BearingStays ==
  ASSUME UNCHANGED <<wire, said, spans, rubbish>>, Bearing(heard', HostAt')
  PROVE  Bearing(heard, HostAt)'
<1>1. wire' = wire /\ said' = said /\ spans' = spans /\ rubbish' = rubbish
  OBVIOUS
<1>2. FalseHeads' = FalseHeads
  BY <1>1, Zenon DEF FalseHeads
<1>3. ASSUME NEW i PROVE Claimed(i)' = Claimed(i)
  BY <1>1, Zenon DEF Claimed
<1>4. InRubbish(heard', HostAt') => InRubbish(heard, HostAt)'
  BY <1>1, <1>2, Zenon DEF InRubbish
<1>5. InStep(heard', HostAt') => InStep(heard, HostAt)'
  <2> SUFFICES ASSUME InStep(heard', HostAt') PROVE InStep(heard, HostAt)'
    OBVIOUS
  <2>1. PICK n \in 0 .. Len(said) : InStepAt(heard', HostAt', n)
    BY Zenon DEF InStep
  <2>2. Between(spans', n, HostAt')
    BY <1>1, <2>1, Zenon DEF InStepAt
  <2>3. FalseHeads' = {} => Follows(heard, n)'
    BY <1>1, <1>2, <2>1, Zenon DEF InStepAt, Follows
  <2>4. ASSUME NEW first \in 1 .. n, \A i \in FalseHeads' : Claimed(i)' < spans'[first].first
        PROVE  Ends(heard, first, n)'
    <3>1. \A i \in FalseHeads : Claimed(i) < spans[first].first
      BY <1>1, <1>2, <1>3, <2>4, Zenon
    <3>2. Ends(heard', first, n)
      BY <2>1, <3>1, Zenon DEF InStepAt
    <3> QED
      BY <1>1, <3>2, Zenon DEF Ends
  <2>5. InStepAt(heard, HostAt, n)'
    BY <2>2, <2>3, <2>4, Zenon DEF InStepAt
  <2>6. Len(rubbish') <= HostAt' /\ n \in 0 .. Len(said')
    BY <1>1, <2>1, Zenon DEF InStep
  <2> QED
    BY <2>5, <2>6, Zenon DEF InStep
<1>6. Inside(HostAt') => Inside(HostAt)'
  <2> SUFFICES ASSUME Inside(HostAt') PROVE Inside(HostAt)'
    OBVIOUS
  <2>1. PICK n \in 1 .. Len(said) :
          /\ spans[n].first <= HostAt' /\ HostAt' < spans[n].last
          /\ \E i \in FalseHeads : spans[n].first <= Claimed(i)
    BY Zenon DEF Inside
  <2>2. PICK i \in FalseHeads : spans[n].first <= Claimed(i)
    BY <2>1
  <2>3. i \in FalseHeads' /\ spans'[n].first <= Claimed(i)' /\ n \in 1 .. Len(said')
        /\ spans'[n].first <= HostAt' /\ HostAt' < spans'[n].last
    BY <1>1, <1>2, <1>3, <2>1, <2>2, Zenon
  <2> QED
    BY <2>3, Zenon DEF Inside
<1>7. Astray(HostAt') => Astray(HostAt)'
  BY <1>1, <1>2, Zenon DEF Astray
<1> QED
  BY <1>4, <1>5, <1>6, <1>7, Zenon DEF Bearing

\* A step after which the host has consumed q bytes and kept its bearing.
Landing(q) ==
  /\ hostBuf' = SubSeq(wire, q + 1, fed) /\ heard' \in Seq(Message) /\ reading' \in BOOLEAN
  /\ Bearing(heard', q)
  /\ ~reading' /\ FalseHeads = {} =>
       \A k \in 1 .. Len(said) : spans[k].last <= fed => spans[k].last <= q

LEMMA LandingHolds ==
  ASSUME Talk, HeardSoFar, UNCHANGED <<wire, fed, said, spans, rubbish>>,
         NEW q \in 0 .. fed, Landing(q)
  PROVE  HeardSoFar'
<1>1. UNCHANGED <<wire, said, spans, rubbish>> /\ wire' = wire /\ fed' = fed /\ said' = said
      /\ spans' = spans /\ rubbish' = rubbish
  OBVIOUS
<1>2. fed \in Nat /\ Len(wire) \in Nat /\ q \in Nat /\ fed \in 0 .. Len(wire)
  BY HostNumbers
<1>3. Ahead(hostBuf', q, fed)
  <2>1. Ahead(SubSeq(wire, q + 1, fed), q, fed)
    BY <1>2, StretchIsAhead
  <2> QED
    BY <2>1, Zenon DEF Landing
<1>4. HostAt' = q
  <2>1. Len(hostBuf') = fed - q
    BY <1>3 DEF Ahead
  <2> QED
    BY <1>1, <1>2, <2>1 DEF HostAt
<1>5. Bearing(heard, HostAt)'
  <2>1. Bearing(heard', HostAt')
    BY <1>4, Zenon DEF Landing
  <2> QED
    BY <1>1, <2>1, BearingStays
<1>6. FalseHeads' = FalseHeads
  BY <1>1, Zenon DEF FalseHeads
<1>7. ~reading' /\ FalseHeads' = {} =>
        \A k \in 1 .. Len(said') : spans'[k].last <= fed' => spans'[k].last <= HostAt'
  BY <1>1, <1>4, <1>6, Zenon DEF Landing
<1>8. fed' \in 0 .. Len(wire') /\ HostAt' \in 0 .. fed' /\ hostBuf' = SubSeq(wire', HostAt' + 1, fed')
      /\ reading' \in BOOLEAN /\ heard' \in Seq(Message)
  BY <1>1, <1>2, <1>4, Zenon DEF Landing
<1> QED
  BY <1>5, <1>7, <1>8, Zenon DEF HeardSoFar

\* The host reads on.
LEMMA ReadKeepsHearing ==
  ASSUME Talk, HeardSoFar, NEW n \in Nat, HostReads(n)
  PROVE  HeardSoFar'
<1> DEFINE p == HostAt
           o == p + 1
           r == fed + 1
           g == fed'
<1>1. /\ wire \in Seq(Byte) /\ Len(wire) \in Nat /\ fed \in Nat /\ fed <= Len(wire)
      /\ p \in Nat /\ p <= fed /\ hostBuf = SubSeq(wire, p + 1, fed)
      /\ hostBuf \in Seq(Byte) /\ Len(hostBuf) = fed - p
      /\ heard \in Seq(Message) /\ Bearing(heard, p)
  BY HostNumbers
<1>2. /\ g = Reach(wire, fed, n) /\ fed < Len(wire)
      /\ hostBuf' = hostBuf \o SubSeq(wire, fed + 1, g) /\ reading' = TRUE /\ heard' = heard
      /\ UNCHANGED <<wire, said, spans, rubbish>>
  BY Zenon DEF HostReads, HostFeed
<1>3. g \in Nat /\ fed <= g /\ g <= Len(wire)
  <2>1. Reach(wire, fed, n) \in Nat /\ fed <= Reach(wire, fed, n) /\ Reach(wire, fed, n) <= Len(wire)
    <3>1. CASE fed + n < Len(wire)
      BY <1>1, <3>1 DEF Reach
    <3>2. CASE ~(fed + n < Len(wire))
      BY <1>1, <3>2 DEF Reach
    <3> QED
      BY <3>1, <3>2
  <2> QED
    BY <1>2, <2>1, Zenon
<1> HIDE DEF p, g
<1>4. o \in Nat \ {0} /\ o <= fed + 1 /\ o <= g + 1 /\ g - o + 1 = g - p
  BY <1>1, <1>3
<1> HIDE DEF o
<1>5. hostBuf' = SubSeq(wire, o, g)
  <2>1. SubSeq(wire, o, fed) \o SubSeq(wire, fed + 1, g) = SubSeq(wire, o, g)
    BY <1>1, <1>3, <1>4, StretchJoins
  <2> QED
    BY <1>1, <1>2, <2>1, Zenon DEF o
<1>6. Len(hostBuf') = g - p
  <2>1. Len(SubSeq(wire, o, g)) = g - o + 1
    BY <1>1, <1>3, <1>4, Stretch
  <2> QED
    BY <1>4, <1>5, <2>1, Zenon
<1>7. HostAt' = p
  <2>1. HostAt' = fed' - Len(hostBuf')
    BY DEF HostAt
  <2>2. g - (g - p) = p
    BY <1>1, <1>3
  <2> QED
    BY <1>6, <2>1, <2>2, Zenon DEF g
<1>8. Bearing(heard, HostAt)'
  <2>1. Bearing(heard', HostAt')
    BY <1>1, <1>2, <1>7, Zenon
  <2> QED
    BY <1>2, <2>1, BearingStays
<1>9. fed' \in 0 .. Len(wire') /\ HostAt' \in 0 .. fed' /\ hostBuf' = SubSeq(wire', HostAt' + 1, fed')
  <2>1. wire' = wire /\ g \in 0 .. Len(wire) /\ p \in 0 .. g
    BY <1>1, <1>2, <1>3
  <2> QED
    BY <1>5, <1>7, <2>1, Zenon DEF g, o
<1>10. reading' \in BOOLEAN /\ reading' /\ heard' \in Seq(Message)
  BY <1>1, <1>2
<1> QED
  BY <1>8, <1>9, <1>10, Zenon DEF HeardSoFar

\* What is left of a stretch whose first n bytes are consumed.
LEMMA Consumed ==
  ASSUME Talk, NEW f \in 0 .. Len(wire), NEW p \in 0 .. f, NEW n \in 0 .. f - p
  PROVE  Drop(SubSeq(wire, p + 1, f), n) = SubSeq(wire, p + n + 1, f)
<1> DEFINE i == p + 1
<1>1. wire \in Seq(Byte) /\ Len(wire) \in Nat
  BY TalkNumbers
<1>2. i \in Nat \ {0} /\ f \in Nat /\ i <= f + 1 /\ f <= Len(wire) /\ n \in 0 .. f - i + 1
      /\ i + n = p + n + 1
  BY <1>1
<1> HIDE DEF i
<1>3. Drop(SubSeq(wire, i, f), n) = SubSeq(wire, i + n, f)
  BY <1>1, <1>2, CutStretch
<1> QED
  BY <1>2, <1>3 DEF i

\* A round of the host's loop.
LEMMA RoundKeepsHearing ==
  ASSUME Talk, HeardSoFar, reading, UNCHANGED <<wire, fed, said, spans, rubbish>>,
         NEW k \in 0 .. Len(hostBuf), SyncAfter(k, hostBuf), HostRound(Drop(hostBuf, k))
  PROVE  HeardSoFar'
<1> DEFINE a == HostAt
           p == a + k
           b == SubSeq(wire, p + 1, fed)
<1>1. /\ wire \in Seq(Byte) /\ Len(wire) \in Nat /\ fed \in Nat /\ fed <= Len(wire)
      /\ a \in Nat /\ a <= fed /\ hostBuf = SubSeq(wire, a + 1, fed) /\ Ahead(hostBuf, a, fed)
      /\ hostBuf \in Seq(Byte) /\ Len(hostBuf) = fed - a
      /\ heard \in Seq(Message) /\ Bearing(heard, a)
  BY HostNumbers
<1> HIDE DEF a
<1>2. /\ p \in Nat /\ a <= p /\ p < fed /\ p \in 0 .. fed /\ fed \in 0 .. Len(wire)
      /\ a \in 0 .. fed /\ k \in 0 .. fed - a /\ p \in a .. Len(wire)
  BY <1>1 DEF SyncAfter
<1>3. Drop(hostBuf, k) = b
  BY <1>1, <1>2, Consumed
<1> HIDE DEF p
<1>4. Ahead(b, p, fed)
  BY <1>2, StretchIsAhead
<1>5. \A i \in a + 1 .. p : wire[i] # CMD
  <2> SUFFICES ASSUME NEW i \in a + 1 .. p PROVE wire[i] # CMD
    OBVIOUS
  <2> DEFINE x == i - a
  <2>1. x \in 1 .. k /\ x \in 1 .. fed - a /\ a + x = i
    BY <1>1, <1>2 DEF p
  <2> HIDE DEF x
  <2>2. hostBuf[x] # CMD
    BY <2>1 DEF SyncAfter
  <2>3. hostBuf[x] = wire[a + x]
    BY <1>1, <2>1, Zenon DEF Ahead
  <2> QED
    BY <2>1, <2>2, <2>3
<1>6. Bearing(heard, p)
  BY <1>1, <1>2, <1>5, SkipKeepsBearing
<1> HIDE DEF b
<1>7. b \in Seq(Byte) /\ Len(b) = fed - p
  BY <1>4, Zenon DEF Ahead
<1>8. b[1] = CMD
  <2>1. 1 \in 1 .. fed - p /\ k + 1 \in 1 .. fed - a /\ a + (k + 1) = p + 1
    BY <1>1, <1>2 DEF p
  <2>2. b[1] = wire[p + 1]
    BY <1>4, <2>1, Zenon DEF Ahead
  <2>3. hostBuf[k + 1] = CMD
    BY DEF SyncAfter
  <2>4. hostBuf[k + 1] = wire[a + (k + 1)]
    BY <1>1, <2>1, Zenon DEF Ahead
  <2> QED
    BY <2>1, <2>2, <2>3, <2>4, Zenon
<1>9. ASSUME ~Incomplete(b), NEW n \in 0 .. Len(b), hostBuf' = Drop(b, n), reading' = reading,
             heard' \in Seq(Message), Bearing(heard', p + n)
      PROVE  HeardSoFar'
  <2> DEFINE q == p + n
  <2>1. q \in 0 .. fed /\ n \in 0 .. fed - p
    BY <1>1, <1>2, <1>7
  <2>2. Drop(b, n) = SubSeq(wire, q + 1, fed)
    BY <1>2, <2>1, Consumed DEF b
  <2> HIDE DEF q
  <2>3. Bearing(heard', q)
    BY <1>9 DEF q
  <2>4. Landing(q)
    BY <1>9, <2>2, <2>3, Zenon DEF Landing
  <2> QED
    BY <2>1, <2>4, LandingHolds
<1>10. ASSUME ~Incomplete(b), Known(b), heard' = Append(heard, Taken(b)),
              hostBuf' = Drop(b, TakenLen(b)), reading' = reading
       PROVE  HeardSoFar'
  <2>1. TakenLen(b) \in 0 .. Len(b) /\ Taken(b) \in Message
    <3>1. TakenLen(b) \in 1 .. Len(b) /\ Taken(b) \in Message
      BY <1>7, <1>10, TakenBounds
    <3>2. \A x \in 1 .. Len(b) : x \in 0 .. Len(b)
      OBVIOUS
    <3> QED
      BY <3>1, <3>2
  <2>2. heard' \in Seq(Message)
    BY <1>1, <1>10, <2>1, AppendProperties
  <2>3. Bearing(heard', p + TakenLen(b))
    <3>1. Bearing(Append(heard, Taken(b)), p + TakenLen(b))
      BY <1>1, <1>2, <1>4, <1>6, <1>8, <1>10, TakeKeepsBearing
    <3> QED
      BY <1>10, <3>1, Zenon
  <2> QED
    BY <1>9, <1>10, <2>1, <2>2, <2>3
<1>11. HostTakeFrame(b) \/ HostTakeReply(b) \/ HostDropSync(b) \/ HostWait(b)
  BY <1>3, Zenon DEF HostRound
<1>12. CASE HostTakeFrame(b)
  <2>1. ~Incomplete(b) /\ b[2] = OP_FRAME /\ hostBuf' = Drop(b, FrameLen(b)) /\ reading' = reading
        /\ heard' = Append(heard, FrameMessage(b, FrameLen(b) - FRAME_HEADER))
    BY <1>12, Zenon DEF HostTakeFrame, IsFrame
  <2>2. Known(b) /\ TakenLen(b) = FrameLen(b)
        /\ Taken(b) = FrameMessage(b, FrameLen(b) - FRAME_HEADER)
    BY <2>1, Zenon DEF Known, TakenLen, Taken
  <2> QED
    BY <1>10, <2>1, <2>2, Zenon
<1>13. CASE HostTakeReply(b)
  <2>1. ~Incomplete(b) /\ b[2] \in Requests /\ hostBuf' = Drop(b, ReplyLen(b[2]))
        /\ reading' = reading /\ heard' = Append(heard, ReplyMessage(b))
    BY <1>13, Zenon DEF HostTakeReply, IsReply
  <2>2. Known(b) /\ TakenLen(b) = ReplyLen(b[2]) /\ Taken(b) = ReplyMessage(b)
    BY <2>1, FrameIsNoRequest, Zenon DEF Known, TakenLen, Taken
  <2> QED
    BY <1>10, <2>1, <2>2, Zenon
<1>14. CASE HostDropSync(b)
  <2>1. ~Incomplete(b) /\ ~IsFrame(b) /\ ~IsReply(b) /\ hostBuf' = Drop(b, 1)
        /\ reading' = reading /\ heard' = heard
    BY <1>14, Zenon DEF HostDropSync
  <2>2. ~(Len(b) < 2)
    BY <2>1, Zenon DEF Incomplete
  <2>3. ~Known(b)
    <3>1. Len(b) >= 2
      BY <1>2, <1>7, <2>2
    <3> QED
      BY <2>1, <3>1, Zenon DEF Known, IsFrame, IsReply
  <2> DEFINE n == 1
  <2>4. n \in 0 .. Len(b)
    BY <1>1, <1>2, <1>7
  <2>5. Bearing(heard, p + n)
    BY <1>1, <1>2, <1>4, <1>6, <1>8, <2>1, <2>3, DropKeepsBearing
  <2> HIDE DEF n
  <2>6. Bearing(heard', p + n) /\ heard' \in Seq(Message)
    BY <1>1, <2>1, <2>5, Zenon
  <2>7. hostBuf' = Drop(b, n)
    BY <2>1 DEF n
  <2> QED
    BY <1>9, <2>1, <2>4, <2>6, <2>7
<1>15. CASE HostWait(b)
  <2>1. Incomplete(b) /\ hostBuf' = b /\ reading' = FALSE /\ heard' = heard
    BY <1>15, Zenon DEF HostWait
  <2>2. FalseHeads = {} =>
          \A l \in 1 .. Len(said) : spans[l].last <= fed => spans[l].last <= p
    <3> SUFFICES ASSUME FalseHeads = {}, NEW l \in 1 .. Len(said), spans[l].last <= fed
                 PROVE  spans[l].last <= p
      OBVIOUS
    <3>1. p <= fed
      BY <1>2
    <3>2. \E c : Ahead(c, p, fed) /\ p < fed /\ c[1] = CMD /\ Incomplete(c)
      BY <1>2, <1>4, <1>8, <2>1
    <3> QED
      BY <1>1, <1>2, <1>6, <3>1, <3>2, WaitHasNone
  <2>3. Landing(p)
    <3>1. reading' \in BOOLEAN /\ heard' \in Seq(Message) /\ Bearing(heard', p)
      BY <1>1, <1>6, <2>1
    <3> QED
      BY <2>1, <2>2, <3>1, Zenon DEF Landing, b
  <2> QED
    BY <1>2, <2>3, LandingHolds
<1> QED
  BY <1>11, <1>12, <1>13, <1>14, <1>15

\* The loop's last round, with no sync byte left.
LEMMA RestKeepsHearing ==
  ASSUME Talk, HeardSoFar, HostWaitForSync, UNCHANGED <<wire, fed, said, spans, rubbish>>
  PROVE  HeardSoFar'
<1> DEFINE a == HostAt
<1>1. /\ wire \in Seq(Byte) /\ Len(wire) \in Nat /\ fed \in Nat /\ fed <= Len(wire)
      /\ a \in Nat /\ a <= fed /\ hostBuf = SubSeq(wire, a + 1, fed) /\ Ahead(hostBuf, a, fed)
      /\ hostBuf \in Seq(Byte) /\ Len(hostBuf) = fed - a
      /\ heard \in Seq(Message) /\ Bearing(heard, a)
  BY HostNumbers
<1> HIDE DEF a
<1>2. /\ \A i \in 1 .. Len(hostBuf) : hostBuf[i] # CMD
      /\ hostBuf' = (IF Len(hostBuf) > MAX_RESYNC_BYTES THEN <<>> ELSE hostBuf)
      /\ reading' = FALSE /\ heard' = heard
  BY Zenon DEF HostWaitForSync
<1>3. \A i \in a + 1 .. fed : wire[i] # CMD
  <2> SUFFICES ASSUME NEW i \in a + 1 .. fed PROVE wire[i] # CMD
    OBVIOUS
  <2> DEFINE x == i - a
  <2>1. x \in 1 .. Len(hostBuf) /\ x \in 1 .. fed - a /\ a + x = i
    BY <1>1
  <2> HIDE DEF x
  <2>2. hostBuf[x] = wire[a + x]
    BY <1>1, <2>1, Zenon DEF Ahead
  <2> QED
    BY <1>2, <2>1, <2>2
<1>4. FalseHeads = {} =>
        \A l \in 1 .. Len(said) : spans[l].last <= fed => spans[l].last <= a
  <2> SUFFICES ASSUME FalseHeads = {}, NEW l \in 1 .. Len(said), spans[l].last <= fed
               PROVE  spans[l].last <= a
    OBVIOUS
  <2> QED
    BY <1>1, <1>3, WaitHasNone
<1>5. reading' \in BOOLEAN /\ heard' \in Seq(Message) /\ a \in 0 .. fed /\ fed \in 0 .. fed
  <2>1. a \in 0 .. fed /\ fed \in 0 .. fed
    BY <1>1
  <2>2. reading' \in BOOLEAN
    BY <1>2, Zenon
  <2>3. heard' \in Seq(Message)
    BY <1>1, <1>2, Zenon
  <2> QED
    BY <2>1, <2>2, <2>3
<1>6. CASE ~(Len(hostBuf) > MAX_RESYNC_BYTES)
  <2>1. hostBuf' = SubSeq(wire, a + 1, fed) /\ Bearing(heard', a)
    BY <1>1, <1>2, <1>6, Zenon
  <2>2. Landing(a)
    BY <1>4, <1>5, <2>1, Zenon DEF Landing
  <2> QED
    BY <1>5, <2>2, LandingHolds
<1>7. CASE Len(hostBuf) > MAX_RESYNC_BYTES
  <2>1. fed \in a .. Len(wire)
    BY <1>1
  <2>2. Bearing(heard, fed)
    BY <1>1, <1>3, <2>1, SkipKeepsBearing
  <2>3. hostBuf' = SubSeq(wire, fed + 1, fed)
    <3>1. Ahead(SubSeq(wire, fed + 1, fed), fed, fed)
      <4>1. fed \in 0 .. Len(wire)
        BY <1>1
      <4> QED
        BY <1>5, <4>1, StretchIsAhead
    <3>2. /\ SubSeq(wire, fed + 1, fed) \in Seq(Byte)
          /\ Len(SubSeq(wire, fed + 1, fed)) = fed - fed
      BY <3>1, Zenon DEF Ahead
    <3>3. fed - fed = 0
      BY <1>1
    <3>4. SubSeq(wire, fed + 1, fed) = <<>>
      BY <3>2, <3>3, EmptySeq
    <3> QED
      BY <1>2, <1>7, <3>4, Zenon
  <2>4. FalseHeads = {} =>
          \A l \in 1 .. Len(said) : spans[l].last <= fed => spans[l].last <= fed
    OBVIOUS
  <2>5. Landing(fed)
    BY <1>2, <1>5, <2>2, <2>3, <2>4, Zenon DEF Landing
  <2> QED
    BY <1>5, <2>5, LandingHolds
<1> QED
  BY <1>6, <1>7

-----------------------------------------------------------------------------
(* The device says one message more.                                       *)

\* A step in which the device says m as these bytes, with a checksum or none.
Says(m, bytes, rest) ==
  /\ wire' = wire \o (bytes \o rest)
  /\ said' = Append(said, m)
  /\ spans' = Append(spans, Behind(wire, Len(bytes)))
  /\ UNCHANGED <<hostVars, fed, rubbish>>

\* What a step of saying leaves alone.
LEMMA SaysGrows ==
  ASSUME Talk, NEW m \in Message, NEW bytes \in Seq(Byte), Reads(bytes, m),
         NEW rest \in Seq(Byte), \A i \in 1 .. Len(rest) : rest[i] # CMD, Says(m, bytes, rest)
  PROVE  /\ Talk' /\ Len(said') = Len(said) + 1 /\ Len(spans') = Len(said) + 1
         /\ Len(wire') \in Nat /\ Len(wire) <= Len(wire')
         /\ spans'[Len(said) + 1].first = Len(wire) + 1
         /\ Len(wire) < spans'[Len(said) + 1].last
         /\ \A k \in 1 .. Len(said) : spans'[k] = spans[k] /\ said'[k] = said[k]
         /\ \A i \in Nat \ {0}, j \in Nat :
              i <= j + 1 /\ j <= Len(wire) => SubSeq(wire', i, j) = SubSeq(wire, i, j)
<1> DEFINE R == Len(rubbish)
           M == Len(said)
           N == Len(wire)
           mark == Behind(wire, Len(bytes))
           tail == bytes \o rest
<1>1. /\ wire \in Seq(Byte) /\ N \in Nat /\ R \in Nat /\ R <= N /\ M \in Nat /\ Len(spans) = M
      /\ \A k \in 1 .. M : spans[k].first \in Nat /\ spans[k].last \in Nat
  BY TalkNumbers
<1>2. /\ wire' = wire \o tail /\ said' = Append(said, m) /\ spans' = Append(spans, mark)
      /\ rubbish' = rubbish
  BY Zenon DEF Says
<1>3. Len(bytes) \in Nat /\ Len(bytes) >= 2 /\ bytes[1] = CMD /\ Len(rest) \in Nat
  <2>1. Len(bytes) >= 2 /\ bytes[1] = CMD
    BY Zenon DEF Reads
  <2> QED
    BY <2>1, LenProperties
<1>4. mark.first = N + 1 /\ mark.last = N + Len(bytes)
  BY DEF Behind
<1> HIDE DEF mark
<1>5. Laid(wire, R, spans)
  BY Zenon DEF Talk
<1> HIDE DEF R, N
<1>6. /\ Laid(wire', R, spans') /\ Len(spans') = Len(spans) + 1
      /\ spans'[Len(spans) + 1] = mark /\ SubSeq(wire', mark.first, mark.last) = bytes
      /\ \A k \in 1 .. Len(spans) :
           /\ spans'[k] = spans[k]
           /\ SubSeq(wire', spans[k].first, spans[k].last)
                = SubSeq(wire, spans[k].first, spans[k].last)
  <2>1. Grown(wire, R, spans, wire \o (bytes \o rest), Append(spans, Behind(wire, Len(bytes))),
              Behind(wire, Len(bytes)), bytes)
    BY <1>3, <1>5, LineGrows
  <2>2. Grown(wire, R, spans, wire', spans', mark, bytes)
    BY <1>2, <2>1, Zenon DEF mark
  <2> QED
    BY <2>2, Zenon DEF Grown
<1>7. tail \in Seq(Byte)
  BY Joined
<1> HIDE DEF tail
<1>8. /\ wire' \in Seq(Byte) /\ Len(wire') = N + Len(tail) /\ Len(tail) \in Nat
      /\ \A i \in 1 .. N : wire'[i] = wire[i]
      /\ \A i \in Nat \ {0}, j \in Nat :
           i <= j + 1 /\ j <= N => SubSeq(wire', i, j) = SubSeq(wire, i, j)
  <2>1. /\ wire \o tail \in Seq(Byte) /\ Len(wire \o tail) = Len(wire) + Len(tail)
        /\ \A i \in 1 .. Len(wire) : (wire \o tail)[i] = wire[i]
        /\ \A i \in Nat \ {0}, j \in Nat :
             i <= j + 1 /\ j <= Len(wire) => SubSeq(wire \o tail, i, j) = SubSeq(wire, i, j)
    BY <1>1, <1>7, StretchGrows
  <2>2. Len(tail) \in Nat
    BY <1>7, LenProperties
  <2> QED
    BY <1>2, <2>1, <2>2, Zenon DEF N
<1>9. /\ said' \in Seq(Message) /\ Len(said') = M + 1 /\ said'[M + 1] = m
      /\ \A k \in 1 .. M : said'[k] = said[k]
  <2>1. said \in Seq(Message)
    BY Zenon DEF Talk
  <2> QED
    BY <1>2, <2>1, AppendProperties
<1>10. Len(wire') \in Nat /\ N <= Len(wire') /\ Len(spans') = M + 1
       /\ spans'[M + 1].first = N + 1 /\ N < spans'[M + 1].last
  <2>1. Len(spans') = M + 1 /\ spans'[M + 1] = mark
    BY <1>1, <1>6, Zenon
  <2>2. N \in Nat
    BY <1>1 DEF N
  <2>3. Len(wire') \in Nat /\ N <= Len(wire')
    BY <1>8, <2>2
  <2>4. N < mark.last
    BY <1>3, <1>4, <2>2
  <2> QED
    BY <1>4, <2>1, <2>3, <2>4
<1> HIDE DEF M
<1>11. ASSUME NEW k \in 1 .. M + 1
       PROVE  Reads(SubSeq(wire', spans'[k].first, spans'[k].last), said'[k])
  <2>1. CASE k \in 1 .. M
    <3>1. Reads(SubSeq(wire, spans[k].first, spans[k].last), said[k])
      BY <2>1, Zenon DEF Talk, M
    <3>2. /\ spans'[k] = spans[k] /\ said'[k] = said[k]
          /\ SubSeq(wire', spans[k].first, spans[k].last)
               = SubSeq(wire, spans[k].first, spans[k].last)
      BY <1>1, <1>6, <1>9, <2>1, Zenon
    <3> QED
      BY <3>1, <3>2, Zenon
  <2>2. CASE k = M + 1
    <3>1. spans'[k] = mark /\ said'[k] = m
      BY <1>1, <1>6, <1>9, <2>2, Zenon
    <3> QED
      BY <1>6, <3>1, Zenon
  <2>3. k \in 1 .. M \/ k = M + 1
    BY <1>1
  <2> QED
    BY <2>1, <2>2, <2>3
<1>12. spans'[1].first = R + 1
  <2>1. CASE M = 0
    <3>1. N = R
      BY <2>1, Zenon DEF Talk, M, N, R
    <3>2. M + 1 = 1
      BY <2>1
    <3> QED
      BY <1>10, <3>1, <3>2, Zenon
  <2>2. CASE M # 0
    <3>1. M > 0 /\ 1 \in 1 .. M
      BY <1>1, <2>2
    <3>2. spans[1].first = R + 1
      BY <3>1, Zenon DEF Talk, M, R
    <3>3. spans'[1] = spans[1]
      BY <1>1, <1>6, <3>1, Zenon
    <3> QED
      BY <3>2, <3>3
  <2> QED
    BY <2>1, <2>2
<1>13. Talk'
  <2>1. \A i \in 1 .. R : wire'[i] = rubbish[i]
    <3>1. \A i \in 1 .. R : i \in 1 .. N
      BY <1>1 DEF N
    <3>2. \A i \in 1 .. R : wire[i] = rubbish[i]
      BY Zenon DEF Talk, R
    <3> QED
      BY <1>8, <3>1, <3>2, Zenon
  <2>2. rubbish' \in Seq(Byte) /\ Len(rubbish') = R
    BY <1>2, Zenon DEF Talk, R
  <2>3. Len(said') # 0 /\ Len(spans') = Len(said')
    BY <1>1, <1>9, <1>10
  <2>4. \A k \in 1 .. Len(said') : Reads(SubSeq(wire', spans'[k].first, spans'[k].last), said'[k])
    BY <1>9, <1>11, Zenon
  <2>5. Laid(wire', Len(rubbish'), spans')
    BY <1>6, <2>2, Zenon
  <2>6. \A i \in 1 .. Len(rubbish') : wire'[i] = rubbish'[i]
    BY <1>2, <2>1, Zenon DEF R
  <2>7. spans'[1].first = Len(rubbish') + 1
    BY <1>12, <2>2, Zenon
  <2> QED
    BY <1>9, <2>2, <2>3, <2>4, <2>5, <2>6, <2>7, Zenon DEF Talk
<1>14. \A k \in 1 .. M : spans'[k] = spans[k] /\ said'[k] = said[k]
  BY <1>1, <1>6, <1>9, Zenon
<1> QED
  BY <1>8, <1>9, <1>10, <1>13, <1>14, Zenon DEF M, N

\* What has been said more lies beyond what the host has read.
LEMMA SaysKeepsHearing ==
  ASSUME Talk, HeardSoFar, NEW m \in Message, NEW bytes \in Seq(Byte), Reads(bytes, m),
         NEW rest \in Seq(Byte), \A i \in 1 .. Len(rest) : rest[i] # CMD, Says(m, bytes, rest)
  PROVE  Talk' /\ HeardSoFar'
<1> DEFINE p == HostAt
           M == Len(said)
           N == Len(wire)
<1>1. /\ N \in Nat /\ fed \in Nat /\ fed <= N /\ p \in Nat /\ p <= fed
      /\ hostBuf = SubSeq(wire, p + 1, fed) /\ heard \in Seq(Message) /\ Bearing(heard, p)
  BY HostNumbers
<1>2. /\ Talk' /\ Len(said') = M + 1 /\ Len(spans') = M + 1
      /\ Len(wire') \in Nat /\ N <= Len(wire')
      /\ spans'[M + 1].first = N + 1 /\ N < spans'[M + 1].last
      /\ \A k \in 1 .. M : spans'[k] = spans[k] /\ said'[k] = said[k]
      /\ \A i \in Nat \ {0}, j \in Nat :
           i <= j + 1 /\ j <= N => SubSeq(wire', i, j) = SubSeq(wire, i, j)
  BY SaysGrows
<1>3. M \in Nat /\ Len(spans) = M /\ \A k \in 1 .. M : spans[k].first \in Nat /\ spans[k].last \in Nat
  BY TalkNumbers
<1>4. /\ hostBuf' = hostBuf /\ reading' = reading /\ heard' = heard /\ fed' = fed
      /\ rubbish' = rubbish /\ HostAt' = p
  BY Zenon DEF Says, hostVars, HostAt
<1> HIDE DEF p
<1>5. FalseHeads' = FalseHeads /\ \A i : Claimed(i)' = Claimed(i)
  BY <1>4, Zenon DEF FalseHeads, Claimed
<1> HIDE DEF M, N
<1>6. hostBuf' = SubSeq(wire', HostAt' + 1, fed')
  <2> DEFINE o == p + 1
  <2>1. o \in Nat \ {0} /\ o <= fed + 1
    BY <1>1
  <2> HIDE DEF o
  <2>2. SubSeq(wire', o, fed) = SubSeq(wire, o, fed)
    BY <1>1, <1>2, <2>1
  <2> QED
    BY <1>1, <1>4, <2>2, Zenon DEF o
<1>7. p <= N
  BY <1>1
<1>8. InRubbish(heard, p) => InRubbish(heard, HostAt)'
  BY <1>4, <1>5, Zenon DEF InRubbish
<1>9. ASSUME InStep(heard, p) PROVE InStep(heard, HostAt)'
  <2>1. PICK n \in 0 .. M : InStepAt(heard, p, n)
    BY <1>9 DEF InStep, M
  <2>2. n \in 0 .. Len(said') /\ n \in 0 .. M + 1 /\ \A k \in 1 .. n : k \in 1 .. M
    BY <1>2, <1>3
  <2>3. Between(spans', n, p)
    <3>1. Between(spans, n, p)
      BY <2>1 DEF InStepAt
    <3>2. \A k \in 1 .. n : spans'[k].last <= p
      BY <1>2, <2>2, <3>1, Zenon DEF Between
    <3>3. ASSUME NEW k \in n + 1 .. Len(spans') PROVE p < spans'[k].first
      <4>1. CASE k = M + 1
        <5>1. p < N + 1
          BY <1>1, <1>7
        <5> QED
          BY <1>2, <4>1, <5>1, Zenon
      <4>2. CASE k # M + 1
        <5>1. k \in n + 1 .. Len(spans) /\ k \in 1 .. M
          BY <1>2, <1>3, <4>2
        <5>2. p < spans[k].first
          BY <3>1, <5>1 DEF Between
        <5> QED
          BY <1>2, <5>1, <5>2, Zenon
      <4> QED
        BY <4>1, <4>2
    <3> QED
      BY <3>2, <3>3, Zenon DEF Between
  <2>4. ASSUME FalseHeads' = {} PROVE Follows(heard, n)'
    <3>1. Follows(heard, n)
      BY <1>5, <2>1, <2>4, Zenon DEF InStepAt
    <3> QED
      BY <1>2, <1>4, <2>2, <3>1, Zenon DEF Follows
  <2>5. ASSUME NEW first \in 1 .. n, \A i \in FalseHeads' : Claimed(i)' < spans'[first].first
        PROVE  Ends(heard, first, n)'
    <3>1. first \in 1 .. M /\ spans'[first] = spans[first]
      BY <1>2, <2>2
    <3>2. \A i \in FalseHeads : Claimed(i) < spans[first].first
      BY <1>5, <2>5, <3>1, Zenon
    <3>3. Ends(heard, first, n)
      BY <2>1, <3>2, Zenon DEF InStepAt
    <3>4. \A k \in first .. n : k \in 1 .. M
      BY <1>3
    <3> QED
      BY <1>2, <1>4, <3>3, <3>4, Zenon DEF Ends
  <2>6. InStepAt(heard, HostAt, n)'
    BY <1>4, <2>3, <2>4, <2>5, Zenon DEF InStepAt
  <2>7. Len(rubbish') <= HostAt'
    BY <1>4, <1>9, Zenon DEF InStep
  <2> QED
    BY <2>2, <2>6, <2>7, Zenon DEF InStep
<1>10. ASSUME Inside(p) PROVE Inside(HostAt)'
  <2>1. PICK n \in 1 .. M : /\ spans[n].first <= p /\ p < spans[n].last
                            /\ \E i \in FalseHeads : spans[n].first <= Claimed(i)
    BY <1>10 DEF Inside, M
  <2>2. PICK i \in FalseHeads : spans[n].first <= Claimed(i)
    BY <2>1
  <2>3. n \in 1 .. Len(said')
    BY <1>2, <1>3
  <2>4. /\ spans'[n].first <= HostAt' /\ HostAt' < spans'[n].last
        /\ i \in FalseHeads' /\ spans'[n].first <= Claimed(i)'
    BY <1>2, <1>4, <1>5, <2>1, <2>2, Zenon
  <2> QED
    BY <2>3, <2>4, Zenon DEF Inside
<1>11. ASSUME Astray(p) PROVE Astray(HostAt)'
  <2>1. PICK k \in 1 .. M : spans[k].last <= p /\ ~Plain(said[k])
    BY <1>11 DEF Astray, M
  <2>2. k \in 1 .. Len(said')
    BY <1>2, <1>3
  <2>3. spans'[k].last <= HostAt' /\ ~Plain(said'[k])
    BY <1>2, <1>4, <2>1, Zenon
  <2>4. FalseHeads' # {}
    BY <1>5, <1>11, Zenon DEF Astray
  <2> QED
    BY <2>2, <2>3, <2>4, Zenon DEF Astray
<1>12. Bearing(heard, HostAt)'
  BY <1>1, <1>8, <1>9, <1>10, <1>11, Zenon DEF Bearing
<1>13. ~reading' /\ FalseHeads' = {} =>
         \A k \in 1 .. Len(said') : spans'[k].last <= fed' => spans'[k].last <= HostAt'
  <2> SUFFICES ASSUME ~reading', FalseHeads' = {}, NEW k \in 1 .. Len(said'), spans'[k].last <= fed'
               PROVE  spans'[k].last <= HostAt'
    BY Zenon
  <2>1. CASE k = M + 1
    <3>1. N < spans'[k].last /\ spans'[k].last <= fed
      BY <1>2, <1>4, <2>1, Zenon
    <3>2. Laid(wire', Len(rubbish'), spans') /\ k \in 1 .. Len(spans')
      BY <1>2, Zenon DEF Talk
    <3>3. spans'[k].last \in Nat
      BY <3>2, LaidNumbers
    <3> QED
      BY <1>1, <3>1, <3>3
  <2>2. CASE k # M + 1
    <3>1. k \in 1 .. M
      BY <1>2, <1>3, <2>2
    <3>2. spans'[k] = spans[k] /\ spans[k].last <= fed
      BY <1>2, <1>4, <3>1, Zenon
    <3>3. spans[k].last <= p
      BY <1>4, <1>5, <3>1, <3>2, Zenon DEF HeardSoFar, M, p
    <3> QED
      BY <1>4, <3>2, <3>3
  <2> QED
    BY <2>1, <2>2
<1>14. fed' \in 0 .. Len(wire') /\ HostAt' \in 0 .. fed' /\ reading' \in BOOLEAN /\ heard' \in Seq(Message)
  <2>1. fed \in 0 .. Len(wire') /\ p \in 0 .. fed
    BY <1>1, <1>2
  <2>2. reading \in BOOLEAN
    BY Zenon DEF HeardSoFar
  <2> QED
    BY <1>1, <1>4, <2>1, <2>2, Zenon
<1> QED
  BY <1>2, <1>6, <1>12, <1>13, <1>14, Zenon DEF HeardSoFar

LEMMA WholeStretch ==
  ASSUME NEW s \in Seq(Byte)
  PROVE  SubSeq(s, 1, Len(s)) = s
<1> DEFINE n == Len(s)
           d == SubSeq(s, 1, n)
<1>1. n \in Nat /\ 1 \in Nat \ {0} /\ 1 <= n + 1 /\ n <= Len(s) /\ n - 1 + 1 = n
      /\ \A i \in 1 .. n : 1 + i - 1 = i
  BY LenProperties
<1> HIDE DEF n
<1>2. d \in Seq(Byte) /\ Len(d) = n - 1 + 1 /\ \A i \in 1 .. n - 1 + 1 : d[i] = s[1 + i - 1]
  BY <1>1, Stretch
<1> HIDE DEF d
<1>3. Len(d) = n /\ \A i \in 1 .. Len(d) : d[i] = s[i]
  BY <1>1, <1>2
<1>4. d = s
  BY <1>2, <1>3, SeqEqual DEF n
<1> QED
  BY <1>4 DEF d, n

\* What stands behind what.
LEMMA BackPart ==
  ASSUME NEW s \in Seq(Byte), NEW t \in Seq(Byte)
  PROVE  SubSeq(s \o t, Len(s) + 1, Len(s) + Len(t)) = t
<1> DEFINE n == Len(t)
<1>1. n \in 0 .. Len(t)
  BY LenProperties
<1> HIDE DEF n
<1>2. SubSeq(s \o t, Len(s) + 1, Len(s) + n) = SubSeq(t, 1, n)
  BY <1>1, StretchGrows
<1> QED
  BY <1>2, WholeStretch, Zenon DEF n

\* A reply is as long as the host takes it to be.
LEMMA AnswerBytes ==
  ASSUME NEW op \in Requests
  PROVE  Answer(op) \in Seq(Byte) /\ 2 + Len(Answer(op)) = ReplyLen(op)
<1>1. /\ OP_TIMEBASE # OP_CANBUS_PARAMS /\ OP_TIMEBASE # OP_DEV_INFO
      /\ OP_TIMEBASE # OP_KEEPALIVE /\ OP_TIMEBASE # OP_NUM_BUSES
      /\ OP_CANBUS_PARAMS # OP_DEV_INFO /\ OP_CANBUS_PARAMS # OP_KEEPALIVE
      /\ OP_CANBUS_PARAMS # OP_NUM_BUSES /\ OP_DEV_INFO # OP_KEEPALIVE
      /\ OP_DEV_INFO # OP_NUM_BUSES /\ OP_KEEPALIVE # OP_NUM_BUSES
  BY DEF OP_TIMEBASE, OP_CANBUS_PARAMS, OP_DEV_INFO, OP_KEEPALIVE, OP_NUM_BUSES
<1>2. CASE op = OP_TIMEBASE
  <2>1. Answer(op) = <<CMD, 0, 0, 1>> /\ ReplyLen(op) = 6
    BY <1>2, <1>1, Zenon DEF Answer, ReplyLen
  <2> QED
    BY <2>1 DEF CMD, Byte
<1>3. CASE op = OP_CANBUS_PARAMS
  <2>1. Answer(op) = <<1, 32, 161, 7, 0, 0, 0, 0, 0, 0>> /\ ReplyLen(op) = 12
    BY <1>3, <1>1, Zenon DEF Answer, ReplyLen
  <2> QED
    BY <2>1 DEF Byte
<1>4. CASE op = OP_DEV_INFO
  <2>1. Answer(op) = <<144, 1, 1, 0, 0, 0>> /\ ReplyLen(op) = 8
    BY <1>4, <1>1, Zenon DEF Answer, ReplyLen
  <2> QED
    BY <2>1 DEF Byte
<1>5. CASE op = OP_KEEPALIVE
  <2>1. Answer(op) = <<222, 173>> /\ ReplyLen(op) = 4
    BY <1>5, <1>1, Zenon DEF Answer, ReplyLen
  <2> QED
    BY <2>1 DEF Byte
<1>6. CASE op = OP_NUM_BUSES
  <2>1. Answer(op) = << 2 >> /\ ReplyLen(op) = 3
    BY <1>6, <1>1, Zenon DEF Answer, ReplyLen
  <2> QED
    BY <2>1 DEF Byte
<1> QED
  BY <1>2, <1>3, <1>4, <1>5, <1>6 DEF Requests

\* A host that reads what is sent of a reply has that reply.
LEMMA ReplyReads ==
  ASSUME NEW op \in Requests
  PROVE  LET e == EncodeReply(op, Answer(op))
             m == [op |-> op, body |-> Answer(op)]
         IN  e \in Seq(Byte) /\ Reads(e, m) /\ m \in Message
<1> DEFINE body == Answer(op)
           head == <<CMD, op>>
           e == EncodeReply(op, Answer(op))
           m == [op |-> op, body |-> Answer(op)]
           n == Len(body)
<1>1. body \in Seq(Byte) /\ n \in Nat /\ 2 + n = ReplyLen(op)
  BY AnswerBytes, LenProperties
<1>2. op \in Byte /\ op # CMD /\ op # OP_FRAME
  BY DEF Byte, CMD, OP_FRAME, Requests, OP_TIMEBASE, OP_CANBUS_PARAMS, OP_DEV_INFO, OP_KEEPALIVE,
         OP_NUM_BUSES
<1>3. head \in Seq(Byte) /\ Len(head) = 2 /\ head[1] = CMD /\ head[2] = op
  BY <1>2 DEF CMD, Byte
<1>4. e = head \o body
  BY DEF EncodeReply
<1>5. m.op = op /\ m.body = body
  OBVIOUS
<1>6. m = [op |-> op, body |-> body]
  OBVIOUS
<1> HIDE DEF head, e, m, n, body
<1>7. /\ e \in Seq(Byte) /\ Len(e) = 2 + n /\ \A i \in 1 .. 2 : e[i] = head[i]
      /\ \A i \in 1 .. n : e[2 + i] = body[i]
  <2>1. /\ head \o body \in Seq(Byte) /\ Len(head \o body) = Len(head) + Len(body)
        /\ \A i \in 1 .. Len(head) : (head \o body)[i] = head[i]
        /\ \A i \in 1 .. Len(body) : (head \o body)[Len(head) + i] = body[i]
    BY <1>1, <1>3, Joined
  <2> QED
    BY <1>3, <1>4, <2>1, Zenon DEF n
<1>8. e[1] = CMD /\ e[2] = op
  <2>1. 1 \in 1 .. 2 /\ 2 \in 1 .. 2
    OBVIOUS
  <2> QED
    BY <1>3, <1>7, <2>1
<1>9. ReplyMessage(e) = m
  <2>1. SubSeq(e, 3, 2 + n) = body
    <3>1. SubSeq(head \o body, Len(head) + 1, Len(head) + Len(body)) = body
      BY <1>1, <1>3, BackPart
    <3>2. Len(head) + 1 = 3 /\ Len(head) + Len(body) = 2 + n
      BY <1>3 DEF n
    <3> QED
      BY <1>4, <3>1, <3>2, Zenon
  <2> QED
    BY <1>1, <1>6, <1>8, <2>1, Zenon DEF ReplyMessage
<1>10. Reads(e, m)
  <2>1. Len(e) >= 2
    BY <1>1, <1>7
  <2>2. Known(e) /\ TakenLen(e) = Len(e) /\ Taken(e) = m
    BY <1>1, <1>2, <1>7, <1>8, <1>9, Zenon DEF Known, TakenLen, Taken
  <2>3. ASSUME Plain(m), NEW i \in 2 .. Len(e) PROVE e[i] # CMD
    <3>1. CASE i = 2
      BY <1>2, <1>8, <3>1
    <3>2. CASE i # 2
      <4> DEFINE j == i - 2
      <4>1. j \in 1 .. n /\ 2 + j = i
        BY <1>1, <1>7, <3>2
      <4> HIDE DEF j
      <4>2. \A x \in 1 .. Len(body) : body[x] # CMD
        BY <1>2, <1>5, <2>3, Zenon DEF Plain
      <4>3. e[i] = body[j] /\ body[j] # CMD
        BY <1>7, <4>1, <4>2, Zenon DEF n
      <4> QED
        BY <4>3
    <3> QED
      BY <3>1, <3>2
  <2> QED
    BY <1>2, <1>8, <2>1, <2>2, <2>3, Zenon DEF Reads
<1>11. m \in Message
  BY <1>7, <1>9, MessageForms, Zenon
<1> QED
  BY <1>7, <1>10, <1>11 DEF e, m

-----------------------------------------------------------------------------
(* Data length codes.                                                      *)

LEMMA DlcTable ==
  /\ \A c \in 0 .. 8 : FD_DLC_LEN[c] = c
  /\ FD_DLC_LEN[9] = 12 /\ FD_DLC_LEN[10] = 16 /\ FD_DLC_LEN[11] = 20 /\ FD_DLC_LEN[12] = 24
  /\ FD_DLC_LEN[13] = 32 /\ FD_DLC_LEN[14] = 48 /\ FD_DLC_LEN[15] = 64
BY DEF FD_DLC_LEN

LEMMA DlcGrows ==
  /\ \A c \in 0 .. 15 : FD_DLC_LEN[c] \in 0 .. 64
  /\ \A c, d \in 0 .. 15 : c < d => FD_DLC_LEN[c] < FD_DLC_LEN[d]
<1> DEFINE T(c) == FD_DLC_LEN[c]
<1>1. /\ \A c \in 0 .. 8 : T(c) = c
      /\ T(9) = 12 /\ T(10) = 16 /\ T(11) = 20 /\ T(12) = 24 /\ T(13) = 32 /\ T(14) = 48 /\ T(15) = 64
  BY DlcTable
<1>2. \A c \in 0 .. 15 : c \in 0 .. 8 \/ c = 9 \/ c = 10 \/ c = 11 \/ c = 12 \/ c = 13 \/ c = 14 \/ c = 15
  OBVIOUS
<1> HIDE DEF T
<1>3. \A c \in 0 .. 15 : T(c) \in 0 .. 64
  BY <1>1, <1>2
<1>4. ASSUME NEW c \in 0 .. 15, NEW d \in 0 .. 15, c < d PROVE T(c) < T(d)
  <2>1. CASE c \in 0 .. 8
    <3>1. T(c) = c
      BY <1>1, <2>1
    <3>2. CASE d \in 0 .. 8
      BY <1>1, <1>4, <3>1, <3>2
    <3>3. CASE ~(d \in 0 .. 8)
      BY <1>1, <1>2, <2>1, <3>1, <3>3
    <3> QED
      BY <3>2, <3>3
  <2>2. CASE ~(c \in 0 .. 8)
    BY <1>1, <1>2, <1>4, <2>2
  <2> QED
    BY <2>1, <2>2
<1> QED
  BY <1>3, <1>4 DEF T

\* The code of a payload stands for the least length that holds it.
LEMMA CodeOfPayload ==
  ASSUME NEW fd \in BOOLEAN, NEW n \in Nat, n <= IF fd THEN 64 ELSE 8
  PROVE  LET c == PayloadDlc(n, fd)
         IN  /\ c \in 0 .. 15 /\ DlcToLen(c, fd) = FD_DLC_LEN[c] /\ DlcToLen(c, TRUE) = FD_DLC_LEN[c]
             /\ n <= FD_DLC_LEN[c] /\ \A d \in 0 .. 15 : n <= FD_DLC_LEN[d] => c <= d
<1> DEFINE Fits(c) == FD_DLC_LEN[c] >= n /\ \A d \in 0 .. c - 1 : FD_DLC_LEN[d] < n
           most == IF fd THEN 64 ELSE 8
           c == PayloadDlc(n, fd)
<1>1. c = LenToDlc(n) /\ n <= 64
  <2>1. most \in {8, 64} /\ n <= most
    OBVIOUS
  <2>2. c = LenToDlc(IF n < most THEN n ELSE most)
    BY DEF PayloadDlc
  <2> HIDE DEF most
  <2>3. (IF n < most THEN n ELSE most) = n /\ n <= 64
    BY <2>1
  <2> QED
    BY <2>2, <2>3
<1>2. c = CHOOSE d \in 0 .. 15 : Fits(d)
  <2>1. ~(n > 64)
    BY <1>1
  <2>2. LenToDlc(n) = CHOOSE d \in 0 .. 15 : Fits(d)
    BY <2>1, Zenon DEF LenToDlc
  <2> QED
    BY <1>1, <2>2, Zenon
<1>3. \E d \in 0 .. 15 : Fits(d)
  <2> DEFINE S == {d \in 0 .. 15 : FD_DLC_LEN[d] >= n}
  <2>1. 15 \in S /\ S \subseteq Nat
    BY <1>1, DlcTable
  <2>2. PICK d \in S : \A x \in S : ~(x < d)
    <3> HIDE DEF S
    <3>1. S # {}
      BY <2>1
    <3> QED
      BY <2>1, <3>1, Least
  <2>3. \A x \in 0 .. d - 1 : FD_DLC_LEN[x] < n
    <3> SUFFICES ASSUME NEW x \in 0 .. d - 1 PROVE FD_DLC_LEN[x] < n
      OBVIOUS
    <3>1. x \in 0 .. 15 /\ x < d
      BY <2>2
    <3>2. ~(FD_DLC_LEN[x] >= n)
      BY <2>2, <3>1
    <3>3. FD_DLC_LEN[x] \in 0 .. 64
      BY <3>1, DlcGrows
    <3> QED
      BY <3>2, <3>3
  <2> QED
    BY <2>2, <2>3
<1>4. c \in 0 .. 15 /\ Fits(c)
  <2> HIDE DEF Fits, c
  <2> QED
    BY <1>2, <1>3
<1> HIDE DEF c
<1>5. /\ n <= FD_DLC_LEN[c] /\ FD_DLC_LEN[c] \in 0 .. 64
      /\ \A d \in 0 .. c - 1 : FD_DLC_LEN[d] < n
  BY <1>4, DlcGrows
<1>6. c % 16 = c
  BY <1>4
<1>7. fd \/ c <= 8
  <2>1. CASE ~fd
    <3>1. n <= 8
      BY <2>1
    <3>2. FD_DLC_LEN[8] = 8
      <4>1. 8 \in 0 .. 8
        OBVIOUS
      <4> QED
        BY <4>1, DlcTable
    <3>3. ~(8 \in 0 .. c - 1)
      <4>1. ~(FD_DLC_LEN[8] < n)
        BY <3>1, <3>2
      <4> QED
        BY <1>5, <4>1
    <3> QED
      BY <1>4, <3>3
  <2> QED
    BY <2>1
<1>8. DlcToLen(c, fd) = FD_DLC_LEN[c] /\ DlcToLen(c, TRUE) = FD_DLC_LEN[c]
  BY <1>6, <1>7, Zenon DEF DlcToLen
<1>9. ASSUME NEW d \in 0 .. 15, n <= FD_DLC_LEN[d] PROVE c <= d
  <2>1. FD_DLC_LEN[d] \in 0 .. 64
    BY DlcGrows
  <2>2. ~(d \in 0 .. c - 1)
    <3> SUFFICES ASSUME d \in 0 .. c - 1 PROVE FALSE
      OBVIOUS
    <3>1. FD_DLC_LEN[d] < n
      BY <1>5
    <3> QED
      BY <1>9, <2>1, <3>1
  <2> QED
    BY <1>4, <2>2
<1> QED
  BY <1>4, <1>5, <1>8, <1>9 DEF c

LEMMA PaddedBytes ==
  ASSUME NEW data \in Seq(Byte), NEW len \in Nat, Len(data) <= len
  PROVE  /\ Padded(data, len) \in Seq(Byte) /\ Len(Padded(data, len)) = len
         /\ \A i \in 1 .. len : Padded(data, len)[i] = IF i <= Len(data) THEN data[i] ELSE 0
<1> DEFINE d == Padded(data, len)
<1>1. Len(data) \in Nat /\ \A i \in 1 .. Len(data) : data[i] \in Byte
  BY BytesAreBytes
<1>2. d = [i \in 1 .. len |-> IF i <= Len(data) THEN data[i] ELSE 0]
  BY DEF Padded
<1> HIDE DEF d
<1>3. \A i \in 1 .. len : d[i] = IF i <= Len(data) THEN data[i] ELSE 0
  BY <1>2, Zenon
<1>4. \A i \in 1 .. len : d[i] \in Byte
  <2> SUFFICES ASSUME NEW i \in 1 .. len PROVE d[i] \in Byte
    OBVIOUS
  <2>1. CASE i <= Len(data)
    BY <1>1, <1>3, <2>1
  <2>2. CASE ~(i <= Len(data))
    <3>1. d[i] = 0
      BY <1>3, <2>2
    <3> QED
      BY <3>1 DEF Byte
  <2> QED
    BY <2>1, <2>2
<1>5. d \in [1 .. len -> Byte]
  <2>1. DOMAIN d = 1 .. len /\ d = [i \in 1 .. len |-> d[i]]
    BY <1>2
  <2> QED
    BY <1>4, <2>1
<1>6. d \in Seq(Byte)
  BY <1>5
<1>7. Len(d) = len
  BY <1>5, <1>6, LenProperties
<1> QED
  BY <1>3, <1>6, <1>7 DEF d

\* Zeros behind a payload pad it.
LEMMA ZerosPad ==
  ASSUME NEW data \in Seq(Byte), NEW len \in Nat, Len(data) <= len
  PROVE  data \o [i \in 1 .. len - Len(data) |-> 0] = Padded(data, len)
<1> DEFINE n == Len(data)
           k == len - n
           z == [i \in 1 .. k |-> 0]
           d == Padded(data, len)
           u == data \o z
<1>1. n \in Nat /\ k \in Nat /\ n + k = len
  BY LenProperties
<1> HIDE DEF k
<1>2. z \in Seq(Byte) /\ Len(z) = k
  BY <1>1 DEF Byte
<1>3. \A i \in 1 .. k : z[i] = 0
  OBVIOUS
<1> HIDE DEF z
<1>4. /\ u \in Seq(Byte) /\ Len(u) = n + k /\ \A i \in 1 .. n : u[i] = data[i]
      /\ \A i \in 1 .. k : u[n + i] = z[i]
  BY <1>2, Joined
<1>5. d \in Seq(Byte) /\ Len(d) = len /\ \A i \in 1 .. len : d[i] = IF i <= n THEN data[i] ELSE 0
  BY PaddedBytes
<1> HIDE DEF u, d, n
<1>6. ASSUME NEW i \in 1 .. len PROVE u[i] = d[i]
  <2>1. CASE i <= n
    <3>1. i \in 1 .. n
      BY <1>1, <2>1
    <3> QED
      BY <1>4, <1>5, <2>1, <3>1
  <2>2. CASE ~(i <= n)
    <3> DEFINE j == i - n
    <3>1. j \in 1 .. k /\ n + j = i
      BY <1>1, <2>2
    <3> HIDE DEF j
    <3>2. u[i] = 0
      BY <1>3, <1>4, <3>1
    <3> QED
      BY <1>5, <2>2, <3>2
  <2> QED
    BY <2>1, <2>2
<1>7. Len(u) = Len(d) /\ \A i \in 1 .. Len(u) : u[i] = d[i]
  BY <1>1, <1>4, <1>5, <1>6
<1>8. u = d
  BY <1>4, <1>5, <1>7, SeqEqual
<1> QED
  BY <1>8 DEF u, d, z, k, n

\* What the code of a captured frame's payload is, and how long that makes it.
LEMMA CaptureCode ==
  ASSUME NEW f \in Capture
  PROVE  LET c == PayloadDlc(Len(f.data), f.fd)
             len == FD_DLC_LEN[c]
         IN  /\ c \in 0 .. 15 /\ len \in 0 .. 64 /\ Len(f.data) <= len
             /\ DlcToLen(c, f.fd) = len /\ DlcToLen(c, TRUE) = len
             /\ Captured(f) = [op |-> OP_FRAME, ts |-> f.ts, id |-> f.id,
                               extended |-> f.extended, bus |-> f.bus, dlc |-> c,
                               data |-> Padded(f.data, len)]
<1> DEFINE n == Len(f.data)
           c == PayloadDlc(n, f.fd)
           L == FD_DLC_LEN[c]
<1>1. f.data \in Seq(Byte) /\ n \in Nat /\ f.fd \in BOOLEAN /\ n <= IF f.fd THEN 64 ELSE 8
  <2>1. f.data \in Seq(Byte) /\ f.fd \in BOOLEAN /\ n <= IF f.fd THEN 64 ELSE 8
    BY DEF Capture
  <2> QED
    BY <2>1, LenProperties
<1> HIDE DEF n
<1>2. /\ c \in 0 .. 15 /\ DlcToLen(c, f.fd) = L /\ DlcToLen(c, TRUE) = L
      /\ n <= L /\ \A d \in 0 .. 15 : n <= FD_DLC_LEN[d] => c <= d
  BY <1>1, CodeOfPayload
<1> HIDE DEF c
<1>3. L \in 0 .. 64
  BY <1>2, DlcGrows
<1> HIDE DEF L
<1> DEFINE fits == {k \in 0 .. 64 : k >= n /\ \E d \in 0 .. 15 : k = FD_DLC_LEN[d]}
           len == CHOOSE k \in fits : \A j \in fits : k <= j
<1>4. L \in fits
  BY <1>1, <1>2, <1>3 DEF L
<1>5. \A j \in fits : L <= j
  <2> SUFFICES ASSUME NEW j \in fits PROVE L <= j
    OBVIOUS
  <2>1. PICK d \in 0 .. 15 : j = FD_DLC_LEN[d]
    OBVIOUS
  <2>2. j \in 0 .. 64 /\ n <= j
    BY <1>1
  <2>3. c <= d
    BY <1>2, <2>1, <2>2
  <2>4. CASE c = d
    BY <1>3, <2>1, <2>4 DEF L
  <2>5. CASE c # d
    <3>1. c < d
      BY <1>2, <2>3, <2>5
    <3>2. FD_DLC_LEN[c] < FD_DLC_LEN[d]
      BY <1>2, <3>1, DlcGrows
    <3> QED
      BY <1>3, <2>1, <2>2, <3>2 DEF L
  <2> QED
    BY <2>4, <2>5
<1>6. fits \subseteq 0 .. 64
  OBVIOUS
<1> HIDE DEF fits
<1>7. len = L
  <2>1. len \in fits /\ \A j \in fits : len <= j
    <3>1. \E k \in fits : \A j \in fits : k <= j
      BY <1>4, <1>5
    <3> HIDE DEF len
    <3>2. len = CHOOSE k \in fits : \A j \in fits : k <= j
      BY DEF len
    <3> QED
      BY <3>1, <3>2
  <2> HIDE DEF len
  <2>2. len <= L /\ L <= len /\ len \in 0 .. 64
    BY <1>4, <1>5, <1>6, <2>1
  <2> QED
    BY <1>3, <2>2
<1> DEFINE code == CHOOSE d \in 0 .. 15 : FD_DLC_LEN[d] = len
<1>8. code = c
  <2>1. \E d \in 0 .. 15 : FD_DLC_LEN[d] = L
    BY <1>2 DEF L
  <2> HIDE DEF len
  <2>2. code \in 0 .. 15 /\ FD_DLC_LEN[code] = L
    <3> HIDE DEF code
    <3>1. code = CHOOSE d \in 0 .. 15 : FD_DLC_LEN[d] = L
      BY <1>7 DEF code
    <3> QED
      BY <2>1, <3>1
  <2> HIDE DEF code
  <2>3. ~(code < c) /\ ~(c < code)
    <3>1. FD_DLC_LEN[c] = L
      BY DEF L
    <3>2. \A d \in 0 .. 15, e \in 0 .. 15 : d < e => FD_DLC_LEN[d] < FD_DLC_LEN[e]
      BY DlcGrows
    <3>3. ~(L < L)
      BY <1>3
    <3> QED
      BY <1>2, <2>2, <3>1, <3>2, <3>3
  <2> QED
    BY <1>2, <2>2, <2>3
<1>9. Captured(f) = [op |-> OP_FRAME, ts |-> f.ts, id |-> f.id, extended |-> f.extended,
                     bus |-> f.bus, dlc |-> code,
                     data |-> f.data \o [i \in 1 .. len - n |-> 0]]
  BY Zenon DEF Captured, fits, n
<1> HIDE DEF len, code
<1>10. f.data \o [i \in 1 .. L - n |-> 0] = Padded(f.data, L)
  <2>1. L \in Nat /\ Len(f.data) <= L
    BY <1>2, <1>3 DEF n
  <2> QED
    BY <1>1, <2>1, ZerosPad DEF n
<1>11. Captured(f) = [op |-> OP_FRAME, ts |-> f.ts, id |-> f.id, extended |-> f.extended,
                      bus |-> f.bus, dlc |-> c, data |-> Padded(f.data, L)]
  BY <1>7, <1>8, <1>9, <1>10, Zenon
<1> QED
  BY <1>2, <1>3, <1>11 DEF n, c, L

-----------------------------------------------------------------------------
(* A captured frame.                                                       *)

\* What is sent of a frame, but for its checksum.
Unsealed(f) ==
  LET dlc == PayloadDlc(Len(f.data), f.fd)
  IN  <<CMD, OP_FRAME>> \o f.ts \o MakeId(f.id, f.extended)
        \o <<16 * (f.bus % 16) + dlc>> \o Padded(f.data, DlcToLen(dlc, f.fd))

LEMMA FrameBytes ==
  ASSUME NEW f \in Capture
  PROVE  LET e == Unsealed(f)
             w == MakeId(f.id, f.extended)
             c == PayloadDlc(Len(f.data), f.fd)
             len == FD_DLC_LEN[c]
             pad == Padded(f.data, len)
         IN  /\ e \in Seq(Byte) /\ Len(e) = 11 + len /\ e[1] = CMD /\ e[2] = OP_FRAME
             /\ \A i \in 1 .. 4 : e[2 + i] = f.ts[i]
             /\ \A i \in 1 .. 4 : e[6 + i] = w[i]
             /\ e[11] = 16 * f.bus + c
             /\ \A i \in 1 .. len : e[11 + i] = pad[i]
<1> DEFINE e == Unsealed(f)
           w == MakeId(f.id, f.extended)
           c == PayloadDlc(Len(f.data), f.fd)
           len == FD_DLC_LEN[c]
           pad == Padded(f.data, len)
           head == <<CMD, OP_FRAME>>
           byte == 16 * (f.bus % 16) + c
           mid == <<byte>>
           ht == head \o f.ts
           hw == ht \o w
           hm == hw \o mid
<1>1. /\ f.ts \in Seq(Byte) /\ Len(f.ts) = 4 /\ f.bus \in 0 .. 15 /\ f.data \in Seq(Byte)
      /\ f.extended \in BOOLEAN /\ FitsMask(f.id, f.extended)
  BY DEF Capture
<1>2. c \in 0 .. 15 /\ len \in 0 .. 64 /\ Len(f.data) <= len /\ DlcToLen(c, f.fd) = len
  BY CaptureCode
<1>3. w \in Seq(Byte) /\ Len(w) = 4
  BY <1>1, MakeIdBytes
<1>4. pad \in Seq(Byte) /\ Len(pad) = len
  <2> HIDE DEF len, c
  <2>1. len \in Nat
    BY <1>2
  <2> QED
    BY <1>1, <1>2, <2>1, PaddedBytes
<1>5. byte = 16 * f.bus + c /\ byte \in Byte
  <2> HIDE DEF c
  <2>1. f.bus % 16 = f.bus
    BY <1>1
  <2>2. \A x \in 0 .. 15, y \in 0 .. 15 : 16 * x + y \in 0 .. 255
    OBVIOUS
  <2> QED
    BY <1>1, <1>2, <2>1, <2>2, Zenon DEF Byte
<1>6. head \in Seq(Byte) /\ Len(head) = 2 /\ head[1] = CMD /\ head[2] = OP_FRAME
  BY DEF CMD, OP_FRAME, Byte
<1>7. e = hm \o pad
  <2>1. e = head \o f.ts \o w \o mid \o Padded(f.data, DlcToLen(c, f.fd))
    BY DEF Unsealed
  <2> HIDE DEF e, w, c, head
  <2> QED
    BY <1>2, <2>1, Zenon
<1> HIDE DEF byte
<1>8. mid \in Seq(Byte) /\ Len(mid) = 1 /\ mid[1] = byte
  BY <1>5
<1>9. ht = head \o f.ts /\ hw = ht \o w /\ hm = hw \o mid
  OBVIOUS
<1> HIDE DEF e, w, c, len, pad, head, mid, ht, hw, hm
<1>10. /\ ht \in Seq(Byte) /\ Len(ht) = 6 /\ \A i \in 1 .. 2 : ht[i] = head[i]
       /\ \A i \in 1 .. 4 : ht[2 + i] = f.ts[i]
  <2>1. /\ head \o f.ts \in Seq(Byte) /\ Len(head \o f.ts) = Len(head) + Len(f.ts)
        /\ \A i \in 1 .. Len(head) : (head \o f.ts)[i] = head[i]
        /\ \A i \in 1 .. Len(f.ts) : (head \o f.ts)[Len(head) + i] = f.ts[i]
    BY <1>1, <1>6, Joined
  <2>2. 2 + 4 = 6
    OBVIOUS
  <2> QED
    BY <1>1, <1>6, <1>9, <2>1, <2>2, Zenon
<1>11. /\ hw \in Seq(Byte) /\ Len(hw) = 10 /\ \A i \in 1 .. 6 : hw[i] = ht[i]
       /\ \A i \in 1 .. 4 : hw[6 + i] = w[i]
  <2>1. /\ ht \o w \in Seq(Byte) /\ Len(ht \o w) = Len(ht) + Len(w)
        /\ \A i \in 1 .. Len(ht) : (ht \o w)[i] = ht[i]
        /\ \A i \in 1 .. Len(w) : (ht \o w)[Len(ht) + i] = w[i]
    BY <1>3, <1>10, Joined
  <2>2. 6 + 4 = 10
    OBVIOUS
  <2> QED
    BY <1>3, <1>9, <1>10, <2>1, <2>2, Zenon
<1>12. /\ hm \in Seq(Byte) /\ Len(hm) = 11 /\ \A i \in 1 .. 10 : hm[i] = hw[i]
       /\ hm[11] = byte
  <2>1. /\ hw \o mid \in Seq(Byte) /\ Len(hw \o mid) = Len(hw) + Len(mid)
        /\ \A i \in 1 .. Len(hw) : (hw \o mid)[i] = hw[i]
        /\ \A i \in 1 .. Len(mid) : (hw \o mid)[Len(hw) + i] = mid[i]
    BY <1>8, <1>11, Joined
  <2>2. 10 + 1 = 11 /\ 1 \in 1 .. 1
    OBVIOUS
  <2>3. /\ hm \in Seq(Byte) /\ Len(hm) = 10 + 1 /\ \A i \in 1 .. 10 : hm[i] = hw[i]
        /\ \A i \in 1 .. 1 : hm[10 + i] = mid[i]
    BY <1>8, <1>9, <1>11, <2>1, Zenon
  <2>4. hm[10 + 1] = mid[1]
    BY <2>2, <2>3
  <2> QED
    BY <1>8, <2>2, <2>3, <2>4, Zenon
<1>13. /\ e \in Seq(Byte) /\ Len(e) = 11 + len /\ \A i \in 1 .. 11 : e[i] = hm[i]
       /\ \A i \in 1 .. len : e[11 + i] = pad[i]
  <2>1. /\ hm \o pad \in Seq(Byte) /\ Len(hm \o pad) = Len(hm) + Len(pad)
        /\ \A i \in 1 .. Len(hm) : (hm \o pad)[i] = hm[i]
        /\ \A i \in 1 .. Len(pad) : (hm \o pad)[Len(hm) + i] = pad[i]
    BY <1>4, <1>12, Joined
  <2> QED
    BY <1>4, <1>7, <1>12, <2>1, Zenon
<1>14. e[1] = CMD /\ e[2] = OP_FRAME
  <2>1. \A i \in 1 .. 2 : i \in 1 .. 6 /\ i \in 1 .. 10 /\ i \in 1 .. 11
    OBVIOUS
  <2>2. \A i \in 1 .. 2 : e[i] = head[i]
    BY <1>10, <1>11, <1>12, <1>13, <2>1
  <2>3. 1 \in 1 .. 2 /\ 2 \in 1 .. 2
    OBVIOUS
  <2> QED
    BY <1>6, <2>2, <2>3
<1>15. \A i \in 1 .. 4 : e[2 + i] = f.ts[i]
  <2> SUFFICES ASSUME NEW i \in 1 .. 4 PROVE e[2 + i] = f.ts[i]
    OBVIOUS
  <2>1. 2 + i \in 1 .. 6 /\ 2 + i \in 1 .. 10 /\ 2 + i \in 1 .. 11
    OBVIOUS
  <2>2. /\ ht[2 + i] = f.ts[i]
        /\ hw[2 + i] = ht[2 + i]
        /\ hm[2 + i] = hw[2 + i]
        /\ e[2 + i] = hm[2 + i]
    BY <1>10, <1>11, <1>12, <1>13, <2>1, Zenon
  <2> QED
    BY <2>2, Zenon
<1>16. \A i \in 1 .. 4 : e[6 + i] = w[i]
  <2>1. \A i \in 1 .. 4 : 6 + i \in 1 .. 10 /\ 6 + i \in 1 .. 11
    OBVIOUS
  <2> QED
    BY <1>11, <1>12, <1>13, <2>1
<1>17. e[11] = 16 * f.bus + c
  <2>1. 11 \in 1 .. 11
    OBVIOUS
  <2> QED
    BY <1>5, <1>12, <1>13, <2>1
<1> QED
  BY <1>13, <1>14, <1>15, <1>16, <1>17 DEF e, w, c, len, pad

\* A sync byte in what is sent of a frame is one in what it says.
LEMMA FramePlain ==
  ASSUME NEW f \in Capture, Plain(Captured(f)), NEW i \in 2 .. Len(Unsealed(f))
  PROVE  Unsealed(f)[i] # CMD
<1> DEFINE e == Unsealed(f)
           w == MakeId(f.id, f.extended)
           c == PayloadDlc(Len(f.data), f.fd)
           len == FD_DLC_LEN[c]
           pad == Padded(f.data, len)
           m == Captured(f)
           code == 16 * f.bus + c
           mid == <<code>>
           ti == f.ts \o f.id
           tim == ti \o mid
           all == tim \o pad
<1>1. /\ f.ts \in Seq(Byte) /\ Len(f.ts) = 4 /\ f.bus \in 0 .. 15 /\ f.data \in Seq(Byte)
      /\ f.extended \in BOOLEAN /\ FitsMask(f.id, f.extended)
  BY DEF Capture
<1>2. /\ c \in 0 .. 15 /\ len \in 0 .. 64 /\ Len(f.data) <= len
      /\ m = [op |-> OP_FRAME, ts |-> f.ts, id |-> f.id, extended |-> f.extended,
              bus |-> f.bus, dlc |-> c, data |-> pad]
  BY CaptureCode
<1>3. /\ e \in Seq(Byte) /\ Len(e) = 11 + len /\ e[1] = CMD /\ e[2] = OP_FRAME
      /\ \A j \in 1 .. 4 : e[2 + j] = f.ts[j]
      /\ \A j \in 1 .. 4 : e[6 + j] = w[j]
      /\ e[11] = code
      /\ \A j \in 1 .. len : e[11 + j] = pad[j]
  BY FrameBytes
<1>4. pad \in Seq(Byte) /\ Len(pad) = len
  <2> HIDE DEF len, c
  <2>1. len \in Nat
    BY <1>2
  <2> QED
    BY <1>1, <1>2, <2>1, PaddedBytes
<1>5. code \in Byte
  <2> HIDE DEF c
  <2>1. \A x \in 0 .. 15, y \in 0 .. 15 : 16 * x + y \in 0 .. 255
    OBVIOUS
  <2> QED
    BY <1>1, <1>2, <2>1, Zenon DEF Byte
<1>6. \A j \in 1 .. Len(all) : all[j] # CMD
  <2> HIDE DEF pad, c
  <2>1. /\ m.op = OP_FRAME /\ m.ts = f.ts /\ m.id = f.id /\ m.bus = f.bus /\ m.dlc = c /\ m.data = pad
    <3> HIDE DEF m
    <3> QED
      BY <1>2
  <2>2. all = m.ts \o m.id \o <<16 * m.bus + m.dlc>> \o m.data
    <3> HIDE DEF m
    <3> QED
      BY <2>1
  <2> HIDE DEF all, m
  <2> QED
    BY <2>1, <2>2, Zenon DEF Plain, m
<1>7. /\ f.id \in Seq(Byte) /\ Len(f.id) = 4
      /\ f.id[1] \in 0 .. 255 /\ f.id[2] \in 0 .. 255 /\ f.id[3] \in 0 .. 255 /\ f.id[4] \in 0 .. 255
  <2> DEFINE id == f.id
             x == f.extended
  <2>1. FitsMask(id, x)
    BY <1>1
  <2> HIDE DEF id, x
  <2>2. /\ id \in Seq(Byte) /\ Len(id) = 4
        /\ id[1] \in 0 .. 255 /\ id[2] \in 0 .. 255 /\ id[3] \in 0 .. 255 /\ id[4] \in 0 .. 255
    BY <2>1, IdBytes
  <2> QED
    BY <2>2 DEF id
<1> HIDE DEF code
<1>8. mid \in Seq(Byte) /\ Len(mid) = 1 /\ mid[1] = code
  BY <1>5
<1>9. ti = f.ts \o f.id /\ tim = ti \o mid /\ all = tim \o pad
  OBVIOUS
<1> HIDE DEF e, w, c, len, pad, m, mid, ti, tim, all
<1>10. /\ ti \in Seq(Byte) /\ Len(ti) = 8 /\ \A j \in 1 .. 4 : ti[j] = f.ts[j]
       /\ \A j \in 1 .. 4 : ti[4 + j] = f.id[j]
  <2>1. /\ f.ts \o f.id \in Seq(Byte) /\ Len(f.ts \o f.id) = Len(f.ts) + Len(f.id)
        /\ \A j \in 1 .. Len(f.ts) : (f.ts \o f.id)[j] = f.ts[j]
        /\ \A j \in 1 .. Len(f.id) : (f.ts \o f.id)[Len(f.ts) + j] = f.id[j]
    BY <1>1, <1>7, Joined
  <2>2. 4 + 4 = 8
    OBVIOUS
  <2> QED
    BY <1>1, <1>7, <1>9, <2>1, <2>2, Zenon
<1>11. /\ tim \in Seq(Byte) /\ Len(tim) = 9 /\ tim[9] = code
       /\ \A j \in 1 .. 8 : tim[j] = ti[j]
  <2>1. /\ ti \o mid \in Seq(Byte) /\ Len(ti \o mid) = Len(ti) + Len(mid)
        /\ \A j \in 1 .. Len(ti) : (ti \o mid)[j] = ti[j]
        /\ \A j \in 1 .. Len(mid) : (ti \o mid)[Len(ti) + j] = mid[j]
    BY <1>8, <1>10, Joined
  <2>2. 8 + 1 = 9 /\ 1 \in 1 .. 1
    OBVIOUS
  <2>3. /\ tim \in Seq(Byte) /\ Len(tim) = 8 + 1 /\ \A j \in 1 .. 8 : tim[j] = ti[j]
        /\ \A j \in 1 .. 1 : tim[8 + j] = mid[j]
    BY <1>8, <1>9, <1>10, <2>1, Zenon
  <2>4. tim[8 + 1] = mid[1]
    BY <2>2, <2>3
  <2> QED
    BY <1>8, <2>2, <2>3, <2>4, Zenon
<1>12. /\ Len(all) = 9 + len /\ \A j \in 1 .. 9 : all[j] = tim[j]
       /\ \A j \in 1 .. len : all[9 + j] = pad[j]
  <2>1. /\ tim \o pad \in Seq(Byte) /\ Len(tim \o pad) = Len(tim) + Len(pad)
        /\ \A j \in 1 .. Len(tim) : (tim \o pad)[j] = tim[j]
        /\ \A j \in 1 .. Len(pad) : (tim \o pad)[Len(tim) + j] = pad[j]
    BY <1>4, <1>11, Joined
  <2> QED
    BY <1>4, <1>9, <1>11, <2>1, Zenon
<1>13. \A j \in 1 .. 4 : f.ts[j] # CMD /\ f.id[j] # CMD
  <2> SUFFICES ASSUME NEW j \in 1 .. 4 PROVE f.ts[j] # CMD /\ f.id[j] # CMD
    OBVIOUS
  <2>1. /\ j \in 1 .. 8 /\ j \in 1 .. 9 /\ j \in 1 .. Len(all)
        /\ 4 + j \in 1 .. 8 /\ 4 + j \in 1 .. 9 /\ 4 + j \in 1 .. Len(all)
    BY <1>2, <1>12
  <2>2. all[j] = tim[j] /\ tim[j] = ti[j] /\ ti[j] = f.ts[j]
    BY <1>10, <1>11, <1>12, <2>1, Zenon
  <2>3. all[4 + j] = tim[4 + j] /\ tim[4 + j] = ti[4 + j] /\ ti[4 + j] = f.id[j]
    BY <1>10, <1>11, <1>12, <2>1, Zenon
  <2>4. all[j] # CMD /\ all[4 + j] # CMD
    BY <1>6, <2>1, Zenon
  <2> QED
    BY <2>2, <2>3, <2>4, Zenon
<1>14. code # CMD
  <2>1. \A n \in 0 .. 64 : 9 \in 1 .. 9 /\ 9 \in 1 .. 9 + n
    OBVIOUS
  <2>2. 9 \in 1 .. 9 /\ 9 \in 1 .. Len(all)
    BY <1>2, <1>12, <2>1, Zenon
  <2>3. all[9] = tim[9] /\ tim[9] = code /\ all[9] # CMD
    BY <1>6, <1>11, <1>12, <2>2, Zenon
  <2> QED
    BY <2>3, Zenon
<1>15. \A j \in 1 .. len : pad[j] # CMD
  <2> SUFFICES ASSUME NEW j \in 1 .. len PROVE pad[j] # CMD
    OBVIOUS
  <2>1. 9 + j \in 1 .. Len(all)
    BY <1>2, <1>12
  <2> QED
    BY <1>6, <1>12, <2>1
<1>16. \A j \in 1 .. 4 : w[j] # CMD
  <2>1. 1 \in 1 .. 4 /\ 2 \in 1 .. 4 /\ 3 \in 1 .. 4 /\ 4 \in 1 .. 4
        /\ \A j \in 1 .. 4 : j = 1 \/ j = 2 \/ j = 3 \/ j = 4
    OBVIOUS
  <2>2. f.id[1] # CMD /\ f.id[2] # CMD /\ f.id[3] # CMD
    BY <1>13, <2>1
  <2>3. /\ \A n \in 0 .. 255 : 128 + (n % 32) # CMD /\ n % 8 # CMD
        /\ 0 # CMD
    BY DEF CMD
  <2>4. CASE f.extended
    <3> DEFINE d == 128 + (f.id[4] % 32)
    <3>1. w = <<f.id[1], f.id[2], f.id[3], d>>
      BY <2>4, Zenon DEF MakeId, w
    <3>2. d # CMD
      BY <1>7, <2>3, Zenon
    <3> HIDE DEF d
    <3>3. w[1] = f.id[1] /\ w[2] = f.id[2] /\ w[3] = f.id[3] /\ w[4] = d
      BY <3>1, FourBytes
    <3> QED
      BY <2>1, <2>2, <3>2, <3>3
  <2>5. CASE ~f.extended
    <3> DEFINE d == f.id[2] % 8
               z == 0
    <3>1. w = <<f.id[1], d, z, z>>
      BY <2>5, Zenon DEF MakeId, w
    <3>2. d # CMD /\ z # CMD
      BY <1>7, <2>3, Zenon
    <3> HIDE DEF d, z
    <3>3. w[1] = f.id[1] /\ w[2] = d /\ w[3] = z /\ w[4] = z
      BY <3>1, FourBytes
    <3> QED
      BY <2>1, <2>2, <3>2, <3>3
  <2> QED
    BY <2>4, <2>5
<1>17. e[i] # CMD
  <2>1. i \in 2 .. 11 + len
    BY <1>3 DEF e
  <2>2. CASE i = 2
    BY <1>3, <2>2 DEF OP_FRAME, CMD
  <2>3. CASE i \in 3 .. 6
    <3> DEFINE j == i - 2
    <3>1. j \in 1 .. 4 /\ 2 + j = i
      BY <2>3
    <3> HIDE DEF j
    <3> QED
      BY <1>3, <1>13, <3>1
  <2>4. CASE i \in 7 .. 10
    <3> DEFINE j == i - 6
    <3>1. j \in 1 .. 4 /\ 6 + j = i
      BY <2>4
    <3> HIDE DEF j
    <3> QED
      BY <1>3, <1>16, <3>1
  <2>5. CASE i = 11
    BY <1>3, <1>14, <2>5
  <2>6. CASE i \in 12 .. 11 + len
    <3> DEFINE j == i - 11
    <3>1. j \in 1 .. len /\ 11 + j = i
      BY <1>2, <2>6
    <3> HIDE DEF j
    <3> QED
      BY <1>3, <1>15, <3>1
  <2>7. i = 2 \/ i \in 3 .. 6 \/ i \in 7 .. 10 \/ i = 11 \/ i \in 12 .. 11 + len
    BY <1>2, <2>1
  <2> QED
    BY <2>2, <2>3, <2>4, <2>5, <2>6, <2>7
<1> QED
  BY <1>17 DEF e

\* A captured frame is read back as what it says.
LEMMA FrameReads ==
  ASSUME NEW f \in Capture
  PROVE  /\ Unsealed(f) \in Seq(Byte) /\ EncodeFrame(f) = Unsealed(f) \o << 0 >>
         /\ Reads(Unsealed(f), Captured(f)) /\ Captured(f) \in Message
<1> DEFINE e == Unsealed(f)
           w == MakeId(f.id, f.extended)
           c == PayloadDlc(Len(f.data), f.fd)
           len == FD_DLC_LEN[c]
           pad == Padded(f.data, len)
           m == Captured(f)
           v == SubSeq(e, 7, 10)
           d == SubSeq(e, 12, 11 + len)
           t == SubSeq(e, 3, 6)
<1>1. /\ f.ts \in Seq(Byte) /\ Len(f.ts) = 4 /\ f.bus \in 0 .. 15 /\ f.data \in Seq(Byte)
      /\ f.extended \in BOOLEAN /\ FitsMask(f.id, f.extended)
  BY DEF Capture
<1>2. /\ c \in 0 .. 15 /\ len \in 0 .. 64 /\ Len(f.data) <= len /\ DlcToLen(c, TRUE) = len
      /\ m = [op |-> OP_FRAME, ts |-> f.ts, id |-> f.id, extended |-> f.extended,
              bus |-> f.bus, dlc |-> c, data |-> pad]
  BY CaptureCode
<1>3. /\ e \in Seq(Byte) /\ Len(e) = 11 + len /\ e[1] = CMD /\ e[2] = OP_FRAME
      /\ \A j \in 1 .. 4 : e[2 + j] = f.ts[j]
      /\ \A j \in 1 .. 4 : e[6 + j] = w[j]
      /\ e[11] = 16 * f.bus + c
      /\ \A j \in 1 .. len : e[11 + j] = pad[j]
  BY FrameBytes
<1>4. pad \in Seq(Byte) /\ Len(pad) = len
  <2> HIDE DEF len, c
  <2>1. len \in Nat
    BY <1>2
  <2> QED
    BY <1>1, <1>2, <2>1, PaddedBytes
<1>5. EncodeFrame(f) = e \o << 0 >>
  <2> DEFINE h == <<CMD, OP_FRAME>> \o f.ts \o MakeId(f.id, f.extended)
                    \o <<16 * (f.bus % 16) + c>> \o Padded(f.data, DlcToLen(c, f.fd))
  <2>1. EncodeFrame(f) = h \o << 0 >>
    BY DEF EncodeFrame
  <2>2. e = h
    BY DEF Unsealed
  <2> HIDE DEF h, e
  <2> QED
    BY <2>1, <2>2
<1>6. (16 * f.bus + c) % 16 = c /\ (16 * f.bus + c) \div 16 = f.bus
  <2> HIDE DEF c
  <2>1. \A x \in 0 .. 15, y \in 0 .. 15 : (16 * x + y) % 16 = y /\ (16 * x + y) \div 16 = x
    OBVIOUS
  <2> QED
    BY <1>1, <1>2, <2>1
<1>7. Len(e) \in Nat /\ Len(e) >= 11
  <2> HIDE DEF e, len
  <2> QED
    BY <1>2, <1>3
<1>8. DlcToLen(e[11], TRUE) = len
  <2>1. DlcToLen(e[11], TRUE) = FD_DLC_LEN[(16 * f.bus + c) % 16]
    BY <1>3, Zenon DEF DlcToLen
  <2> QED
    BY <1>6, <2>1, Zenon
<1>9. FrameLen(e) = 11 + len /\ FrameLen(e) - FRAME_HEADER = len
  <2>1. FrameLen(e) = 11 + len
    BY <1>8, Zenon DEF FrameLen, FRAME_HEADER
  <2> HIDE DEF e, len
  <2> QED
    BY <1>2, <2>1 DEF FRAME_HEADER
<1>10. t = f.ts
  <2>1. t \in Seq(Byte) /\ Len(t) = 4 /\ \A j \in 1 .. 4 : t[j] = e[2 + j]
    <3> HIDE DEF e
    <3>1. 3 \in Nat \ {0} /\ 6 \in Nat /\ 3 <= 6 + 1 /\ 6 <= Len(e) /\ 6 - 3 + 1 = 4
      BY <1>7
    <3>2. \A j \in 1 .. 4 : 3 + j - 1 = 2 + j
      OBVIOUS
    <3>3. t \in Seq(Byte) /\ Len(t) = 6 - 3 + 1 /\ \A j \in 1 .. 6 - 3 + 1 : t[j] = e[3 + j - 1]
      BY <1>3, <3>1, Stretch
    <3> HIDE DEF t
    <3> QED
      BY <3>1, <3>2, <3>3
  <2> HIDE DEF t, e
  <2>2. \A j \in 1 .. Len(t) : t[j] = f.ts[j]
    BY <1>3, <2>1
  <2> QED
    BY <1>1, <2>1, <2>2, SeqEqual
<1>11. Extended(v) = f.extended /\ SplitId(v) = f.id
  <2>1. v \in Seq(Byte) /\ Len(v) = 4 /\ \A j \in 1 .. 4 : v[j] = e[6 + j]
    <3> HIDE DEF e
    <3>1. 7 \in Nat \ {0} /\ 10 \in Nat /\ 7 <= 10 + 1 /\ 10 <= Len(e) /\ 10 - 7 + 1 = 4
      BY <1>7
    <3>2. \A j \in 1 .. 4 : 7 + j - 1 = 6 + j
      OBVIOUS
    <3>3. v \in Seq(Byte) /\ Len(v) = 10 - 7 + 1 /\ \A j \in 1 .. 10 - 7 + 1 : v[j] = e[7 + j - 1]
      BY <1>3, <3>1, Stretch
    <3> HIDE DEF v
    <3> QED
      BY <3>1, <3>2, <3>3
  <2> DEFINE id == f.id
             x == f.extended
  <2>2. FitsMask(id, x) /\ x \in BOOLEAN /\ \A j \in 1 .. 4 : v[j] = MakeId(id, x)[j]
    <3> HIDE DEF v, e
    <3>1. \A j \in 1 .. 4 : v[j] = w[j]
      BY <1>3, <2>1, Zenon
    <3> QED
      BY <1>1, <3>1
  <2> HIDE DEF id, x, v
  <2>3. Extended(v) = x /\ SplitId(v) = id
    BY <2>1, <2>2, IdRoundTrip
  <2> QED
    BY <2>3 DEF id, x
<1>12. d = pad
  <2> DEFINE l == 11 + len
  <2> HIDE DEF e, len, pad
  <2>1. 12 \in Nat \ {0} /\ l \in Nat /\ 12 <= l + 1 /\ l <= Len(e) /\ l - 12 + 1 = len
        /\ \A j \in 1 .. len : 12 + j - 1 = 11 + j
    BY <1>2, <1>3
  <2> DEFINE s == SubSeq(e, 12, l)
  <2> HIDE DEF l
  <2>2. s \in Seq(Byte) /\ Len(s) = l - 12 + 1 /\ \A j \in 1 .. l - 12 + 1 : s[j] = e[12 + j - 1]
    BY <1>3, <2>1, Stretch
  <2> HIDE DEF s
  <2>3. s \in Seq(Byte) /\ Len(s) = len /\ \A j \in 1 .. len : s[j] = e[11 + j]
    BY <2>1, <2>2
  <2>4. \A j \in 1 .. Len(s) : s[j] = pad[j]
    BY <1>3, <2>3
  <2>5. s = pad
    BY <1>4, <2>3, <2>4, SeqEqual
  <2> QED
    BY <2>5 DEF s, l
<1>13. FrameMessage(e, len) = m
  <2>1. FRAME_HEADER + 1 = 12 /\ FRAME_HEADER + len = 11 + len
    BY DEF FRAME_HEADER
  <2>2. FrameMessage(e, len) =
          [op |-> OP_FRAME, ts |-> t, id |-> SplitId(v), extended |-> Extended(v),
           bus |-> e[11] \div 16, dlc |-> e[11] % 16, data |-> d]
    BY <2>1, Zenon DEF FrameMessage
  <2> HIDE DEF m, t, v, d, pad, e, c
  <2> QED
    BY <1>2, <1>3, <1>6, <1>10, <1>11, <1>12, <2>2, Zenon
<1>14. m \in Message
  <2> HIDE DEF m, e, len
  <2> QED
    BY <1>2, <1>3, <1>13, MessageForms, Zenon
<1>15. Reads(e, m)
  <2>1. Known(e) /\ TakenLen(e) = 11 + len /\ Taken(e) = m
    BY <1>3, <1>9, <1>13, Zenon DEF Known, TakenLen, Taken
  <2>2. Plain(m) => \A i \in 2 .. Len(e) : e[i] # CMD
    BY FramePlain
  <2> HIDE DEF e, m, len
  <2>3. Len(e) >= 2 /\ Len(e) >= FRAME_HEADER
    BY <1>7 DEF FRAME_HEADER
  <2> QED
    BY <1>3, <2>1, <2>2, <2>3, Zenon DEF Reads
<1> QED
  BY <1>3, <1>5, <1>14, <1>15 DEF e, m

-----------------------------------------------------------------------------
(* The inductive invariant of the link.                                    *)

LinkInv == DevLinkInv /\ HostLinkInv /\ served \in Nat

\* A host that hears nothing new, and reads nothing, is where it was.
LEMMA HearingStays ==
  ASSUME HostLinkInv, UNCHANGED <<hostVars, wire, fed, said, spans, rubbish>>
  PROVE  HostLinkInv'
<1>1. /\ wire' = wire /\ fed' = fed /\ said' = said /\ spans' = spans /\ rubbish' = rubbish
      /\ hostBuf' = hostBuf /\ reading' = reading /\ heard' = heard
      /\ UNCHANGED <<wire, said, spans, rubbish>>
  BY DEF hostVars
<1>2. HostAt' = HostAt
  BY <1>1, Zenon DEF HostAt
<1>3. Talk'
  BY <1>1, TalkStays, Zenon DEF HostLinkInv
<1>4. Bearing(heard, HostAt)'
  <2>1. Bearing(heard', HostAt')
    BY <1>1, <1>2, Zenon DEF HostLinkInv, HeardSoFar
  <2> QED
    BY <1>1, <2>1, BearingStays
<1>5. FalseHeads' = FalseHeads
  BY <1>1, Zenon DEF FalseHeads
<1>6. /\ fed' \in 0 .. Len(wire') /\ HostAt' \in 0 .. fed'
      /\ hostBuf' = SubSeq(wire', HostAt' + 1, fed')
      /\ reading' \in BOOLEAN /\ heard' \in Seq(Message)
  BY <1>1, <1>2, Zenon DEF HostLinkInv, HeardSoFar
<1>7. ~reading' /\ FalseHeads' = {} =>
        \A k \in 1 .. Len(said') : spans'[k].last <= fed' => spans'[k].last <= HostAt'
  BY <1>1, <1>2, <1>5, Zenon DEF HostLinkInv, HeardSoFar
<1>8. HeardSoFar'
  BY <1>4, <1>6, <1>7, Zenon DEF HeardSoFar
<1> QED
  BY <1>3, <1>8, Zenon DEF HostLinkInv

LEMMA ServeKeepsHearing ==
  ASSUME LinkInv, Serve
  PROVE  HostLinkInv'
<1> DEFINE op == commands[served + 1].op
           bytes == EncodeReply(op, Answer(op))
           m == [op |-> op, body |-> Answer(op)]
<1>1. served + 1 \in 1 .. Len(commands)
  <2>1. Len(commands) \in Nat
    <3>1. PICK q \in 0 .. Len(spoken) : Speech(q) /\ Understood(q)
      BY DEF LinkInv, DevLinkInv
    <3> QED
      BY <3>1, DeviceNumbers
  <2> QED
    BY <2>1 DEF Serve, LinkInv
<1>2. commands[served + 1] \in Asks
  <2>1. commands \in Seq(Asks)
    BY Zenon DEF LinkInv, DevLinkInv, Understood
  <2> QED
    BY <1>1, <2>1, ElementOfSeq
<1>3. op # OP_FRAME => op \in Requests
  BY <1>2, LinkAssumption DEF Request, Transmit
<1>4. UNCHANGED <<hostVars, fed, rubbish>>
  BY DEF Serve
<1>5. CASE op = OP_FRAME
  <2>1. UNCHANGED <<hostVars, wire, fed, said, spans, rubbish>>
    BY <1>5, Zenon DEF Serve
  <2> QED
    BY <2>1, HearingStays, Zenon DEF LinkInv
<1>6. CASE op # OP_FRAME
  <2>1. /\ wire' = wire \o bytes /\ said' = Append(said, m)
        /\ spans' = Append(spans, Behind(wire, Len(bytes)))
    BY <1>6, Zenon DEF Serve
  <2>2. bytes \in Seq(Byte) /\ Reads(bytes, m) /\ m \in Message
    BY <1>3, <1>6, ReplyReads
  <2> HIDE DEF bytes, m
  <2> DEFINE rest == <<>>
  <2>3. bytes \o rest = bytes
    BY <2>2, ConcatEmptySeq
  <2>4. rest \in Seq(Byte) /\ \A i \in 1 .. Len(rest) : rest[i] # CMD
    BY EmptyIsBounded
  <2> HIDE DEF rest
  <2>5. Says(m, bytes, rest)
    BY <1>4, <2>1, <2>3, Zenon DEF Says
  <2>6. Talk /\ HeardSoFar
    BY DEF LinkInv, HostLinkInv
  <2>7. Talk' /\ HeardSoFar'
    BY <2>2, <2>4, <2>5, <2>6, SaysKeepsHearing
  <2> QED
    BY <2>7, Zenon DEF HostLinkInv
<1> QED
  BY <1>5, <1>6

LEMMA PushKeepsHearing ==
  ASSUME LinkInv, NEW f \in Pushes, Push(f)
  PROVE  HostLinkInv'
<1> DEFINE bytes == Unsealed(f)
           m == Captured(f)
           rest == << 0 >>
<1>1. f \in Capture
  BY LinkAssumption
<1>2. /\ bytes \in Seq(Byte) /\ EncodeFrame(f) = bytes \o rest
      /\ Reads(bytes, m) /\ m \in Message
  BY <1>1, FrameReads
<1>3. rest \in Seq(Byte) /\ Len(rest) = 1 /\ rest[1] = 0
  BY DEF Byte
<1>4. /\ wire' = wire \o EncodeFrame(f) /\ said' = Append(said, m)
      /\ spans' = Append(spans, Behind(wire, Len(EncodeFrame(f)) - 1))
      /\ UNCHANGED <<hostVars, fed, rubbish>>
  BY DEF Push
<1> HIDE DEF bytes, m, rest
<1>5. \A i \in 1 .. Len(rest) : rest[i] # CMD
  <2>1. \A i \in 1 .. 1 : i = 1
    OBVIOUS
  <2>2. CMD # 0
    BY DEF CMD
  <2> QED
    BY <1>3, <2>1, <2>2, Zenon
<1>6. Len(EncodeFrame(f)) - 1 = Len(bytes)
  <2>1. Len(EncodeFrame(f)) = Len(bytes) + Len(rest)
    <3>1. Len(bytes \o rest) = Len(bytes) + Len(rest)
      BY <1>2, <1>3, Joined
    <3> QED
      BY <1>2, <3>1, Zenon
  <2>2. Len(bytes) \in Nat
    BY <1>2, LenProperties
  <2> QED
    BY <1>3, <2>1, <2>2
<1>7. Says(m, bytes, rest)
  BY <1>2, <1>4, <1>6, Zenon DEF Says
<1>8. Talk /\ HeardSoFar
  BY DEF LinkInv, HostLinkInv
<1>9. Talk' /\ HeardSoFar'
  BY <1>2, <1>3, <1>5, <1>7, <1>8, SaysKeepsHearing
<1> QED
  BY <1>9, Zenon DEF HostLinkInv

LEMMA HostReadKeepsHearing ==
  ASSUME HostLinkInv, NEW n \in ChunkSizes, HostReads(n)
  PROVE  HostLinkInv'
<1>1. n \in Nat /\ Talk /\ HeardSoFar
  BY LinkAssumption DEF HostLinkInv
<1>2. HeardSoFar'
  BY <1>1, ReadKeepsHearing
<1>3. UNCHANGED <<wire, said, spans, rubbish>>
  BY DEF HostReads
<1>4. Talk'
  BY <1>1, <1>3, TalkStays
<1> QED
  BY <1>2, <1>4, Zenon DEF HostLinkInv

LEMMA HostRunKeepsHearing ==
  ASSUME HostLinkInv, HostRuns
  PROVE  HostLinkInv'
<1>1. Talk /\ HeardSoFar
  BY DEF HostLinkInv
<1>2. UNCHANGED <<wire, fed, said, spans, rubbish>> /\ UNCHANGED <<wire, said, spans, rubbish>>
  BY DEF HostRuns
<1>3. Talk'
  BY <1>1, <1>2, TalkStays
<1>4. CASE HostWaitForSync
  BY <1>1, <1>2, <1>3, <1>4, RestKeepsHearing DEF HostLinkInv
<1>5. ASSUME NEW k \in 0 .. Len(hostBuf), SyncAfter(k, hostBuf), HostRound(Drop(hostBuf, k))
      PROVE  HostLinkInv'
  <2>1. reading
    BY Zenon DEF HostRuns, HostPass
  <2>2. HeardSoFar'
    BY <1>1, <1>2, <1>5, <2>1, RoundKeepsHearing
  <2> QED
    BY <1>3, <2>2, Zenon DEF HostLinkInv
<1> QED
  BY <1>4, <1>5, Zenon DEF HostRuns, HostPass

\* Every step of either end, of the client and of the server keeps it.
LEMMA LinkStep == LinkInv /\ [LinkNext]_linkVars => LinkInv'
<1> SUFFICES ASSUME LinkInv, [LinkNext]_linkVars PROVE LinkInv'
  OBVIOUS
<1>1. DevLinkInv'
  BY LinkDeviceStep DEF LinkInv
<1> DEFINE Goal == HostLinkInv' /\ served' \in Nat
<1>2. HostLinkInv /\ served \in Nat
  BY DEF LinkInv
<1>3. \A a \in Asks, checksum \in {<<>>, << 0 >>} : Ask(a, checksum) => Goal
  <2> SUFFICES ASSUME NEW a \in Asks, NEW checksum \in {<<>>, << 0 >>}, Ask(a, checksum) PROVE Goal
    OBVIOUS
  <2>1. UNCHANGED <<hostVars, wire, fed, said, spans, rubbish>> /\ served' = served
    BY Zenon DEF Ask
  <2> QED
    BY <1>2, <2>1, HearingStays
<1>4. Serve => Goal
  <2> SUFFICES ASSUME Serve PROVE Goal
    OBVIOUS
  <2>1. served' = served + 1
    BY Zenon DEF Serve
  <2>2. HostLinkInv'
    BY ServeKeepsHearing
  <2> QED
    BY <1>2, <2>1, <2>2
<1>5. \A f \in Pushes : Push(f) => Goal
  <2> SUFFICES ASSUME NEW f \in Pushes, Push(f) PROVE Goal
    OBVIOUS
  <2>1. served' = served
    BY Zenon DEF Push
  <2>2. HostLinkInv'
    BY PushKeepsHearing
  <2> QED
    BY <1>2, <2>1, <2>2
<1>6. \A n \in ChunkSizes : DeviceReads(n) => Goal
  <2> SUFFICES ASSUME NEW n \in ChunkSizes, DeviceReads(n) PROVE Goal
    OBVIOUS
  <2>1. UNCHANGED <<hostVars, wire, fed, said, spans, rubbish>> /\ served' = served
    BY Zenon DEF DeviceReads
  <2> QED
    BY <1>2, <2>1, HearingStays
<1>7. \A n \in ChunkSizes : HostReads(n) => Goal
  <2> SUFFICES ASSUME NEW n \in ChunkSizes, HostReads(n) PROVE Goal
    OBVIOUS
  <2>1. served' = served
    BY Zenon DEF HostReads
  <2> QED
    BY <1>2, <2>1, HostReadKeepsHearing
<1>8. DeviceRuns => Goal
  <2> SUFFICES ASSUME DeviceRuns PROVE Goal
    OBVIOUS
  <2>1. UNCHANGED <<hostVars, wire, fed, said, spans, rubbish>> /\ served' = served
    BY Zenon DEF DeviceRuns
  <2> QED
    BY <1>2, <2>1, HearingStays
<1>9. HostRuns => Goal
  <2> SUFFICES ASSUME HostRuns PROVE Goal
    OBVIOUS
  <2>1. served' = served
    BY Zenon DEF HostRuns
  <2> QED
    BY <1>2, <2>1, HostRunKeepsHearing
<1>10. UNCHANGED linkVars => Goal
  <2> SUFFICES ASSUME UNCHANGED linkVars PROVE Goal
    OBVIOUS
  <2>1. UNCHANGED <<hostVars, wire, fed, said, spans, rubbish>> /\ served' = served
    BY DEF linkVars
  <2> QED
    BY <1>2, <2>1, HearingStays
<1> HIDE DEF Goal
<1>11. LinkNext => Goal
  BY <1>3, <1>4, <1>5, <1>6, <1>7, <1>8, <1>9, Zenon DEF LinkNext
<1>12. LinkNext \/ UNCHANGED linkVars
  OBVIOUS
<1>13. Goal
  BY <1>10, <1>11, <1>12, Zenon
<1> QED
  BY <1>1, <1>13, Zenon DEF LinkInv, Goal

LEMMA LinkStart == LinkInit => LinkInv
<1> SUFFICES ASSUME LinkInit PROVE LinkInv
  OBVIOUS
<1> DEFINE n == Len(rubbish)
<1>1. /\ wire = rubbish /\ said = <<>> /\ spans = <<>> /\ fed = 0 /\ hostBuf = <<>>
      /\ reading = FALSE /\ heard = <<>> /\ served = 0 /\ rubbish \in Rubbish
  BY Zenon DEF LinkInit, HostInit
<1>2. rubbish \in Seq(Byte) /\ n \in Nat
  BY <1>1, LinkAssumption, LenProperties
<1>3. Len(<<>>) = 0 /\ (\A k \in 1 .. 0 : FALSE) /\ <<>> \in Seq(Marks) /\ <<>> \in Seq(Message)
  OBVIOUS
<1>4. Len(said) = 0 /\ Len(spans) = 0 /\ Len(heard) = 0
  BY <1>1, <1>3
<1>5. HostAt = 0
  <2>1. HostAt = 0 - 0
    BY <1>1, <1>3, Zenon DEF HostAt
  <2> QED
    BY <2>1
<1>6. Laid(wire, n, spans)
  <2>1. wire \in Seq(Byte) /\ Len(wire) = n /\ spans \in Seq(Marks)
    BY <1>1, <1>2, <1>3, Zenon
  <2> HIDE DEF n
  <2>2. n \in 0 .. Len(wire) /\ \A i \in n + 1 .. Len(wire) : FALSE
    BY <1>2, <2>1
  <2> QED
    BY <1>3, <1>4, <2>1, <2>2, Zenon DEF Laid
<1>7. Talk
  <2>1. \A i \in 1 .. Len(rubbish) : wire[i] = rubbish[i]
    BY <1>1, Zenon
  <2>2. said \in Seq(Message) /\ Len(wire) = Len(rubbish) /\ ~(Len(said) > 0)
    BY <1>1, <1>3, <1>4
  <2> QED
    BY <1>2, <1>3, <1>4, <1>6, <2>1, <2>2, Zenon DEF Talk
<1>8. Bearing(heard, 0)
  <2>1. CASE 0 < n
    BY <1>4, <2>1, Zenon DEF Bearing, InRubbish
  <2>2. CASE ~(0 < n)
    <3>1. n = 0 /\ n <= 0 /\ 0 \in 0 .. 0 /\ (\A k \in 0 + 1 .. 0 : FALSE)
      <4> HIDE DEF n
      <4> QED
        BY <1>2, <2>2
    <3>2. Between(spans, 0, 0)
      BY <1>3, <1>4, <3>1, Zenon DEF Between
    <3>3. Follows(heard, 0)
      BY <1>3, <1>4, Zenon DEF Follows
    <3>4. InStepAt(heard, 0, 0)
      BY <1>3, <3>2, <3>3, Zenon DEF InStepAt
    <3>5. InStep(heard, 0)
      BY <1>4, <3>1, <3>4, Zenon DEF InStep
    <3> QED
      BY <3>5, Zenon DEF Bearing
  <2> QED
    BY <2>1, <2>2
<1>9. HeardSoFar
  <2>1. fed \in 0 .. Len(wire) /\ HostAt \in 0 .. fed
    <3>1. \A x \in Nat : 0 \in 0 .. x /\ 0 \in 0 .. 0
      OBVIOUS
    <3> QED
      BY <1>1, <1>2, <1>5, <3>1, Zenon
  <2>2. hostBuf = SubSeq(wire, HostAt + 1, fed)
    <3>1. Ahead(SubSeq(wire, HostAt + 1, fed), HostAt, fed)
      BY <1>7, <2>1, StretchIsAhead
    <3>2. /\ SubSeq(wire, HostAt + 1, fed) \in Seq(Byte)
          /\ Len(SubSeq(wire, HostAt + 1, fed)) = fed - HostAt
      BY <3>1, Zenon DEF Ahead
    <3>3. fed - HostAt = 0
      BY <1>1, <1>5
    <3>4. SubSeq(wire, HostAt + 1, fed) = <<>>
      BY <3>2, <3>3, EmptySeq
    <3> QED
      BY <1>1, <3>4, Zenon
  <2>3. reading \in BOOLEAN /\ heard \in Seq(Message)
    BY <1>1, <1>3, Zenon
  <2>4. \A k \in 1 .. Len(said) : FALSE
    BY <1>3, <1>4, Zenon
  <2> QED
    BY <1>5, <1>8, <2>1, <2>2, <2>3, <2>4, Zenon DEF HeardSoFar
<1>10. DevLinkInv
  BY LinkDeviceInit
<1>11. served \in Nat
  BY <1>1
<1> QED
  BY <1>7, <1>9, <1>10, <1>11, Zenon DEF LinkInv, HostLinkInv

LEMMA LinkHolds == LinkSpec => []LinkInv
BY LinkStart, LinkStep, PTL DEF LinkSpec

-----------------------------------------------------------------------------
(* What the invariant says of what was heard.                              *)

\* A sequence that is the stretch of another.
LEMMA SameRun ==
  ASSUME NEW S, NEW s \in Seq(S), NEW t \in Seq(S), NEW i \in Nat \ {0}, NEW j \in Nat,
         i <= j + 1, j <= Len(s), Len(t) = j - i + 1, \A k \in 1 .. j - i + 1 : t[k] = s[i + k - 1]
  PROVE  t = SubSeq(s, i, j)
<1> DEFINE u == SubSeq(s, i, j)
<1>1. Len(s) \in Nat /\ \A n \in 1 .. Len(s) : s[n] \in S
  BY LenProperties, ElementOfSeq
<1>2. i \in Int /\ j \in Int /\ \A n \in i .. j : s[n] \in S
  <2>1. i \in Int /\ j \in Int /\ \A n \in i .. j : n \in 1 .. Len(s)
    BY <1>1
  <2> QED
    BY <1>1, <2>1
<1>3. /\ u \in Seq(S) /\ Len(u) = IF i <= j THEN j - i + 1 ELSE 0
      /\ \A n \in 1 .. j - i + 1 : u[n] = s[i + n - 1]
  BY <1>2, SubSeqProperties
<1> HIDE DEF u
<1>4. Len(t) = Len(u)
  BY <1>3
<1>5. \A k \in 1 .. Len(t) : t[k] = u[k]
  BY <1>3
<1>6. t = u
  BY <1>3, <1>4, <1>5, SeqEqual
<1> QED
  BY <1>6 DEF u

\* How many messages are behind the host.
LEMMA DoneCounts ==
  ASSUME HostLinkInv
  PROVE  /\ Done = Whole(spans, HostAt) /\ Done \in Nat /\ Done <= Len(said)
         /\ \A k \in 1 .. Len(said) : spans[k].last <= HostAt <=> k <= Done
         /\ \A n \in 0 .. Len(said) : Between(spans, n, HostAt) => Done = n
         /\ HostAt < Len(rubbish) => Done = 0
<1> DEFINE p == HostAt
<1>1. Talk /\ HeardSoFar
  BY DEF HostLinkInv
<1>2. p \in Nat
  BY <1>1, HostNumbers
<1>3. /\ Len(spans) = Len(said) /\ Len(said) \in Nat /\ Len(rubbish) \in Nat
      /\ \A k \in 1 .. Len(said) : spans[k].first \in Nat /\ spans[k].last \in Nat
      /\ Laid(wire, Len(rubbish), spans)
  BY <1>1, TalkNumbers DEF Talk
<1>4. Done = Whole(spans, p)
  BY Zenon DEF Done, HostAt
<1> HIDE DEF p
<1>5. /\ Done \in Nat /\ Done <= Len(said)
      /\ \A k \in 1 .. Len(said) : spans[k].last <= p <=> k <= Done
  BY <1>2, <1>3, <1>4, WholeIs
<1>6. ASSUME NEW n \in 0 .. Len(said), Between(spans, n, p)
      PROVE  Done = n
  BY <1>2, <1>3, <1>4, <1>6, BetweenCounts
<1>7. ASSUME p < Len(rubbish)
      PROVE  Done = 0
  <2> SUFFICES ASSUME Done # 0 PROVE FALSE
    OBVIOUS
  <2>1. Done \in 1 .. Len(said) /\ Done <= Done
    BY <1>3, <1>5
  <2>2. spans[Done].last <= p
    BY <1>5, <2>1
  <2>3. Len(rubbish) < spans[Done].first /\ spans[Done].first < spans[Done].last
    BY <1>1, <2>1, TalkOrder
  <2>4. \A v, w, x, y \in Nat : v < w /\ w < x /\ x < y => ~(y <= v)
    OBVIOUS
  <2>5. spans[Done].first \in Nat /\ spans[Done].last \in Nat
    BY <1>3, <2>1
  <2> QED
    BY <1>2, <1>3, <1>7, <2>2, <2>3, <2>4, <2>5, Zenon
<1> QED
  BY <1>4, <1>5, <1>6, <1>7 DEF p

LEMMA HeardInStep ==
  ASSUME HostLinkInv, FalseHeads = {}
  PROVE  heard = Prefix(said, Done)
<1> DEFINE p == HostAt
           D == Done
<1>1. Talk /\ HeardSoFar
  BY DEF HostLinkInv
<1>2. heard \in Seq(Message) /\ Bearing(heard, p)
  BY <1>1, HostNumbers
<1>3. said \in Seq(Message) /\ Len(said) \in Nat
  BY <1>1, TalkNumbers, Zenon DEF Talk
<1>4. /\ D \in Nat /\ D <= Len(said)
      /\ \A n \in 0 .. Len(said) : Between(spans, n, p) => D = n
      /\ p < Len(rubbish) => D = 0
  BY DoneCounts
<1> HIDE DEF p, D
<1>5. Len(heard) = D /\ \A k \in 1 .. D : heard[k] = said[k]
  <2>1. ~Inside(p) /\ ~Astray(p)
    BY Zenon DEF Inside, Astray
  <2>2. CASE InRubbish(heard, p)
    <3>1. Len(heard) = 0 /\ D = 0
      BY <1>4, <2>2, Zenon DEF InRubbish
    <3>2. \A k \in 1 .. 0 : FALSE
      OBVIOUS
    <3> QED
      BY <3>1, <3>2, Zenon
  <2>3. CASE InStep(heard, p)
    <3>1. PICK n \in 0 .. Len(said) : InStepAt(heard, p, n)
      BY <2>3, Zenon DEF InStep
    <3>2. D = n /\ Follows(heard, n)
      BY <1>4, <3>1, Zenon DEF InStepAt
    <3> QED
      BY <3>2, Zenon DEF Follows
  <2> QED
    BY <1>2, <2>1, <2>2, <2>3, Zenon DEF Bearing
<1>6. heard = SubSeq(said, 1, D)
  <2>1. /\ 1 \in Nat \ {0} /\ 1 <= D + 1 /\ D <= Len(said) /\ Len(heard) = D - 1 + 1
        /\ \A k \in 1 .. D - 1 + 1 : heard[k] = said[1 + k - 1]
    <3>1. D - 1 + 1 = D /\ \A k \in 1 .. D : 1 + k - 1 = k
      BY <1>4
    <3> QED
      BY <1>4, <1>5, <3>1
  <2> QED
    BY <1>2, <1>3, <1>4, <2>1, SameRun
<1> QED
  BY <1>6, Zenon DEF Prefix, D

LEMMA HeardAgain ==
  ASSUME HostLinkInv, NEW first \in 1 .. Done,
         \A k \in 1 .. Done : Plain(said[k]),
         \A i \in FalseHeads : Claimed(i) < spans[first].first
  PROVE  EndsWith(heard, SubSeq(said, first, Done))
<1> DEFINE p == HostAt
           D == Done
<1>1. Talk /\ HeardSoFar
  BY DEF HostLinkInv
<1>2. heard \in Seq(Message) /\ Bearing(heard, p) /\ p \in Nat
  BY <1>1, HostNumbers
<1>3. /\ said \in Seq(Message) /\ Len(said) \in Nat /\ rubbish \in Seq(Byte)
      /\ \A k \in 1 .. Len(said) : spans[k].first \in Nat /\ spans[k].last \in Nat
  BY <1>1, TalkNumbers, Zenon DEF Talk
<1>4. /\ D \in Nat /\ D <= Len(said) /\ first \in 1 .. D
      /\ \A k \in 1 .. Len(said) : spans[k].last <= p <=> k <= D
      /\ \A n \in 0 .. Len(said) : Between(spans, n, p) => D = n
      /\ p < Len(rubbish) => D = 0
  BY DoneCounts
<1>5. \A k \in 1 .. D : Plain(said[k])
  OBVIOUS
<1> HIDE DEF p, D
<1>6. first \in Nat /\ 1 <= first /\ first <= D /\ first \in 1 .. Len(said) /\ D # 0
  BY <1>3, <1>4
<1>7. ~InRubbish(heard, p)
  BY <1>4, <1>6, Zenon DEF InRubbish
<1>8. ~Inside(p)
  <2> SUFFICES ASSUME Inside(p) PROVE FALSE
    OBVIOUS
  <2>1. PICK n \in 1 .. Len(said) :
          /\ spans[n].first <= p /\ p < spans[n].last
          /\ \E i \in FalseHeads : spans[n].first <= Claimed(i)
    BY Zenon DEF Inside
  <2>2. PICK i \in FalseHeads : spans[n].first <= Claimed(i)
    BY <2>1
  <2>3. Claimed(i) \in Int /\ Claimed(i) < spans[first].first
    BY <1>3, <2>2, ClaimIsNumber
  <2>4. ~(n <= D)
    <3>1. ~(spans[n].last <= p)
      BY <1>2, <1>3, <2>1
    <3> QED
      BY <1>4, <3>1, Zenon
  <2>5. n \in first + 1 .. Len(said)
    BY <1>3, <1>4, <1>6, <2>4
  <2>6. spans[first].first < spans[first].last /\ spans[first].last < spans[n].first
    BY <1>1, <1>6, <2>5, TalkOrder
  <2>7. /\ spans[first].first \in Nat /\ spans[first].last \in Nat /\ spans[n].first \in Nat
    BY <1>3, <1>6, Zenon
  <2>8. \A c \in Int, x, y, z \in Nat : c < x /\ x < y /\ y < z => ~(z <= c)
    OBVIOUS
  <2> QED
    BY <2>2, <2>3, <2>6, <2>7, <2>8, Zenon
<1>9. ~Astray(p)
  <2> SUFFICES ASSUME Astray(p) PROVE FALSE
    OBVIOUS
  <2>1. PICK k \in 1 .. Len(said) : spans[k].last <= p /\ ~Plain(said[k])
    BY Zenon DEF Astray
  <2>2. k \in 1 .. D
    <3>1. k <= D
      BY <1>4, <2>1, Zenon
    <3> QED
      BY <1>3, <1>4, <3>1
  <2> QED
    BY <1>5, <2>1, <2>2, Zenon
<1>10. Ends(heard, first, D)
  <2>1. InStep(heard, p)
    BY <1>2, <1>7, <1>8, <1>9, Zenon DEF Bearing
  <2>2. PICK n \in 0 .. Len(said) : InStepAt(heard, p, n)
    BY <2>1, Zenon DEF InStep
  <2>3. D = n
    BY <1>4, <2>2, Zenon DEF InStepAt
  <2> QED
    BY <1>4, <2>2, <2>3, Zenon DEF InStepAt
<1> DEFINE L == Len(heard)
           m == D - first + 1
           t == SubSeq(said, first, D)
<1>11. /\ t \in Seq(Message) /\ Len(t) = m /\ m \in Nat
       /\ \A k \in 1 .. m : t[k] = said[first + k - 1]
  <2>1. \A k \in first .. D : said[k] \in Message
    <3>1. \A k \in first .. D : k \in 1 .. Len(said)
      BY <1>3, <1>4, <1>6
    <3> QED
      BY <1>3, <3>1, ElementOfSeq
  <2>2. first \in Int /\ D \in Int
    BY <1>4, <1>6
  <2>3. /\ t \in Seq(Message) /\ Len(t) = IF first <= D THEN D - first + 1 ELSE 0
        /\ \A k \in 1 .. D - first + 1 : t[k] = said[first + k - 1]
    BY <2>1, <2>2, SubSeqProperties
  <2> HIDE DEF t
  <2> QED
    BY <1>4, <1>6, <2>3
<1>12. L \in Nat /\ m <= L /\ \A k \in first .. D : heard[L - (D - k)] = said[k]
  <2>1. L \in Nat
    BY <1>2, LenProperties
  <2> QED
    BY <1>10, <2>1, Zenon DEF Ends
<1> HIDE DEF t, L
<1>13. \A k \in 1 .. m : t[k] = heard[L - m + 1 + k - 1]
  <2> SUFFICES ASSUME NEW k \in 1 .. m PROVE t[k] = heard[L - m + 1 + k - 1]
    OBVIOUS
  <2> DEFINE x == first + k - 1
  <2>1. x \in first .. D /\ L - (D - x) = L - m + 1 + k - 1
    BY <1>4, <1>6, <1>11, <1>12
  <2>2. t[k] = said[x]
    BY <1>11
  <2> HIDE DEF x, m
  <2>3. heard[L - (D - x)] = said[x]
    BY <1>12, <2>1
  <2> QED
    BY <2>1, <2>2, <2>3
<1> HIDE DEF m
<1>14. t = SubSeq(heard, L - m + 1, L)
  <2> DEFINE i == L - m + 1
  <2>1. i \in Nat \ {0} /\ i <= L + 1 /\ L <= Len(heard) /\ L - i + 1 = m
    BY <1>11, <1>12 DEF L
  <2>2. \A k \in 1 .. m : t[k] = heard[i + k - 1]
    BY <1>13
  <2> HIDE DEF i
  <2>3. Len(t) = L - i + 1 /\ \A k \in 1 .. L - i + 1 : t[k] = heard[i + k - 1]
    BY <1>11, <2>1, <2>2, Zenon
  <2>4. t = SubSeq(heard, i, L)
    BY <1>2, <1>11, <1>12, <2>1, <2>3, SameRun
  <2> QED
    BY <2>4 DEF i
<1>15. EndsWith(heard, t)
  <2>1. Len(t) <= Len(heard)
    BY <1>11, <1>12 DEF L
  <2>2. Drop(heard, Len(heard) - Len(t)) = t
    BY <1>11, <1>14, Zenon DEF Drop, L
  <2> QED
    BY <2>1, <2>2, Zenon DEF EndsWith
<1> QED
  BY <1>15 DEF t, D

LEMMA DeviceHoldsNothing ==
  ASSUME DevLinkInv, ~serving
  PROVE  commands = Prefix(asked, Whole(asks, got))
<1> DEFINE c == Len(commands)
<1>1. PICK q \in 0 .. Len(spoken) : Speech(q) /\ Understood(q)
  BY DEF DevLinkInv
<1>2. /\ got \in Nat /\ DevAt \in Nat /\ DevAt <= got /\ Len(asks) = Len(asked) /\ Len(asked) \in Nat
      /\ c \in Nat /\ c <= Len(asked)
  BY <1>1, DeviceNumbers
<1>3. /\ commands \in Seq(Asks) /\ \A k \in 1 .. c : commands[k] = asked[k]
      /\ Between(asks, c, DevAt) /\ \A k \in c + 1 .. Len(asked) : got < asks[k].last
      /\ asked \in Seq(Asks) /\ Laid(spoken, q, asks)
  BY <1>1, Zenon DEF Speech, Understood
<1> HIDE DEF c
<1>4. asks \in Seq(Marks) /\ \A k \in 1 .. Len(asks) : asks[k].last \in Nat
  BY <1>3, LaidNumbers
<1>5. \A k \in 1 .. c : asks[k].last <= got
  <2> SUFFICES ASSUME NEW k \in 1 .. c PROVE asks[k].last <= got
    OBVIOUS
  <2>1. k \in 1 .. Len(asks)
    BY <1>2
  <2>2. asks[k].last <= DevAt /\ asks[k].last \in Nat
    BY <1>3, <1>4, <2>1, Zenon DEF Between
  <2>3. \A x, y, z \in Nat : x <= y /\ y <= z => x <= z
    OBVIOUS
  <2> QED
    BY <1>2, <2>2, <2>3, Zenon
<1>6. Whole(asks, got) = c
  <2>1. c \in 0 .. Len(asks) /\ \A k \in c + 1 .. Len(asks) : got < asks[k].last
    BY <1>2, <1>3
  <2> QED
    BY <1>2, <1>4, <1>5, <2>1, WholeCount
<1>7. commands = SubSeq(asked, 1, c)
  <2>1. /\ 1 \in Nat \ {0} /\ 1 <= c + 1 /\ c <= Len(asked)
        /\ c - 1 + 1 = c /\ \A k \in 1 .. c : 1 + k - 1 = k
    BY <1>2
  <2>2. Len(commands) = c - 1 + 1 /\ \A k \in 1 .. c - 1 + 1 : commands[k] = asked[1 + k - 1]
    BY <1>3, <2>1 DEF c
  <2> QED
    BY <1>2, <1>3, <2>1, <2>2, SameRun
<1> QED
  BY <1>6, <1>7, Zenon DEF Prefix

LEMMA HostHoldsNothing ==
  ASSUME HostLinkInv, ~reading, FalseHeads = {}
  PROVE  Whole(spans, fed) = Done
<1> DEFINE p == HostAt
           D == Done
<1>1. Talk /\ HeardSoFar
  BY DEF HostLinkInv
<1>2. p \in Nat /\ fed \in Nat /\ p <= fed
  BY <1>1, HostNumbers
<1>3. /\ spans \in Seq(Marks) /\ Len(spans) = Len(said) /\ Len(said) \in Nat
      /\ \A k \in 1 .. Len(said) : spans[k].last \in Nat
  BY <1>1, TalkNumbers DEF Talk, Laid
<1>4. /\ D \in Nat /\ D <= Len(said) /\ \A k \in 1 .. Len(said) : spans[k].last <= p <=> k <= D
  BY DoneCounts
<1>5. \A k \in 1 .. Len(said) : spans[k].last <= fed => spans[k].last <= p
  BY <1>1, Zenon DEF HeardSoFar
<1> HIDE DEF p, D
<1>6. \A k \in 1 .. D : spans[k].last <= fed
  <2> SUFFICES ASSUME NEW k \in 1 .. D PROVE spans[k].last <= fed
    OBVIOUS
  <2>1. k \in 1 .. Len(said) /\ k <= D
    BY <1>3, <1>4
  <2>2. spans[k].last <= p /\ spans[k].last \in Nat
    BY <1>3, <1>4, <2>1, Zenon
  <2>3. \A x, y, z \in Nat : x <= y /\ y <= z => x <= z
    OBVIOUS
  <2> QED
    BY <1>2, <2>2, <2>3, Zenon
<1>7. \A k \in D + 1 .. Len(spans) : fed < spans[k].last
  <2> SUFFICES ASSUME NEW k \in D + 1 .. Len(spans) PROVE fed < spans[k].last
    OBVIOUS
  <2>1. k \in 1 .. Len(said) /\ ~(k <= D)
    BY <1>3, <1>4
  <2>2. ~(spans[k].last <= fed) /\ spans[k].last \in Nat
    BY <1>3, <1>4, <1>5, <2>1, Zenon
  <2>3. \A x, y \in Nat : ~(x <= y) => y < x
    OBVIOUS
  <2> QED
    BY <1>2, <2>2, <2>3, Zenon
<1>8. D \in 0 .. Len(spans)
  BY <1>3, <1>4
<1>9. Whole(spans, fed) = D
  BY <1>2, <1>3, <1>6, <1>7, <1>8, WholeCount
<1> QED
  BY <1>9 DEF D

\* For every cut of the stream and whatever the payloads look like, a host that
\* joins without a false head in what it heard first hears each message once,
\* in order, unaltered; behind a false head every plain message past its reach
\* is heard.
THEOREM RepliesAreRecovered == LinkSpec => []RepliesRecover
<1>1. LinkInv => RepliesRecover
  BY HeardInStep, HeardAgain, Zenon DEF LinkInv, RepliesRecover
<1> QED
  BY <1>1, LinkHolds, PTL

\* Between calls, whatever has come whole has been acted on and heard: neither
\* decoder needs a byte more.
THEOREM NothingIsHeldBack == LinkSpec => []NothingHeldBack
<1>1. LinkInv => NothingHeldBack
  <2> SUFFICES ASSUME LinkInv PROVE NothingHeldBack
    OBVIOUS
  <2>1. DevLinkInv /\ HostLinkInv
    BY DEF LinkInv
  <2>2. ~serving => commands = Prefix(asked, Whole(asks, got))
    BY <2>1, DeviceHoldsNothing
  <2>3. ~reading /\ FalseHeads = {} => heard = Prefix(said, Whole(spans, fed))
    BY <2>1, HeardInStep, HostHoldsNothing
  <2> QED
    BY <2>2, <2>3 DEF NothingHeldBack
<1> QED
  BY <1>1, LinkHolds, PTL

-----------------------------------------------------------------------------
(* The link is made of its ends.                                           *)

LEMMA LinkMovesHost == LinkInv /\ [LinkNext]_linkVars => [HostNext]_hostVars
<1> SUFFICES ASSUME LinkInv, [LinkNext]_linkVars PROVE HostNext \/ UNCHANGED hostVars
  OBVIOUS
<1> DEFINE Goal == HostNext \/ UNCHANGED hostVars
<1>1. \A n \in ChunkSizes : HostReads(n) => Goal
  <2> SUFFICES ASSUME NEW n \in ChunkSizes, HostReads(n) PROVE Goal
    OBVIOUS
  <2> DEFINE chunk == SubSeq(wire, fed + 1, fed')
             from == fed + 1
  <2>1. wire \in Seq(Byte) /\ fed \in Nat /\ n \in Nat /\ fed < Len(wire)
    BY LinkAssumption, HostNumbers DEF LinkInv, HostLinkInv, HostReads
  <2>2. fed' \in Nat /\ fed <= fed' /\ fed' <= Len(wire)
    BY <2>1, ReachBounds DEF HostReads
  <2>3. from \in Nat \ {0} /\ from <= fed' + 1
    <3>1. \A x, y \in Nat : x <= y => x + 1 \in Nat \ {0} /\ x + 1 <= y + 1
      OBVIOUS
    <3> QED
      BY <2>1, <2>2, <3>1, Zenon
  <2> HIDE DEF from
  <2>4. SubSeq(wire, from, fed') \in Seq(Byte)
    BY <2>1, <2>2, <2>3, Stretch
  <2>5. chunk \in Seq(Byte) /\ HostFeed(chunk)
    BY <2>4 DEF HostReads, from
  <2> QED
    BY <2>5, Zenon DEF HostNext
<1>2. HostRuns => Goal
  BY Zenon DEF HostRuns, HostNext
<1>3. \A a \in Asks, checksum \in {<<>>, << 0 >>} : Ask(a, checksum) => Goal
  BY Zenon DEF Ask
<1>4. Serve \/ (\E f \in Pushes : Push(f)) => Goal
  BY Zenon DEF Serve, Push
<1>5. DeviceRuns \/ (\E n \in ChunkSizes : DeviceReads(n)) => Goal
  BY Zenon DEF DeviceRuns, DeviceReads
<1>6. UNCHANGED linkVars => Goal
  BY DEF linkVars
<1> HIDE DEF Goal
<1>7. LinkNext => Goal
  BY <1>1, <1>2, <1>3, <1>4, <1>5, Zenon DEF LinkNext
<1>8. LinkNext \/ UNCHANGED linkVars
  OBVIOUS
<1>9. Goal
  BY <1>6, <1>7, <1>8, Zenon
<1> QED
  BY <1>9 DEF Goal

LEMMA LinkMovesDevice == LinkInv /\ [LinkNext]_linkVars => [DevNext]_devVars
<1> SUFFICES ASSUME LinkInv, [LinkNext]_linkVars PROVE DevNext \/ UNCHANGED devVars
  OBVIOUS
<1> DEFINE Goal == DevNext \/ UNCHANGED devVars
<1>1. \A n \in ChunkSizes : DeviceReads(n) => Goal
  <2> SUFFICES ASSUME NEW n \in ChunkSizes, DeviceReads(n) PROVE Goal
    OBVIOUS
  <2> DEFINE chunk == SubSeq(spoken, got + 1, got')
             from == got + 1
  <2>1. spoken \in Seq(Byte) /\ got \in Nat /\ n \in Nat /\ got < Len(spoken)
    <3>1. PICK q \in 0 .. Len(spoken) : Speech(q) /\ Understood(q)
      BY DEF LinkInv, DevLinkInv
    <3> QED
      BY <3>1, LinkAssumption, DeviceNumbers DEF DeviceReads
  <2>2. got' \in Nat /\ got <= got' /\ got' <= Len(spoken)
    BY <2>1, ReachBounds DEF DeviceReads
  <2>3. from \in Nat \ {0} /\ from <= got' + 1
    <3>1. \A x, y \in Nat : x <= y => x + 1 \in Nat \ {0} /\ x + 1 <= y + 1
      OBVIOUS
    <3> QED
      BY <2>1, <2>2, <3>1, Zenon
  <2> HIDE DEF from
  <2>4. SubSeq(spoken, from, got') \in Seq(Byte)
    BY <2>1, <2>2, <2>3, Stretch
  <2>5. chunk \in Seq(Byte) /\ DevFeed(chunk)
    BY <2>4 DEF DeviceReads, from
  <2> QED
    BY <2>5, Zenon DEF DevNext
<1>2. DeviceRuns => Goal
  BY Zenon DEF DeviceRuns, DevNext
<1>3. \A a \in Asks, checksum \in {<<>>, << 0 >>} : Ask(a, checksum) => Goal
  BY Zenon DEF Ask
<1>4. Serve \/ (\E f \in Pushes : Push(f)) => Goal
  BY Zenon DEF Serve, Push
<1>5. HostRuns \/ (\E n \in ChunkSizes : HostReads(n)) => Goal
  BY Zenon DEF HostRuns, HostReads
<1>6. UNCHANGED linkVars => Goal
  BY DEF linkVars
<1> HIDE DEF Goal
<1>7. LinkNext => Goal
  BY <1>1, <1>2, <1>3, <1>4, <1>5, Zenon DEF LinkNext
<1>8. LinkNext \/ UNCHANGED linkVars
  OBVIOUS
<1>9. Goal
  BY <1>6, <1>7, <1>8, Zenon
<1> QED
  BY <1>9 DEF Goal

\* Whatever the connection does, each of its ends is the decoder of its own
\* module, fed some bytes.
THEOREM LinkImplementsEnds == LinkSpec => DevSpec /\ HostSpec
<1>1. LinkInit => DevInit /\ HostInit
  BY DEF LinkInit
<1> QED
  BY <1>1, LinkHolds, LinkMovesDevice, LinkMovesHost, PTL DEF LinkSpec, DevSpec, HostSpec

\* So neither end's buffer ever exceeds its bound on a connection, and no
\* handshake is left in the device's.
THEOREM LinkBuffersBounded == LinkSpec => [](NoSyncBuffered /\ DevBounded /\ HostBounded)
BY LinkImplementsEnds, NoSyncEverBuffered, DevAlwaysBounded, HostAlwaysBounded, PTL
=============================================================================
