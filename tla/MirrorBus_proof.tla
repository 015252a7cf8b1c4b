-------------------------- MODULE MirrorBus_proof --------------------------
(***************************************************************************)
(* Proofs about MirrorBus: what moves a verdict, and what earns one.       *)
(***************************************************************************)
EXTENDS MirrorBus, TLAPS

\* What a behaviour is made of, and the invariant the proof needs: the sample
\* either side keeps is the one that arrived last.
SentBytes  == {<<>>} \cup WrongPayloads \cup (Sender \X Values)
Stamps  == Int \cup {Absent}
Samples   == [bytes : SentBytes, ts : Stamps]
PairStates == [mirror : Samples, source : Samples, is_valid : BOOLEAN \cup {Absent},
           mismatched : SUBSET Int, consecutive : Nat]

MirrorTypeOK ==
  /\ states \in [Tracked -> PairStates]
  /\ round \in Nat /\ offset \in Nat /\ rewinds \in Nat
  /\ value \in Values
  /\ wrong \in [Tracked -> WrongPayloads \cup {Absent}]
  /\ newest \in [Sender -> Stamps]

SamplesAreNewest ==
  \A m \in Tracked : states[m].mirror.ts = newest[m] /\ states[m].source.ts = newest[SourceOf(m)]

MirrorInv == MirrorTypeOK /\ SamplesAreNewest

\* A window is a span of time.
LEMMA WindowNat == \A m \in Tracked : Window(m) \in Nat
BY CatalogAssumption DEF Window, Tracked, SourceOf

\* The bytes that are compared are numbered.
LEMMA IndicesInt == \A m : inherited_byte_indices(m) \subseteq Int
BY DEF inherited_byte_indices, Reached

\* A comparison keeps the type and the samples of a pair.
LEMMA CompareType ==
  ASSUME NEW m \in Tracked, NEW s \in PairStates
  PROVE  /\ compare(m, s) \in PairStates
         /\ compare(m, s).mirror = s.mirror /\ compare(m, s).source = s.source
<1>1. CASE ~Comparable(m, s)
  BY <1>1 DEF compare
<1>2. CASE Comparable(m, s)
  <2>1. PICK d \in SUBSET Int : compare(m, s) = Judged(s, d, 3)
    BY <1>2, IndicesInt DEF compare, Verdict, Differing, MISMATCH_LATCH
  <2>2. PICK c \in Nat, v \in BOOLEAN \cup {Absent} :
           compare(m, s) = [s EXCEPT !.mismatched = d, !.consecutive = c, !.is_valid = v]
    <3> DEFINE Left(c, v) == [s EXCEPT !.mismatched = d, !.consecutive = c, !.is_valid = v]
    <3>1. CASE d = {}
      <4>1. compare(m, s) = Left(0, TRUE)
        BY <2>1, <3>1 DEF Judged
      <4>2. 0 \in Nat /\ TRUE \in BOOLEAN \cup {Absent}
        OBVIOUS
      <4> QED
        BY <4>1, <4>2, Zenon
    <3>2. CASE d # {} /\ s.consecutive + 1 >= 3
      <4>1. compare(m, s) = Left(s.consecutive + 1, FALSE)
        BY <2>1, <3>2 DEF Judged
      <4>2. s.consecutive + 1 \in Nat /\ FALSE \in BOOLEAN \cup {Absent}
        BY DEF PairStates
      <4> QED
        BY <4>1, <4>2, Zenon
    <3>3. CASE d # {} /\ ~(s.consecutive + 1 >= 3)
      <4>1. compare(m, s) = Left(s.consecutive + 1, s.is_valid)
        BY <2>1, <3>3 DEF Judged
      <4>2. s.consecutive + 1 \in Nat /\ s.is_valid \in BOOLEAN \cup {Absent}
        BY DEF PairStates
      <4> QED
        BY <4>1, <4>2, Zenon
    <3> QED
      BY <3>1, <3>2, <3>3
  <2> QED
    BY <2>2 DEF PairStates
<1> QED
  BY <1>1, <1>2

\* A comparison changes a verdict only within the window.
LEMMA CompareChanges ==
  ASSUME NEW m \in Tracked, NEW s \in PairStates, compare(m, s).is_valid # s.is_valid
  PROVE  /\ s.mirror.ts \in Int /\ s.source.ts \in Int
         /\ s.mirror.ts - s.source.ts <= Window(m)
         /\ s.source.ts - s.mirror.ts <= Window(m)
<1>1. Comparable(m, s)
  BY DEF compare
<1>2. s.mirror.ts \in Int /\ s.source.ts \in Int
  BY <1>1 DEF Comparable, PairStates, Samples, Stamps
<1>3. Apart(s) <= Window(m)
  BY <1>1 DEF Comparable
<1> QED
  BY <1>2, <1>3, WindowNat DEF Apart

\* A frame recorded in a pair is its newest sample, on the side or sides it is
\* of; the verdict changes only when the other side's is within the window.
LEMMA ObservedType ==
  ASSUME MirrorTypeOK, NEW m \in Tracked, NEW f, NEW sample \in Samples, sample.ts \in Int
  PROVE  /\ Observed(m, f, sample) \in PairStates
         /\ Observed(m, f, sample).mirror = IF f = m THEN sample ELSE states[m].mirror
         /\ Observed(m, f, sample).source = IF f = SourceOf(m) THEN sample ELSE states[m].source
<1> DEFINE first == [states[m] EXCEPT !["mirror"] = sample]
           own == IF f = m THEN compare(m, first) ELSE states[m]
           second == [own EXCEPT !["source"] = sample]
<1>1. states[m] \in PairStates
  BY DEF MirrorTypeOK
<1>2. first \in PairStates /\ first.mirror = sample /\ first.source = states[m].source
  BY <1>1 DEF PairStates
<1>3. own \in PairStates /\ own.mirror = (IF f = m THEN sample ELSE states[m].mirror) /\ own.source = states[m].source
  <2> HIDE DEF first
  <2> QED
    BY <1>1, <1>2, CompareType
<1>4. second \in PairStates /\ second.source = sample /\ second.mirror = own.mirror
  <2> HIDE DEF own
  <2> QED
    BY <1>3 DEF PairStates
<1>5. Observed(m, f, sample) = IF f = SourceOf(m) THEN compare(m, second) ELSE own
  BY DEF Observed, recorded
<1> HIDE DEF own, second
<1> QED
  BY <1>3, <1>4, <1>5, CompareType

LEMMA ObservedChanges ==
  ASSUME MirrorTypeOK, NEW m \in Tracked, NEW f, NEW sample \in Samples, sample.ts \in Int,
         Observed(m, f, sample).is_valid # states[m].is_valid
  PROVE  LET a == Observed(m, f, sample).mirror.ts
             b == Observed(m, f, sample).source.ts
         IN  a \in Int /\ b \in Int /\ a - b <= Window(m) /\ b - a <= Window(m)
<1> DEFINE first == [states[m] EXCEPT !["mirror"] = sample]
           own == IF f = m THEN compare(m, first) ELSE states[m]
           second == [own EXCEPT !["source"] = sample]
<1>1. states[m] \in PairStates
  BY DEF MirrorTypeOK
<1>2. first \in PairStates /\ first.mirror = sample /\ first.source = states[m].source /\ first.is_valid = states[m].is_valid
  BY <1>1 DEF PairStates
<1>3. /\ own \in PairStates /\ own.source = states[m].source
      /\ own.is_valid # states[m].is_valid =>
           own.mirror = sample /\ compare(m, first).is_valid # first.is_valid
      /\ own.mirror = (IF f = m THEN sample ELSE states[m].mirror)
  <2> HIDE DEF first
  <2> QED
    BY <1>1, <1>2, CompareType
<1>4. second \in PairStates /\ second.source = sample /\ second.mirror = own.mirror /\ second.is_valid = own.is_valid
  <2> HIDE DEF own
  <2> QED
    BY <1>3 DEF PairStates
<1>5. Observed(m, f, sample) = IF f = SourceOf(m) THEN compare(m, second) ELSE own
  BY DEF Observed, recorded
<1> HIDE DEF own, first, second
<1>6. CASE f = SourceOf(m) /\ compare(m, second).is_valid # second.is_valid
  BY <1>4, <1>5, <1>6, CompareType, CompareChanges
<1>7. CASE own.is_valid # states[m].is_valid /\ f # SourceOf(m)
  BY <1>2, <1>3, <1>5, <1>7, CompareChanges
<1>8. CASE own.is_valid # states[m].is_valid /\ f = SourceOf(m)
  \* The frame is its own mirror: both sides are this sample.
  <2>1. Observed(m, f, sample).mirror = sample /\ Observed(m, f, sample).source = sample
    BY <1>3, <1>4, <1>5, <1>8, CompareType
  <2> QED
    BY <2>1, WindowNat
<1> QED
  BY <1>4, <1>5, <1>6, <1>7, <1>8

\* What a frame that arrives does to the pairs, on the bus's own terms.
LEMMA ArriveObserves ==
  ASSUME MirrorTypeOK, NEW f \in Sender, Arrive(f)
  PROVE  \E sample \in Samples :
           /\ sample.ts \in Int
           /\ states' = [m \in Tracked |-> Observed(m, f, sample)]
           /\ newest' = [newest EXCEPT ![f] = sample.ts]
           /\ sample.bytes = Payload(f) /\ sample.ts = round * Period + offset'
<1> DEFINE now == round * Period + offset'
           sample == [bytes |-> Payload(f), ts |-> now]
<1>1. offset' \in Int /\ round * Period \in Int
  BY BusAssumption DEF Arrive, MirrorTypeOK
<1>2. now \in Int
  BY <1>1
<1>3. Payload(f) \in SentBytes
  BY DEF Payload, Wrong, SentBytes, MirrorTypeOK
<1>4. mask_id(RawId[f]) = f
  BY BusAssumption DEF Sender
<1>5. /\ states' = [m \in Tracked |-> Observed(m, f, sample)]
      /\ newest' = [newest EXCEPT ![f] = now]
  BY <1>4 DEF Arrive, observe
<1>6. now = round * Period + offset'
  OBVIOUS
<1> HIDE DEF now
<1>7. sample \in Samples /\ sample.ts = now /\ sample.bytes = Payload(f)
  BY <1>2, <1>3 DEF Samples, Stamps
<1> HIDE DEF sample
<1> QED
  BY <1>2, <1>5, <1>6, <1>7

THEOREM BusInvariant == BusSpec => []MirrorInv
<1>1. BusInit => MirrorInv
  <2> SUFFICES ASSUME BusInit PROVE MirrorInv
    OBVIOUS
  <2>1. Default \in PairStates
    <3>1. Unseen \in Samples
      BY DEF Unseen, Samples, SentBytes, Stamps
    <3> QED
      BY <3>1 DEF Default, PairStates
  <2>2. MirrorTypeOK
    BY <2>1 DEF BusInit, TrackerInit, MirrorTypeOK, Stamps
  <2>3. SamplesAreNewest
    BY BusAssumption DEF BusInit, TrackerInit, SamplesAreNewest, Default, Unseen, Sender
  <2> QED
    BY <2>2, <2>3 DEF MirrorInv
<1>2. MirrorInv /\ [BusNext]_busVars => MirrorInv'
  <2> SUFFICES ASSUME MirrorInv, [BusNext]_busVars PROVE MirrorInv'
    OBVIOUS
  <2> USE DEF MirrorInv
  <2>1. CASE NextRound
    <3>1. wrong' \in [Tracked -> WrongPayloads \cup {Absent}]
      BY <2>1 DEF NextRound, MirrorTypeOK
    <3> QED
      BY <2>1, <3>1 DEF NextRound, MirrorTypeOK, SamplesAreNewest
  <2>2. ASSUME NEW f \in Sender, Arrive(f) PROVE MirrorInv'
    <3>1. PICK sample \in Samples :
            /\ sample.ts \in Int
            /\ states' = [m \in Tracked |-> Observed(m, f, sample)]
            /\ newest' = [newest EXCEPT ![f] = sample.ts]
      BY <2>2, ArriveObserves
    <3>2. MirrorTypeOK'
      <4>1. states' \in [Tracked -> PairStates]
        BY <3>1, ObservedType
      <4>2. newest' \in [Sender -> Stamps]
        BY <3>1 DEF MirrorTypeOK, Stamps
      <4>3. offset' \in Nat
        BY <2>2, BusAssumption DEF Arrive, MirrorTypeOK
      <4> QED
        BY <2>2, <4>1, <4>2, <4>3 DEF Arrive, MirrorTypeOK
    <3>3. SamplesAreNewest'
      <4> SUFFICES ASSUME NEW m \in Tracked
                   PROVE states'[m].mirror.ts = newest'[m] /\ states'[m].source.ts = newest'[SourceOf(m)]
        BY DEF SamplesAreNewest
      <4>1. m \in Sender /\ SourceOf(m) \in Sender
        BY BusAssumption DEF Sender
      <4>2. /\ states'[m].mirror = IF f = m THEN sample ELSE states[m].mirror
            /\ states'[m].source = IF f = SourceOf(m) THEN sample ELSE states[m].source
        BY <3>1, ObservedType
      <4> QED
        BY <3>1, <4>1, <4>2 DEF SamplesAreNewest, MirrorTypeOK
    <3> QED
      BY <3>2, <3>3
  <2>3. ASSUME NEW f \in Sender, Miss(f) PROVE MirrorInv'
    BY <2>3 DEF Miss, MirrorTypeOK, SamplesAreNewest
  <2>4. CASE Rewind
    <3>1. Default \in PairStates
      <4>1. Unseen \in Samples
        BY DEF Unseen, Samples, SentBytes, Stamps
      <4> QED
        BY <4>1 DEF Default, PairStates
    <3>2. MirrorTypeOK'
      BY <2>4, <3>1 DEF Rewind, reset, MirrorTypeOK, Stamps
    <3>3. SamplesAreNewest'
      BY <2>4, BusAssumption DEF Rewind, reset, SamplesAreNewest, Default, Unseen, Sender
    <3> QED
      BY <3>2, <3>3
  <2>5. CASE UNCHANGED busVars
    BY <2>5 DEF busVars, MirrorTypeOK, SamplesAreNewest
  <2> QED
    BY <2>1, <2>2, <2>3, <2>4, <2>5 DEF BusNext
<1> QED
  BY <1>1, <1>2, PTL DEF BusSpec

\* Silence settles nothing, for every catalogue, schedule, jitter, loss and
\* fault: a verdict changes only on a pair heard within the window.
THEOREM VerdictsRestOnNews == BusSpec => SilenceChangesNothing
<1>1. MirrorInv /\ MirrorInv' /\ [BusNext]_busVars =>
        [\A m \in Tracked :
           states'[m].is_valid # states[m].is_valid /\ rewinds' = rewinds =>
             \A f, g \in Pair(m) : newest'[f] - newest'[g] <= Window(m)]_busVars
  <2> SUFFICES ASSUME MirrorInv, MirrorInv', BusNext, NEW m \in Tracked,
                      states'[m].is_valid # states[m].is_valid, rewinds' = rewinds,
                      NEW a \in Pair(m), NEW b \in Pair(m)
               PROVE  newest'[a] - newest'[b] <= Window(m)
    OBVIOUS
  <2>1. PICK f \in Sender : Arrive(f)
    <3>1. ~NextRound /\ ~Rewind /\ \A f \in Sender : ~Miss(f)
      BY DEF NextRound, Miss, Rewind, MirrorInv, MirrorTypeOK
    <3> QED
      BY <3>1 DEF BusNext
  <2>2. PICK sample \in Samples :
          sample.ts \in Int /\ states' = [n \in Tracked |-> Observed(n, f, sample)]
    BY <2>1, ArriveObserves DEF MirrorInv
  <2>3. LET s == states'[m]
        IN  /\ s.mirror.ts \in Int /\ s.source.ts \in Int
            /\ s.mirror.ts - s.source.ts <= Window(m) /\ s.source.ts - s.mirror.ts <= Window(m)
    BY <2>2, ObservedChanges DEF MirrorInv
  <2>4. states'[m].mirror.ts = newest'[m] /\ states'[m].source.ts = newest'[SourceOf(m)]
    BY DEF MirrorInv, SamplesAreNewest
  <2> QED
    BY <2>3, <2>4, WindowNat DEF Pair
<1> QED
  BY <1>1, BusInvariant, PTL DEF BusSpec, SilenceChangesNothing

-----------------------------------------------------------------------------
\* What earns a verdict. The frames heard in this round are the pair's newest
\* samples as they were sent in it; a wrong mirror that was heard is excused.
HeardAsSent ==
  /\ \A f \in heard : /\ newest[f] \in Int
                      /\ newest[f] >= round * Period /\ newest[f] <= round * Period + offset
  /\ \A m \in Tracked : /\ m \in heard => states[m].mirror.bytes = Payload(m)
                        /\ SourceOf(m) \in heard => states[m].source.bytes = Payload(SourceOf(m))
                        /\ m \in heard /\ Wrong(m) => excused[m] = 2

\* The mismatches a pair may stand at: one for each excuse, one more while the
\* other frame is awaited, and one less when that was lost before the first.
Awaited(m) ==
  IF due \cap Pair(m) = {} THEN 0
  ELSE IF heard \cap Pair(m) # {} THEN 1
  ELSE IF Pair(m) \subseteq due THEN 0 ELSE -1

MismatchesExcused ==
  \A m \in Tracked : excused[m] = 2 \/ states[m].consecutive <= excused[m] + Awaited(m)

RoundTypeOK ==
  /\ offset <= Jitter
  /\ due \subseteq Sender /\ heard \subseteq Sender /\ due \cap heard = {}
  /\ excused \in [Tracked -> 0 .. 2]
  /\ \A f \in Tracked : Wrong(f) => f \in Faulty

LatchInv == RoundTypeOK /\ HeardAsSent /\ MismatchesExcused /\ NoFalseLatch

\* Two frames with one value agree past their first bytes.
LEMMA SameValueAgrees ==
  \A f, g, v : \A i \in Nat \ {0} : ByteAt(<<f, v>>, i) = ByteAt(<<g, v>>, i)
<1> SUFFICES ASSUME NEW f, NEW g, NEW v, NEW i \in Nat \ {0}
             PROVE  ByteAt(<<f, v>>, i) = ByteAt(<<g, v>>, i)
  OBVIOUS
<1>1. Len(<<f, v>>) = 2 /\ Len(<<g, v>>) = 2 /\ <<f, v>>[2] = <<g, v>>[2]
  OBVIOUS
<1>2. CASE i = 1
  BY <1>1, <1>2 DEF ByteAt
<1>3. CASE i # 1
  BY <1>1, <1>3 DEF ByteAt
<1> QED
  BY <1>2, <1>3

\* The bytes that are compared lie past the first.
LEMMA IndicesPastFirst == \A m \in Tracked : inherited_byte_indices(m) \subseteq Nat \ {0}
<1> SUFFICES ASSUME NEW m \in Tracked PROVE inherited_byte_indices(m) \subseteq Nat
  BY BusAssumption
<1> SUFFICES ASSUME NEW s \in Catalog[m].signals, s.start_bit # Absent, s.bit_length \notin {Absent, 0},
                    NEW i \in (s.start_bit \div 8) .. ((s.start_bit + s.bit_length - 1) \div 8)
             PROVE  i \in Nat
  BY DEF inherited_byte_indices, Reached
<1>1. s.start_bit \in Nat
  BY CatalogAssumption DEF Tracked
<1>2. s.start_bit \div 8 \in Nat
  BY <1>1
<1> QED
  BY <1>2

\* What a comparison does to the count and the verdict.
LEMMA CompareCounts ==
  ASSUME NEW m \in Tracked, NEW s \in PairStates
  PROVE  /\ compare(m, s).consecutive <= s.consecutive + 1
         /\ compare(m, s).is_valid = FALSE =>
              s.is_valid = FALSE \/ compare(m, s).consecutive >= 3
<1>1. CASE ~Comparable(m, s)
  BY <1>1 DEF compare, PairStates
<1>2. CASE Comparable(m, s)
  <2>1. PICK d : compare(m, s) = Judged(s, d, 3)
    BY <1>2 DEF compare, Verdict, MISMATCH_LATCH
  <2>2. CASE d = {}
    <3>1. compare(m, s) = [s EXCEPT !.mismatched = d, !.consecutive = 0, !.is_valid = TRUE]
      BY <2>1, <2>2 DEF Judged
    <3> QED
      BY <3>1 DEF PairStates
  <2>3. CASE d # {} /\ s.consecutive + 1 >= 3
    BY <2>1, <2>3 DEF Judged, PairStates
  <2>4. CASE d # {} /\ ~(s.consecutive + 1 >= 3)
    BY <2>1, <2>4 DEF Judged, PairStates
  <2> QED
    BY <2>2, <2>3, <2>4
<1> QED
  BY <1>1, <1>2

\* A comparison that finds nothing clears the pair.
LEMMA MatchClears ==
  ASSUME NEW m \in Tracked, NEW s \in PairStates, Comparable(m, s), Differing(m, s) = {}
  PROVE  compare(m, s).is_valid = TRUE /\ compare(m, s).consecutive = 0 /\ compare(m, s).mismatched = {}
<1>1. compare(m, s) = [s EXCEPT !.mismatched = {}, !.consecutive = 0, !.is_valid = TRUE]
  BY DEF compare, Verdict, Judged
<1> QED
  BY <1>1 DEF PairStates

\* Frames of one round that carry one value are compared, and agree.
LEMMA RoundAgrees ==
  ASSUME NEW m \in Tracked, NEW s \in PairStates, NEW start \in Int, NEW v,
         s.mirror.bytes = <<m, v>>, s.source.bytes = <<SourceOf(m), v>>,
         s.mirror.ts \in start .. start + Jitter, s.source.ts \in start .. start + Jitter
  PROVE  Comparable(m, s) /\ Differing(m, s) = {}
<1>1. Apart(s) <= Window(m)
  BY BusAssumption, WindowNat DEF Apart
<1>2. s.mirror.ts # Absent /\ s.source.ts # Absent
  BY BusAssumption
<1>3. \A i \in inherited_byte_indices(m) : ByteAt(s.mirror.bytes, i) = ByteAt(s.source.bytes, i)
  BY SameValueAgrees, IndicesPastFirst
<1> QED
  BY <1>1, <1>2, <1>3 DEF Comparable, Differing

\* Another pair's frame changes nothing; one of two is one comparison.
LEMMA ObservedCounts ==
  ASSUME MirrorTypeOK, NEW m \in Tracked, NEW f, NEW sample \in Samples
  PROVE  /\ f \notin Pair(m) => Observed(m, f, sample) = states[m]
         /\ m # SourceOf(m) =>
              /\ Observed(m, f, sample).consecutive <= states[m].consecutive + 1
              /\ Observed(m, f, sample).is_valid = FALSE =>
                   states[m].is_valid = FALSE \/ Observed(m, f, sample).consecutive >= 3
<1> DEFINE first == [states[m] EXCEPT !["mirror"] = sample]
           second == [states[m] EXCEPT !["source"] = sample]
<1>1. states[m] \in PairStates /\ states[m].consecutive \in Nat
  BY DEF MirrorTypeOK, PairStates
<1>2. /\ first \in PairStates /\ first.consecutive = states[m].consecutive /\ first.is_valid = states[m].is_valid
      /\ second \in PairStates /\ second.consecutive = states[m].consecutive /\ second.is_valid = states[m].is_valid
  BY <1>1 DEF PairStates
<1>3. /\ f = m /\ f # SourceOf(m) => Observed(m, f, sample) = compare(m, first)
      /\ f # m /\ f = SourceOf(m) => Observed(m, f, sample) = compare(m, second)
      /\ f # m /\ f # SourceOf(m) => Observed(m, f, sample) = states[m]
  BY DEF Observed, recorded
<1>4. f \notin Pair(m) => Observed(m, f, sample) = states[m]
  BY <1>3 DEF Pair
<1> HIDE DEF first, second
<1>5. ASSUME m # SourceOf(m)
      PROVE  /\ Observed(m, f, sample).consecutive <= states[m].consecutive + 1
             /\ Observed(m, f, sample).is_valid = FALSE =>
                  states[m].is_valid = FALSE \/ Observed(m, f, sample).consecutive >= 3
  <2>1. CASE f = m
    BY <1>2, <1>3, <1>5, <2>1, CompareCounts
  <2>2. CASE f # m /\ f = SourceOf(m)
    BY <1>2, <1>3, <2>2, CompareCounts
  <2>3. CASE f \notin Pair(m)
    BY <1>1, <1>4, <2>3
  <2> QED
    BY <2>1, <2>2, <2>3 DEF Pair
<1> QED
  BY <1>4, <1>5

\* The last frame of a true round settles its pair.
LEMMA TrueRoundClears ==
  ASSUME MirrorInv, RoundTypeOK, HeardAsSent, NEW f \in Sender, Arrive(f),
         NEW m \in Tracked, Completes(m, f), ~Wrong(m)
  PROVE  states'[m].is_valid = TRUE /\ states'[m].consecutive = 0 /\ states'[m].mismatched = {}
<1> DEFINE start == round * Period
<1>1. PICK sample \in Samples :
        /\ sample.ts \in Int
        /\ states' = [n \in Tracked |-> Observed(n, f, sample)]
        /\ newest' = [newest EXCEPT ![f] = sample.ts]
        /\ sample.bytes = Payload(f) /\ sample.ts = round * Period + offset'
  BY ArriveObserves DEF MirrorInv
<1> DEFINE first == [states[m] EXCEPT !["mirror"] = sample]
           own == IF f = m THEN compare(m, first) ELSE states[m]
           second == [own EXCEPT !["source"] = sample]
           last == IF f = SourceOf(m) THEN second ELSE first
<1>2. start \in Int /\ offset \in Nat /\ offset' \in Nat /\ offset <= offset' /\ offset' <= Jitter
  BY BusAssumption DEF MirrorInv, MirrorTypeOK, Arrive
<1>3. states[m] \in PairStates
  BY DEF MirrorInv, MirrorTypeOK
<1>4. first \in PairStates /\ first.mirror = sample /\ first.source = states[m].source
  BY <1>3 DEF PairStates
<1>5. own \in PairStates /\ own.mirror = (IF f = m THEN sample ELSE states[m].mirror)
  <2> HIDE DEF first
  <2> QED
    BY <1>3, <1>4, CompareType
<1>6. second \in PairStates /\ second.source = sample /\ second.mirror = own.mirror
  <2> HIDE DEF own
  <2> QED
    BY <1>5 DEF PairStates
<1>7. f \in Pair(m) /\ Pair(m) \subseteq heard \cup {f}
  BY DEF Completes
<1>8. states'[m] = compare(m, last)
  BY <1>1, <1>7 DEF Observed, recorded, Pair
<1> HIDE DEF first, own, second
<1>9. /\ last \in PairStates
      /\ last.mirror = IF f = m THEN sample ELSE states[m].mirror
      /\ last.source = IF f = SourceOf(m) THEN sample ELSE states[m].source
  BY <1>4, <1>5, <1>6, <1>7 DEF Pair
<1> HIDE DEF last
\* Both sides are of this round, and carry its value.
<1>10. ~Wrong(SourceOf(m))
  BY BusAssumption DEF RoundTypeOK, Wrong
<1>11. last.mirror.bytes = <<m, value>> /\ last.source.bytes = <<SourceOf(m), value>>
  BY <1>1, <1>7, <1>9, <1>10 DEF HeardAsSent, Payload, Pair
<1>12. last.mirror.ts \in start .. start + Jitter /\ last.source.ts \in start .. start + Jitter
  <2>0. Jitter \in Nat /\ start = round * Period
    BY BusAssumption
  <2> HIDE DEF start
  <2>1. \A g \in heard : newest[g] \in start .. start + Jitter
    <3> SUFFICES ASSUME NEW g \in heard PROVE newest[g] \in start .. start + Jitter
      OBVIOUS
    <3>1. newest[g] \in Int /\ newest[g] >= start /\ newest[g] <= start + offset
      BY <2>0 DEF HeardAsSent
    <3> QED
      BY <1>2, <2>0, <3>1
  <2>2. sample.ts \in start .. start + Jitter
    <3>1. sample.ts = start + offset'
      BY <1>1, <2>0
    <3> QED
      BY <1>2, <2>0, <3>1
  <2>3. states[m].mirror.ts = newest[m] /\ states[m].source.ts = newest[SourceOf(m)]
    BY DEF MirrorInv, SamplesAreNewest
  <2> QED
    BY <1>7, <1>9, <2>1, <2>2, <2>3 DEF Pair
<1>13. Comparable(m, last) /\ Differing(m, last) = {}
  <2> HIDE DEF start
  <2> QED
    BY <1>2, <1>9, <1>11, <1>12, RoundAgrees
<1> QED
  BY <1>8, <1>9, <1>13, MatchClears

\* The bus's own record is kept in order by every step.
LEMMA RoundTypeStep == MirrorInv /\ RoundTypeOK /\ [BusNext]_busVars => RoundTypeOK'
<1> SUFFICES ASSUME MirrorInv, RoundTypeOK, [BusNext]_busVars PROVE RoundTypeOK'
  OBVIOUS
<1>1. CASE NextRound
  <2>1. offset' <= Jitter /\ due' = Sender /\ heard' = {} /\ excused' = excused
    BY <1>1, BusAssumption DEF NextRound
  <2>2. \A f \in Tracked : Wrong(f)' => f \in Faulty
    BY <1>1 DEF NextRound, RoundTypeOK, MirrorInv, MirrorTypeOK, Wrong
  <2> QED
    BY <2>1, <2>2 DEF RoundTypeOK
<1>2. ASSUME NEW f \in Sender, Arrive(f) PROVE RoundTypeOK'
  <2>1. offset' <= Jitter /\ due' \subseteq Sender /\ heard' \subseteq Sender /\ due' \cap heard' = {}
    BY <1>2 DEF Arrive, RoundTypeOK, MirrorInv, MirrorTypeOK
  <2>2. excused' \in [Tracked -> 0 .. 2]
    BY <1>2 DEF Arrive, RoundTypeOK, Excused
  <2>3. \A g \in Tracked : Wrong(g)' => g \in Faulty
    BY <1>2 DEF Arrive, RoundTypeOK, Wrong
  <2> QED
    BY <2>1, <2>2, <2>3 DEF RoundTypeOK
<1>3. ASSUME NEW f \in Sender, Miss(f) PROVE RoundTypeOK'
  <2>1. excused' \in [Tracked -> 0 .. 2]
    BY <1>3 DEF Miss, RoundTypeOK, Excused
  <2> QED
    BY <1>3, <2>1 DEF Miss, RoundTypeOK, Wrong
<1>4. CASE Rewind
  BY <1>4, BusAssumption DEF Rewind, RoundTypeOK, Wrong
<1>5. CASE UNCHANGED busVars
  BY <1>5 DEF busVars, RoundTypeOK, Wrong
<1> QED
  BY <1>1, <1>2, <1>3, <1>4, <1>5 DEF BusNext

\* What was heard in this round stays as it was sent.
LEMMA HeardStep ==
  MirrorInv /\ MirrorInv' /\ RoundTypeOK /\ HeardAsSent /\ [BusNext]_busVars => HeardAsSent'
<1> SUFFICES ASSUME MirrorInv, MirrorInv', RoundTypeOK, HeardAsSent, [BusNext]_busVars PROVE HeardAsSent'
  OBVIOUS
<1>1. CASE NextRound
  BY <1>1 DEF NextRound, HeardAsSent
<1>2. ASSUME NEW f \in Sender, Arrive(f) PROVE HeardAsSent'
  <2>1. PICK sample \in Samples :
          /\ sample.ts \in Int
          /\ states' = [m \in Tracked |-> Observed(m, f, sample)]
          /\ newest' = [newest EXCEPT ![f] = sample.ts]
          /\ sample.bytes = Payload(f) /\ sample.ts = round * Period + offset'
    BY <1>2, ArriveObserves DEF MirrorInv
  <2>2. /\ round * Period \in Int /\ offset \in Nat /\ offset' \in Nat /\ offset <= offset'
        /\ heard' = heard \cup {f} /\ UNCHANGED <<round, value, wrong>>
    BY <1>2, BusAssumption DEF Arrive, MirrorInv, MirrorTypeOK
  <2>3. \A g \in heard' : /\ newest'[g] \in Int
                          /\ newest'[g] >= round' * Period /\ newest'[g] <= round' * Period + offset'
    <3> SUFFICES ASSUME NEW g \in heard'
                 PROVE  newest'[g] \in Int /\ newest'[g] >= round * Period /\ newest'[g] <= round * Period + offset'
      BY <2>2
    <3> DEFINE start == round * Period
    <3>1. CASE g = f
      <4>1. newest'[g] = start + offset'
        BY <2>1, <3>1 DEF MirrorInv, MirrorTypeOK
      <4> HIDE DEF start
      <4> QED
        BY <2>2, <4>1 DEF start
    <3>2. CASE g # f
      <4>1. newest'[g] \in Int /\ newest'[g] >= start /\ newest'[g] <= start + offset /\ start \in Int
        BY <2>1, <2>2, <3>2 DEF HeardAsSent, RoundTypeOK, MirrorInv, MirrorTypeOK
      <4> HIDE DEF start
      <4>2. newest'[g] <= start + offset'
        BY <2>2, <4>1
      <4> QED
        BY <4>1, <4>2 DEF start
    <3> QED
      BY <3>1, <3>2
  <2>4. ASSUME NEW m \in Tracked
        PROVE  /\ m \in heard' => states'[m].mirror.bytes = Payload(m)'
               /\ SourceOf(m) \in heard' => states'[m].source.bytes = Payload(SourceOf(m))'
               /\ m \in heard' /\ Wrong(m)' => excused'[m] = 2
    <3>1. \A g : Payload(g)' = Payload(g) /\ (Wrong(g)' <=> Wrong(g))
      BY <2>2 DEF Payload, Wrong
    <3>2. /\ states'[m].mirror = IF f = m THEN sample ELSE states[m].mirror
          /\ states'[m].source = IF f = SourceOf(m) THEN sample ELSE states[m].source
      BY <2>1, ObservedType DEF MirrorInv
    <3>3. m \in heard' /\ Wrong(m) => excused'[m] = 2
      BY <1>2, <2>2 DEF Arrive, Excused, HeardAsSent, RoundTypeOK
    <3> QED
      BY <2>1, <2>2, <3>1, <3>2, <3>3 DEF HeardAsSent
  <2> QED
    BY <2>3, <2>4 DEF HeardAsSent
<1>3. ASSUME NEW f \in Sender, Miss(f) PROVE HeardAsSent'
  <2>1. \A m \in Tracked : excused[m] = 2 => excused'[m] = 2
    BY <1>3 DEF Miss, Excused
  <2> QED
    BY <1>3, <2>1 DEF Miss, HeardAsSent, Payload, Wrong
<1>4. CASE Rewind
  BY <1>4 DEF Rewind, HeardAsSent
<1>5. CASE UNCHANGED busVars
  BY <1>5 DEF busVars, HeardAsSent, Payload, Wrong
<1> QED
  BY <1>1, <1>2, <1>3, <1>4, <1>5 DEF BusNext

\* A frame that arrives, as one pair sees it: another's changes nothing, one
\* that completes the pair truly clears it, and any other is one comparison
\* that is awaited, lost or excused.
LEMMA ArriveAtPair ==
  ASSUME MirrorInv, LatchInv, NEW f \in Sender, Arrive(f), NEW m \in Tracked
  PROVE  /\ excused'[m] = 2 \/ states'[m].consecutive <= excused'[m] + Awaited(m)'
         /\ states'[m].is_valid = FALSE => excused'[m] = 2
<1> USE DEF LatchInv
<1>1. PICK sample \in Samples :
        sample.ts \in Int /\ states' = [n \in Tracked |-> Observed(n, f, sample)]
  BY ArriveObserves DEF MirrorInv
<1>2. /\ heard' = heard \cup {f} /\ due' = due \ {f} /\ f \in due /\ f \notin heard
      /\ excused[m] \in 0 .. 2
      /\ excused'[m] = IF Completes(m, f) /\ ~Wrong(m) THEN 0
                       ELSE IF f = m /\ Wrong(m) THEN 2 ELSE excused[m]
  BY DEF Arrive, RoundTypeOK, Excused
<1>3. excused[m] = 2 \/ states[m].consecutive <= excused[m] + Awaited(m)
  BY DEF MismatchesExcused
<1>4. states[m].is_valid = FALSE => excused[m] = 2
  BY DEF NoFalseLatch
<1>5. states[m].consecutive \in Nat /\ states'[m].consecutive \in Nat
  <2>1. states'[m] \in PairStates /\ states[m] \in PairStates
    BY <1>1, ObservedType DEF MirrorInv, MirrorTypeOK
  <2> QED
    BY <2>1 DEF PairStates
<1>6. CASE f \notin Pair(m)
  <2>1. states'[m] = states[m]
    BY <1>1, <1>6, ObservedCounts DEF MirrorInv
  <2>2. excused'[m] = excused[m]
    BY <1>2, <1>6 DEF Pair, Completes
  <2>3. Awaited(m)' = Awaited(m)
    <3>1. due' \cap Pair(m) = due \cap Pair(m) /\ heard' \cap Pair(m) = heard \cap Pair(m)
      BY <1>2, <1>6
    <3>2. Pair(m) \subseteq due' <=> Pair(m) \subseteq due
      BY <1>2, <1>6
    <3> QED
      BY <3>1, <3>2 DEF Awaited
  <2> QED
    BY <1>3, <1>4, <2>1, <2>2, <2>3
<1>7. CASE Completes(m, f) /\ ~Wrong(m)
  <2>1. states'[m].is_valid = TRUE /\ states'[m].consecutive = 0
    BY <1>7, TrueRoundClears
  <2>2. due' \cap Pair(m) = {}
    BY <1>2, <1>7 DEF Completes, RoundTypeOK
  <2> QED
    BY <1>2, <1>7, <2>1, <2>2 DEF Awaited
<1>8. CASE Completes(m, f) /\ Wrong(m)
  <2>1. excused'[m] = 2
    <3>1. CASE f = m
      BY <1>2, <1>8, <3>1
    <3>2. CASE f # m
      BY <1>2, <1>8, <3>2 DEF Completes, Pair, HeardAsSent
    <3> QED
      BY <3>1, <3>2
  <2> QED
    BY <2>1
<1>9. CASE f \in Pair(m) /\ ~Completes(m, f)
  <2>1. PICK g \in Pair(m) : g \notin heard /\ g # f /\ Pair(m) = {f, g}
    BY <1>9 DEF Completes, Pair
  <2>2. m # SourceOf(m)
    BY <1>9, <2>1 DEF Pair
  <2>3. /\ states'[m].consecutive <= states[m].consecutive + 1
        /\ states'[m].is_valid = FALSE => states[m].is_valid = FALSE \/ states'[m].consecutive >= 3
    BY <1>1, <2>2, ObservedCounts DEF MirrorInv
  <2>4. excused'[m] = 2 \/ excused'[m] = excused[m]
    BY <1>2, <1>9
  <2>5. Awaited(m) = (IF g \in due THEN 0 ELSE -1) /\ Awaited(m)' = (IF g \in due THEN 1 ELSE 0)
    BY <1>2, <2>1 DEF Awaited
  <2> QED
    BY <1>2, <1>3, <1>4, <1>5, <2>3, <2>4, <2>5
<1> QED
  BY <1>6, <1>7, <1>8, <1>9 DEF Completes

\* A verdict rests on a sample of either side.
LEMMA VerdictRests ==
  ASSUME MirrorInv, MirrorInv', NoFalseLatch, NEW f \in Sender, Arrive(f), NEW m \in Tracked,
         states'[m].is_valid # Absent
  PROVE  \A g \in Pair(m) : newest'[g] # Absent
<1>1. PICK sample \in Samples :
        /\ sample.ts \in Int /\ states' = [n \in Tracked |-> Observed(n, f, sample)]
        /\ newest' = [newest EXCEPT ![f] = sample.ts]
  BY ArriveObserves DEF MirrorInv
<1>2. CASE states'[m].is_valid # states[m].is_valid
  <2>1. states'[m].mirror.ts \in Int /\ states'[m].source.ts \in Int
    BY <1>1, <1>2, ObservedChanges DEF MirrorInv
  <2>2. states'[m].mirror.ts = newest'[m] /\ states'[m].source.ts = newest'[SourceOf(m)]
    BY DEF MirrorInv, SamplesAreNewest
  <2> QED
    BY <2>1, <2>2, BusAssumption DEF Pair
<1>3. CASE states'[m].is_valid = states[m].is_valid
  BY <1>1, <1>3, BusAssumption DEF NoFalseLatch, MirrorInv, MirrorTypeOK
<1> QED
  BY <1>2, <1>3

\* A frame that is lost is one excuse more for its pair.
LEMMA MissAtPair ==
  ASSUME MirrorInv, LatchInv, NEW f \in Sender, Miss(f), NEW m \in Tracked
  PROVE  /\ excused'[m] = 2 \/ states'[m].consecutive <= excused'[m] + Awaited(m)'
         /\ states'[m].is_valid = FALSE => excused'[m] = 2
<1> USE DEF LatchInv
<1>1. /\ heard' = heard /\ due' = due \ {f} /\ f \in due /\ f \notin heard /\ states' = states
      /\ excused[m] \in 0 .. 2
      /\ excused'[m] = IF f \in Pair(m) THEN (IF excused[m] + 1 > 2 THEN 2 ELSE excused[m] + 1) ELSE excused[m]
  BY DEF Miss, RoundTypeOK, Excused
<1>2. excused[m] = 2 \/ states[m].consecutive <= excused[m] + Awaited(m)
  BY DEF MismatchesExcused
<1>3. states[m].is_valid = FALSE => excused[m] = 2
  BY DEF NoFalseLatch
<1>4. states[m].consecutive \in Nat
  BY DEF MirrorInv, MirrorTypeOK, PairStates
<1>5. CASE f \notin Pair(m)
  <2>1. due' \cap Pair(m) = due \cap Pair(m) /\ (Pair(m) \subseteq due' <=> Pair(m) \subseteq due)
    BY <1>1, <1>5
  <2>2. Awaited(m)' = Awaited(m)
    BY <1>1, <2>1 DEF Awaited
  <2> QED
    BY <1>1, <1>2, <1>3, <1>5, <2>2
<1>6. CASE f \in Pair(m)
  <2>1. Awaited(m)' >= Awaited(m) - 1 /\ Awaited(m) \in -1 .. 1 /\ Awaited(m)' \in -1 .. 1
    BY <1>1, <1>6 DEF Awaited, Pair
  <2> QED
    BY <1>1, <1>2, <1>3, <1>4, <1>6, <2>1
<1> QED
  BY <1>5, <1>6

LEMMA LatchStep ==
  MirrorInv /\ MirrorInv' /\ LatchInv /\ [BusNext]_busVars => LatchInv'
<1> SUFFICES ASSUME MirrorInv, MirrorInv', LatchInv, [BusNext]_busVars
             PROVE  MismatchesExcused' /\ NoFalseLatch'
  BY RoundTypeStep, HeardStep DEF LatchInv
<1>1. CASE NextRound
  <2>1. \A m \in Tracked : Awaited(m) = 0 /\ Awaited(m)' = 0
    BY <1>1, BusAssumption DEF NextRound, Awaited, Pair, Sender
  <2> QED
    BY <1>1, <2>1 DEF NextRound, LatchInv, MismatchesExcused, NoFalseLatch
<1>2. ASSUME NEW f \in Sender, Arrive(f) PROVE MismatchesExcused' /\ NoFalseLatch'
  BY <1>2, ArriveAtPair, VerdictRests DEF MismatchesExcused, NoFalseLatch, LatchInv
<1>3. ASSUME NEW f \in Sender, Miss(f) PROVE MismatchesExcused' /\ NoFalseLatch'
  <2>1. states' = states /\ newest' = newest
    BY <1>3 DEF Miss
  <2> QED
    BY <1>3, <2>1, MissAtPair DEF MismatchesExcused, NoFalseLatch, LatchInv
<1>4. CASE Rewind
  <2>1. \A m \in Tracked : /\ states'[m].is_valid = Absent /\ states'[m].consecutive = 0
                           /\ excused'[m] = 0 /\ Awaited(m)' = 0
    BY <1>4 DEF Rewind, reset, Default, Awaited
  <2>2. Absent # FALSE
    BY BusAssumption
  <2>3. \A m \in Tracked : ~(states'[m].is_valid = FALSE) /\ ~(states'[m].is_valid # Absent)
    BY <2>1, <2>2, Zenon
  <2>4. MismatchesExcused'
    BY <2>1 DEF MismatchesExcused
  <2>5. NoFalseLatch'
    BY <2>3, Zenon DEF NoFalseLatch
  <2> QED
    BY <2>4, <2>5
<1>5. CASE UNCHANGED busVars
  BY <1>5 DEF busVars, MismatchesExcused, NoFalseLatch, Awaited, LatchInv
<1> QED
  BY <1>1, <1>2, <1>3, <1>4, <1>5 DEF BusNext

LEMMA InitLatch == BusInit => LatchInv
<1> SUFFICES ASSUME BusInit PROVE LatchInv
  OBVIOUS
<1>1. \A m \in Tracked : /\ states[m].is_valid = Absent /\ states[m].consecutive = 0
                         /\ excused[m] = 0 /\ Awaited(m) = 0
  BY DEF BusInit, TrackerInit, Default, Awaited
<1>2. Absent # FALSE
  BY BusAssumption
<1>3. \A m \in Tracked : ~(states[m].is_valid = FALSE) /\ ~(states[m].is_valid # Absent)
  BY <1>1, <1>2, Zenon
<1>4. MismatchesExcused
  BY <1>1 DEF MismatchesExcused
<1>5. NoFalseLatch
  BY <1>3, Zenon DEF NoFalseLatch
<1> QED
  BY <1>4, <1>5, BusAssumption DEF BusInit, LatchInv, RoundTypeOK, HeardAsSent, Wrong

\* Skew, jitter and one lost frame never latch a mirror invalid, for every
\* catalogue, schedule and fault; and no verdict is left from before a rewind.
THEOREM SkewIsNoFault == BusSpec => []NoFalseLatch
<1>1. BusInit => LatchInv
  BY InitLatch
<1>2. LatchInv => NoFalseLatch
  BY DEF LatchInv
<1> QED
  BY <1>1, <1>2, BusInvariant, LatchStep, PTL DEF BusSpec

-----------------------------------------------------------------------------
\* What settles a verdict. A mirror that was wrong through a whole round still
\* stands wrong beside its source, and a mismatch follows from every frame.
StandsWrong(m) ==
  /\ Wrong(m)
  /\ states[m].mirror.bytes \in WrongPayloads
  /\ \E v \in Values : states[m].source.bytes = <<SourceOf(m), v>>

\* What one whole wrong round leaves for the next to finish.
HalfSpoilt(m) ==
  /\ states[m].consecutive >= 1
  /\ ~(Pair(m) \subseteq heard) =>
       /\ heard \cap Pair(m) # {} => states[m].consecutive >= 2
       /\ \A g \in Pair(m) \ heard :
            newest[g] \in Int /\ newest[g] >= (round - 1) * Period /\ newest[g] <= (round - 1) * Period + Jitter

SpoiltCounts ==
  /\ spoilt \in [Tracked -> 0 .. 2]
  /\ \A m \in Tracked : /\ spoilt[m] >= 1 => StandsWrong(m)
                        /\ spoilt[m] = 1 => HalfSpoilt(m)

SettleInv == SpoiltCounts /\ WholeRoundsSettle

\* A wrong payload never agrees with the source.
LEMMA WrongDiffers ==
  ASSUME NEW m \in Tracked \cap Faulty, NEW s, NEW v \in Values,
         s.mirror.bytes \in WrongPayloads, s.source.bytes = <<SourceOf(m), v>>
  PROVE  Differing(m, s) # {}
<1>1. PICK i \in inherited_byte_indices(m) :
        \A w \in Values : ByteAt(s.mirror.bytes, i) # ByteAt(<<SourceOf(m), w>>, i)
  BY FaultAssumption
<1> QED
  BY <1>1 DEF Differing

\* A mismatch is counted when it is compared, and clears nothing.
LEMMA MismatchCounts ==
  ASSUME NEW m \in Tracked, NEW s \in PairStates, Differing(m, s) # {}
  PROVE  /\ Comparable(m, s) =>
              /\ compare(m, s).consecutive = s.consecutive + 1
              /\ s.consecutive >= 2 => compare(m, s).is_valid = FALSE
         /\ s.is_valid = FALSE => compare(m, s).is_valid = FALSE
<1>1. CASE ~Comparable(m, s)
  BY <1>1 DEF compare
<1>2. CASE Comparable(m, s)
  <2>1. PICK d : d # {} /\ compare(m, s) = Judged(s, d, 3)
    BY <1>2 DEF compare, Verdict, MISMATCH_LATCH
  <2>2. s.consecutive \in Nat
    BY DEF PairStates
  <2>3. CASE s.consecutive + 1 >= 3
    BY <2>1, <2>2, <2>3 DEF Judged, PairStates
  <2>4. CASE ~(s.consecutive + 1 >= 3)
    BY <2>1, <2>2, <2>4 DEF Judged, PairStates
  <2> QED
    BY <2>3, <2>4
<1> QED
  BY <1>1, <1>2

\* A frame of a pair of two is recorded on its side, and the pair compared.
LEMMA ObservedIsCompared ==
  ASSUME MirrorTypeOK, NEW m \in Tracked, m # SourceOf(m), NEW f \in Pair(m), NEW sample \in Samples
  PROVE  \E s \in PairStates :
           /\ Observed(m, f, sample) = compare(m, s)
           /\ s.consecutive = states[m].consecutive /\ s.is_valid = states[m].is_valid
           /\ s.mirror = IF f = m THEN sample ELSE states[m].mirror
           /\ s.source = IF f = SourceOf(m) THEN sample ELSE states[m].source
<1> DEFINE first == [states[m] EXCEPT !["mirror"] = sample]
           second == [states[m] EXCEPT !["source"] = sample]
<1>1. states[m] \in PairStates
  BY DEF MirrorTypeOK
<1>2. CASE f = m
  <2>1. /\ first \in PairStates /\ first.consecutive = states[m].consecutive
        /\ first.is_valid = states[m].is_valid /\ first.mirror = sample /\ first.source = states[m].source
    BY <1>1 DEF PairStates
  <2>2. Observed(m, f, sample) = compare(m, first)
    BY <1>2 DEF Observed, recorded
  <2> HIDE DEF first
  <2> QED
    BY <1>2, <2>1, <2>2
<1>3. CASE f # m
  <2>1. /\ second \in PairStates /\ second.consecutive = states[m].consecutive
        /\ second.is_valid = states[m].is_valid /\ second.source = sample /\ second.mirror = states[m].mirror
    BY <1>1 DEF PairStates
  <2>2. f = SourceOf(m) /\ Observed(m, f, sample) = compare(m, second)
    BY <1>3 DEF Observed, recorded, Pair
  <2> HIDE DEF second
  <2> QED
    BY <1>3, <2>1, <2>2
<1> QED
  BY <1>2, <1>3

\* Samples of one round, or of one round and the next, are compared.
LEMMA RoundsCompared ==
  ASSUME NEW m \in Tracked \cap Faulty, NEW s \in PairStates, NEW start \in Int, NEW a \in Int, NEW b \in Int,
         {s.mirror.ts, s.source.ts} = {a, b},
         a >= start /\ a <= start + Jitter,
         \/ b >= start /\ b <= start + Jitter
         \/ b >= start - Period /\ b <= start - Period + Jitter
  PROVE  Comparable(m, s)
<1>1. a - b <= Window(m) /\ b - a <= Window(m)
  BY BusAssumption, FaultAssumption, WindowNat
<1>2. \/ s.mirror.ts = a /\ s.source.ts = b
      \/ s.mirror.ts = b /\ s.source.ts = a
      \/ a = b /\ s.mirror.ts = a /\ s.source.ts = a
  OBVIOUS
<1> QED
  BY <1>1, <1>2, BusAssumption DEF Comparable, Apart

\* Rounds are a period apart.
LEMMA RoundBefore == \A r \in Int : r * Period \in Int /\ (r - 1) * Period = r * Period - Period
BY BusAssumption

\* A frame comes within its jitter.
LEMMA LateWithin ==
  \A t, start \in Int, late, most \in Nat :
    t = start + late /\ late <= most => t >= start /\ t <= start + most
OBVIOUS

\* A frame of a mirror that is wrong, or of its source: it is compared when the
\* pair was heard in this round or the last, and it never agrees.
LEMMA WrongIsCompared ==
  ASSUME MirrorInv, LatchInv, SettleInv, NEW f \in Sender, Arrive(f),
         NEW m \in Tracked, f \in Pair(m), Wrong(m),
         Completes(m, f) \/ spoilt[m] >= 1
  PROVE  /\ StandsWrong(m)'
         /\ states[m].is_valid = FALSE => states'[m].is_valid = FALSE
         /\ Completes(m, f) \/ spoilt[m] = 1 =>
              /\ states'[m].consecutive = states[m].consecutive + 1
              /\ states[m].consecutive >= 2 => states'[m].is_valid = FALSE
<1> USE DEF LatchInv, SettleInv
<1>1. PICK sample \in Samples :
        /\ sample.ts \in Int
        /\ states' = [n \in Tracked |-> Observed(n, f, sample)]
        /\ newest' = [newest EXCEPT ![f] = sample.ts]
        /\ sample.bytes = Payload(f) /\ sample.ts = round * Period + offset'
  BY ArriveObserves DEF MirrorInv
<1>2. m \in Tracked \cap Faulty /\ SourceOf(m) \notin Faulty /\ m # SourceOf(m) /\ ~Wrong(SourceOf(m))
  BY BusAssumption DEF RoundTypeOK, Wrong
<1>3. PICK s \in PairStates :
        /\ states'[m] = compare(m, s)
        /\ s.consecutive = states[m].consecutive /\ s.is_valid = states[m].is_valid
        /\ s.mirror = IF f = m THEN sample ELSE states[m].mirror
        /\ s.source = IF f = SourceOf(m) THEN sample ELSE states[m].source
  BY <1>1, <1>2, ObservedIsCompared DEF MirrorInv
\* Both sides stand wrong, whichever of the two frames it is.
<1>4. Payload(m) \in WrongPayloads /\ Payload(SourceOf(m)) = <<SourceOf(m), value>> /\ value \in Values
  BY <1>2 DEF Payload, Wrong, MirrorInv, MirrorTypeOK
<1>5. /\ s.mirror.bytes \in WrongPayloads
      /\ \E v \in Values : s.source.bytes = <<SourceOf(m), v>>
  <2>1. CASE Completes(m, f)
    BY <1>1, <1>2, <1>3, <1>4, <2>1 DEF Completes, Pair, HeardAsSent
  <2>2. CASE spoilt[m] >= 1
    BY <1>1, <1>2, <1>3, <1>4, <2>2 DEF Pair, SpoiltCounts, StandsWrong
  <2> QED
    BY <2>1, <2>2
<1>6. Differing(m, s) # {}
  BY <1>2, <1>5, WrongDiffers
<1>7. states'[m].mirror = s.mirror /\ states'[m].source = s.source
  BY <1>3, CompareType
<1>8. StandsWrong(m)'
  <2>1. Wrong(m)'
    BY DEF Arrive, Wrong
  <2> QED
    BY <1>5, <1>7, <2>1 DEF StandsWrong
<1>9. ASSUME Completes(m, f) \/ spoilt[m] = 1 PROVE Comparable(m, s)
  <2>1. PICK g : Pair(m) = {f, g} /\ g # f
    BY <1>2 DEF Pair
  <2>2. PICK start \in Int : round * Period = start /\ (round - 1) * Period = start - Period
    BY RoundBefore DEF MirrorInv, MirrorTypeOK
  <2>3. sample.ts \in Int /\ sample.ts >= start /\ sample.ts <= start + Jitter
    <3>1. offset' \in Nat /\ offset' <= Jitter /\ Jitter \in Nat
      BY BusAssumption DEF Arrive, MirrorInv, MirrorTypeOK
    <3>2. sample.ts \in Int /\ sample.ts = start + offset'
      BY <1>1, <2>2
    <3> QED
      BY <3>1, <3>2, LateWithin, Zenon
  <2>4. /\ newest[g] \in Int
        /\ \/ newest[g] >= start /\ newest[g] <= start + Jitter
           \/ newest[g] >= start - Period /\ newest[g] <= start - Period + Jitter
    <3>1. CASE Completes(m, f)
      <4>1. newest[g] \in Int /\ newest[g] >= start /\ newest[g] <= start + offset
        BY <2>1, <2>2, <3>1 DEF Completes, HeardAsSent
      <4>2. offset \in Nat /\ offset <= Jitter /\ Jitter \in Nat
        BY BusAssumption DEF RoundTypeOK, MirrorInv, MirrorTypeOK
      <4> QED
        BY <2>2, <4>1, <4>2
    <3>2. CASE spoilt[m] = 1 /\ ~Completes(m, f)
      <4>1. g \in Pair(m) \ heard /\ HalfSpoilt(m) /\ ~(Pair(m) \subseteq heard)
        BY <2>1, <3>2 DEF Completes, SpoiltCounts
      <4> QED
        BY <2>2, <4>1 DEF HalfSpoilt
    <3> QED
      BY <1>9, <3>1, <3>2
  <2>5. {s.mirror.ts, s.source.ts} = {sample.ts, newest[g]}
    BY <1>2, <1>3, <2>1 DEF Pair, MirrorInv, SamplesAreNewest
  <2> QED
    BY <1>2, <2>2, <2>3, <2>4, <2>5, RoundsCompared
<1> QED
  BY <1>3, <1>6, <1>8, <1>9, MismatchCounts

\* What a frame that arrives leaves of one pair's count.
LEMMA ArriveSettles ==
  ASSUME MirrorInv, LatchInv, SettleInv, NEW f \in Sender, Arrive(f), NEW m \in Tracked
  PROVE  /\ spoilt'[m] \in 0 .. 2
         /\ spoilt'[m] >= 1 => StandsWrong(m)'
         /\ spoilt'[m] = 1 => HalfSpoilt(m)'
         /\ spoilt'[m] = 2 => states'[m].is_valid = FALSE
         /\ Pair(m) \subseteq heard' /\ ~Wrong(m)' => states'[m].is_valid = TRUE /\ states'[m].mismatched = {}
<1> USE DEF LatchInv, SettleInv
<1>1. PICK sample \in Samples :
        /\ sample.ts \in Int
        /\ states' = [n \in Tracked |-> Observed(n, f, sample)]
        /\ newest' = [newest EXCEPT ![f] = sample.ts]
  BY ArriveObserves DEF MirrorInv
<1>2. /\ heard' = heard \cup {f} /\ f \notin heard /\ round' = round /\ (Wrong(m)' <=> Wrong(m))
      /\ spoilt[m] \in 0 .. 2
      /\ spoilt'[m] = IF Completes(m, f) /\ Wrong(m) /\ spoilt[m] < 2 THEN spoilt[m] + 1 ELSE spoilt[m]
  BY DEF Arrive, RoundTypeOK, SpoiltCounts, Wrong
<1>3. /\ spoilt[m] >= 1 => StandsWrong(m) /\ Wrong(m)
      /\ spoilt[m] = 1 => HalfSpoilt(m)
      /\ spoilt[m] = 2 => states[m].is_valid = FALSE
      /\ Pair(m) \subseteq heard /\ ~Wrong(m) => states[m].is_valid = TRUE /\ states[m].mismatched = {}
  BY DEF SpoiltCounts, StandsWrong, WholeRoundsSettle
<1>4. states[m].consecutive \in Nat
  BY DEF MirrorInv, MirrorTypeOK, PairStates
<1>5. CASE f \notin Pair(m)
  <2>1. states'[m] = states[m]
    BY <1>1, <1>5, ObservedCounts DEF MirrorInv
  <2>2. /\ spoilt'[m] = spoilt[m]
        /\ Pair(m) \subseteq heard' <=> Pair(m) \subseteq heard
        /\ heard' \cap Pair(m) = heard \cap Pair(m) /\ Pair(m) \ heard' = Pair(m) \ heard
    BY <1>2, <1>5 DEF Completes
  <2>3. \A g \in Pair(m) : newest'[g] = newest[g]
    <3>1. \A g \in Pair(m) : g \in Sender /\ g # f
      BY <1>5, BusAssumption DEF Pair, Sender
    <3> QED
      BY <1>1, <3>1 DEF MirrorInv, MirrorTypeOK
  <2>4. StandsWrong(m) => StandsWrong(m)'
    BY <1>2, <2>1 DEF StandsWrong
  <2>5. HalfSpoilt(m) => HalfSpoilt(m)'
    BY <1>2, <2>1, <2>2, <2>3 DEF HalfSpoilt
  <2>6. spoilt'[m] \in 0 .. 2
    BY <1>2, <2>2
  <2>7. spoilt'[m] >= 1 => StandsWrong(m)'
    <3>1. spoilt'[m] >= 1 => spoilt[m] >= 1
      BY <2>2
    <3> QED
      BY <1>3, <2>4, <3>1, Zenon
  <2>8. spoilt'[m] = 1 => HalfSpoilt(m)'
    BY <1>3, <2>2, <2>5, Zenon
  <2>9. spoilt'[m] = 2 => states'[m].is_valid = FALSE
    BY <1>3, <2>1, <2>2, Zenon
  <2>10. Pair(m) \subseteq heard' /\ ~Wrong(m)' => states'[m].is_valid = TRUE /\ states'[m].mismatched = {}
    BY <1>2, <1>3, <2>1, <2>2, Zenon
  <2> QED
    BY <2>6, <2>7, <2>8, <2>9, <2>10, Zenon
<1>6. CASE f \in Pair(m) /\ ~Wrong(m)
  <2>1. spoilt[m] = 0 /\ spoilt'[m] = 0
    BY <1>2, <1>3, <1>6
  <2>2. Pair(m) \subseteq heard' => Completes(m, f)
    BY <1>2, <1>6 DEF Completes
  <2>3. Pair(m) \subseteq heard' /\ ~Wrong(m)' => states'[m].is_valid = TRUE /\ states'[m].mismatched = {}
    BY <1>6, <2>2, TrueRoundClears
  <2>4. spoilt'[m] \in 0 .. 2 /\ ~(spoilt'[m] >= 1) /\ spoilt'[m] # 1 /\ spoilt'[m] # 2
    BY <2>1
  <2> QED
    BY <2>3, <2>4, Zenon
<1>7. CASE f \in Pair(m) /\ Wrong(m) /\ Completes(m, f)
  <2>1. /\ StandsWrong(m)'
        /\ states[m].is_valid = FALSE => states'[m].is_valid = FALSE
        /\ states'[m].consecutive = states[m].consecutive + 1
        /\ states[m].consecutive >= 2 => states'[m].is_valid = FALSE
    BY <1>7, WrongIsCompared
  <2>2. Pair(m) \subseteq heard'
    BY <1>2, <1>7 DEF Completes
  <2>3. HalfSpoilt(m)'
    BY <1>4, <2>1, <2>2 DEF HalfSpoilt
  <2>4. spoilt[m] = 1 => states[m].consecutive >= 2
    <3>1. m # SourceOf(m)
      BY <1>7, BusAssumption DEF RoundTypeOK
    <3>2. ~(Pair(m) \subseteq heard) /\ heard \cap Pair(m) # {}
      BY <1>2, <1>7, <3>1 DEF Completes, Pair
    <3> QED
      BY <1>3, <3>2 DEF HalfSpoilt
  <2> QED
    BY <1>2, <1>3, <1>7, <2>1, <2>3, <2>4
<1>8. CASE f \in Pair(m) /\ Wrong(m) /\ ~Completes(m, f)
  <2>1. spoilt'[m] = spoilt[m] /\ ~(Pair(m) \subseteq heard')
    BY <1>2, <1>8 DEF Completes
  <2>2. CASE spoilt[m] = 0
    BY <1>2, <1>8, <2>1, <2>2
  <2>3. CASE spoilt[m] >= 1
    <3>1. /\ StandsWrong(m)'
          /\ states[m].is_valid = FALSE => states'[m].is_valid = FALSE
          /\ spoilt[m] = 1 => states'[m].consecutive = states[m].consecutive + 1
      BY <1>8, <2>3, WrongIsCompared
    <3>2. ASSUME spoilt[m] = 1 PROVE HalfSpoilt(m)'
      <4>1. \A g \in Pair(m) \ heard' : g \in Sender /\ newest'[g] = newest[g] /\ g \in Pair(m) \ heard
        BY <1>1, <1>2, BusAssumption DEF Pair, Sender, MirrorInv, MirrorTypeOK
      <4>2. states[m].consecutive >= 1 /\ states'[m].consecutive >= 2
        BY <1>3, <1>4, <3>1, <3>2 DEF HalfSpoilt
      <4>3. ~(Pair(m) \subseteq heard)
        BY <1>2, <1>8
      <4>4. HalfSpoilt(m)
        BY <1>3, <3>2
      <4>5. ASSUME NEW g \in Pair(m) \ heard'
            PROVE  /\ newest'[g] \in Int
                   /\ newest'[g] >= (round' - 1) * Period
                   /\ newest'[g] <= (round' - 1) * Period + Jitter
        <5>1. /\ newest[g] \in Int
              /\ newest[g] >= (round - 1) * Period
              /\ newest[g] <= (round - 1) * Period + Jitter
          BY <4>1, <4>3, <4>4 DEF HalfSpoilt
        <5>2. newest'[g] = newest[g] /\ round' = round
          BY <1>2, <4>1
        <5> QED
          BY <5>1, <5>2, Zenon
      <4>6. states'[m].consecutive >= 1
        BY <1>3, <1>4, <3>1, <3>2, <4>2
      <4> QED
        BY <4>2, <4>5, <4>6, Zenon DEF HalfSpoilt
    <3>3. spoilt'[m] \in 0 .. 2
      BY <1>2, <2>1
    <3>4. spoilt'[m] = 1 => HalfSpoilt(m)'
      BY <2>1, <3>2, Zenon
    <3>5. spoilt'[m] = 2 => states'[m].is_valid = FALSE
      BY <1>3, <2>1, <3>1, Zenon
    <3>6. StandsWrong(m)'
      BY <3>1
    <3>7. Pair(m) \subseteq heard' /\ ~Wrong(m)' => states'[m].is_valid = TRUE /\ states'[m].mismatched = {}
      BY <2>1, Zenon
    <3> QED
      BY <3>3, <3>4, <3>5, <3>6, <3>7, Zenon
  <2>4. spoilt[m] = 0 \/ spoilt[m] >= 1
    BY <1>2
  <2> QED
    BY <2>2, <2>3, <2>4, Zenon
<1> QED
  BY <1>5, <1>6, <1>7, <1>8

LEMMA SettleStep ==
  MirrorInv /\ LatchInv /\ SettleInv /\ [BusNext]_busVars => SettleInv'
<1> SUFFICES ASSUME MirrorInv, LatchInv, SettleInv, [BusNext]_busVars
             PROVE  SpoiltCounts' /\ WholeRoundsSettle'
  BY DEF SettleInv
<1> USE DEF SettleInv
<1>1. CASE NextRound
  <2>1. /\ spoilt' = [m \in Tracked |-> IF Pair(m) \subseteq heard /\ wrong'[m] # Absent THEN spoilt[m] ELSE 0]
        /\ heard' = {} /\ round' = round + 1 /\ states' = states /\ newest' = newest
    BY <1>1 DEF NextRound
  <2>2. ASSUME NEW m \in Tracked
        PROVE  /\ ~(Pair(m) \subseteq heard') /\ spoilt'[m] \in 0 .. 2
               /\ spoilt'[m] >= 1 => StandsWrong(m)'
               /\ spoilt'[m] = 1 => HalfSpoilt(m)'
               /\ spoilt'[m] = 2 => states'[m].is_valid = FALSE
    <3>1. ~(Pair(m) \subseteq heard') /\ spoilt'[m] \in 0 .. 2
      BY <2>1 DEF Pair, SpoiltCounts
    <3>2. ASSUME spoilt'[m] >= 1
          PROVE  spoilt'[m] = spoilt[m] /\ Pair(m) \subseteq heard /\ wrong'[m] # Absent
      BY <2>1, <3>2
    <3>3. spoilt'[m] >= 1 => StandsWrong(m)'
      BY <2>1, <3>2 DEF StandsWrong, Wrong, SpoiltCounts
    <3>4. ASSUME spoilt'[m] = 1 PROVE HalfSpoilt(m)'
      <4>1. spoilt[m] = 1 /\ Pair(m) \subseteq heard
        BY <3>2, <3>4
      <4>2. states[m].consecutive >= 1
        BY <4>1 DEF SpoiltCounts, HalfSpoilt
      <4>3. (round' - 1) * Period = round * Period /\ round * Period \in Int
        BY <2>1, RoundBefore DEF MirrorInv, MirrorTypeOK
      <4>4. ASSUME NEW g \in Pair(m)
            PROVE  newest[g] \in Int /\ newest[g] >= round * Period /\ newest[g] <= round * Period + Jitter
        <5>1. PICK start \in Int : start = round * Period
          BY <4>3
        <5>2. newest[g] \in Int /\ newest[g] >= start /\ newest[g] <= start + offset
          BY <4>1, <5>1 DEF HeardAsSent, LatchInv
        <5>3. offset \in Nat /\ offset <= Jitter /\ Jitter \in Nat
          BY BusAssumption DEF LatchInv, RoundTypeOK, MirrorInv, MirrorTypeOK
        <5> QED
          BY <5>1, <5>2, <5>3
      <4> QED
        BY <2>1, <4>2, <4>3, <4>4 DEF HalfSpoilt
    <3>5. spoilt'[m] = 2 => states'[m].is_valid = FALSE
      BY <2>1, <3>2 DEF WholeRoundsSettle
    <3> QED
      BY <3>1, <3>3, <3>4, <3>5
  <2>3. spoilt' \in [Tracked -> 0 .. 2]
    BY <2>1, <2>2
  <2> QED
    BY <2>2, <2>3 DEF SpoiltCounts, WholeRoundsSettle
<1>2. ASSUME NEW f \in Sender, Arrive(f) PROVE SpoiltCounts' /\ WholeRoundsSettle'
  <2>1. spoilt' = [m \in Tracked |-> spoilt'[m]]
    BY <1>2 DEF Arrive
  <2>2. spoilt' \in [Tracked -> 0 .. 2]
    BY <1>2, <2>1, ArriveSettles
  <2> QED
    BY <1>2, <2>2, ArriveSettles DEF SpoiltCounts, WholeRoundsSettle
<1>3. ASSUME NEW f \in Sender, Miss(f) PROVE SpoiltCounts' /\ WholeRoundsSettle'
  BY <1>3 DEF Miss, SpoiltCounts, WholeRoundsSettle, StandsWrong, HalfSpoilt, Wrong
<1>4. CASE Rewind
  BY <1>4 DEF Rewind, SpoiltCounts, WholeRoundsSettle, Pair
<1>5. CASE UNCHANGED busVars
  BY <1>5 DEF busVars, SpoiltCounts, WholeRoundsSettle, StandsWrong, HalfSpoilt, Wrong
<1> QED
  BY <1>1, <1>2, <1>3, <1>4, <1>5 DEF BusNext

\* A mirror that is wrong is found out in two rounds heard whole, and cleared
\* by one, whatever was lost, late or wrong before them.
THEOREM RoundsSettle == BusSpec => []WholeRoundsSettle
<1>1. BusInit => LatchInv
  BY InitLatch
<1>2. BusInit => SettleInv
  BY DEF BusInit, SettleInv, SpoiltCounts, WholeRoundsSettle, Pair
<1>3. SettleInv => WholeRoundsSettle
  BY DEF SettleInv
<1> QED
  BY <1>1, <1>2, <1>3, BusInvariant, LatchStep, SettleStep, PTL DEF BusSpec
=============================================================================
