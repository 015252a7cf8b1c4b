-------------------------- MODULE TestPattern_proof --------------------------
(***************************************************************************)
(* Proofs about the Test Pattern: the counters of a SequenceTracker are    *)
(* exact, what the responders on a bus report is what happened there, and  *)
(* the percentiles of a run are percentiles of what was recorded.          *)
(***************************************************************************)
EXTENDS SequenceStream, TestPatternBus, Latencies, SequenceTheorems, FiniteSetTheorems, TLAPS

-----------------------------------------------------------------------------
(* What track does to a SequenceTracker, field by field, for every size of *)
(* the sequence space and every threshold.                                 *)

LEMMA ModUnique ==
  ASSUME NEW S \in Nat \ {0}, NEW q \in Int, NEW r \in Int, 0 <= r, r < S
  PROVE  (S * q + r) % S = r
BY SMTT(30)

LEMMA ModShift ==
  ASSUME NEW S \in Nat \ {0}, NEW q \in Int, NEW x \in Int
  PROVE  (S * q + x) % S = x % S
<1> DEFINE d == x \div S
           r == x % S
<1>1. d \in Int /\ r \in Int /\ 0 <= r /\ r < S /\ x = S * d + r
  BY SMTT(30)
<1> HIDE DEF d
<1>2. S * q + x = S * (q + d) + r
  <2>1. S * (q + d) = S * q + S * d
    BY <1>1
  <2> HIDE DEF r
  <2> QED BY <1>1, <2>1
<1>3. (S * (q + d) + r) % S = r
  <2>1. q + d \in Int
    BY <1>1
  <2> HIDE DEF r
  <2> QED BY <1>1, <2>1, ModUnique
<1> QED BY <1>2, <1>3

LEMMA SpaceFacts ==
  /\ Space \in Nat /\ Space > 0
  /\ WrapThreshold \in Nat /\ WrapThreshold > 0
  /\ WrapThreshold < Space
  /\ None \notin SeqNo
BY SpaceAssumption DEF SeqNo

LEMMA SuccValue ==
  ASSUME NEW s \in SeqNo
  PROVE  /\ Succ(s) \in SeqNo
         /\ Succ(s) = IF s + 1 = Space THEN 0 ELSE s + 1
<1>1. s \in Nat /\ s < Space
  BY DEF SeqNo
<1>2. CASE s + 1 = Space
  <2>1. (Space * 1 + 0) % Space = 0
    BY ModUnique, SpaceFacts
  <2>2. Succ(s) = 0
    BY <1>2, <2>1, SpaceFacts DEF Succ
  <2> QED BY <1>2, <2>2, SpaceFacts DEF SeqNo
<1>3. CASE s + 1 # Space
  <2>1. (Space * 0 + (s + 1)) % Space = s + 1
    BY <1>1, <1>3, ModUnique, SpaceFacts
  <2>2. Succ(s) = s + 1
    BY <1>1, <2>1, SpaceFacts DEF Succ
  <2> QED BY <1>1, <1>3, <2>2, SpaceFacts DEF SeqNo
<1> QED BY <1>2, <1>3

LEMMA SeenFields ==
  ASSUME NEW t \in Tracker, NEW seq \in SeqNo
  PROVE  /\ Seen(t, seq) \in Tracker
         /\ Seen(t, seq).expected = t.expected
         /\ Seen(t, seq).drops = t.drops
         /\ Seen(t, seq).rx_count = t.rx_count + 1
         /\ Seen(t, seq).out_of_order = t.out_of_order
<1> DEFINE dups == IF seq \in t.seen THEN t.duplicates + 1 ELSE t.duplicates
           seen == t.seen \cup {seq}
<1>1. /\ t.rx_count \in Nat /\ t.duplicates \in Nat /\ t.seen \in SUBSET SeqNo
      /\ t.drops \in Nat /\ t.out_of_order \in Nat
      /\ t.gaps \in Seq(SeqNo \X SeqNo) /\ t.expected \in SeqNo \cup {None}
  BY DEF Tracker
<1>2. dups \in Nat /\ seen \in SUBSET SeqNo
  BY <1>1
<1>3. Seen(t, seq) = [t EXCEPT !.rx_count = t.rx_count + 1, !.duplicates = dups, !.seen = seen]
  BY DEF Seen
<1> HIDE DEF dups, seen
<1>4. Seen(t, seq) = [expected |-> t.expected, seen |-> seen, rx_count |-> t.rx_count + 1,
                      drops |-> t.drops, duplicates |-> dups,
                      out_of_order |-> t.out_of_order, gaps |-> t.gaps]
  BY <1>3 DEF Tracker
<1> QED BY <1>1, <1>2, <1>4 DEF Tracker

\* What each branch of track makes of the fields the invariant is about.
LEMMA TrackType ==
  ASSUME NEW t \in Tracker, NEW seq \in SeqNo
  PROVE  Track(t, seq) \in Tracker
<1> DEFINE u == Seen(t, seq)
<1>1. u \in Tracker
  BY SeenFields
<1>2. Succ(seq) \in SeqNo
  BY SuccValue
<1>3. u.expected = t.expected
  BY SeenFields
<1>4. InOrder(u, seq) \in Tracker
  BY <1>1, <1>2 DEF InOrder, Tracker
<1>5. Late(u, seq) \in Tracker
  BY <1>1 DEF Late, Tracker
<1>6. ASSUME t.expected \notin {None, seq}
      PROVE  Gap(u, seq) \in Tracker
  <2>1. u.expected \in SeqNo
    BY <1>3, <1>6 DEF Tracker
  <2>2. seq \in Int /\ u.expected \in Int
    BY <2>1 DEF SeqNo
  <2>3. Ahead(u, seq) \in Nat
    BY <2>2, SpaceFacts DEF Ahead
  <2>4. Append(u.gaps, <<u.expected, seq>>) \in Seq(SeqNo \X SeqNo)
    BY <1>1, <2>1 DEF Tracker
  <2> DEFINE g == Append(u.gaps, <<u.expected, seq>>)
  <2>5. u.drops + Ahead(u, seq) \in Nat
    BY <1>1, <2>3 DEF Tracker
  <2>6. Gap(u, seq) = [u EXCEPT !.drops = u.drops + Ahead(u, seq), !.gaps = g,
                                !.expected = Succ(seq)]
    BY DEF Gap
  <2> HIDE DEF u, g
  <2>7. Gap(u, seq) = [expected |-> Succ(seq), seen |-> u.seen, rx_count |-> u.rx_count,
                       drops |-> u.drops + Ahead(u, seq), duplicates |-> u.duplicates,
                       out_of_order |-> u.out_of_order, gaps |-> g]
    BY <1>1, <2>6 DEF Tracker
  <2>8. g \in Seq(SeqNo \X SeqNo)
    BY <2>4 DEF g
  <2> QED BY <1>1, <1>2, <2>5, <2>7, <2>8 DEF Tracker
<1> HIDE DEF u
<1>7. CASE t.expected \in {None, seq}
  <2>1. Track(t, seq) = InOrder(u, seq)
    BY <1>7, Zenon DEF Track, u
  <2> QED BY <1>4, <2>1
<1>8. CASE t.expected \notin {None, seq} /\ Ahead(u, seq) < WrapThreshold
  <2>1. Track(t, seq) = Gap(u, seq)
    BY <1>8, Zenon DEF Track, u
  <2> QED BY <1>6, <1>8, <2>1
<1>9. CASE t.expected \notin {None, seq} /\ ~(Ahead(u, seq) < WrapThreshold)
  <2>1. Track(t, seq) = Late(u, seq)
    BY <1>9, Zenon DEF Track, u
  <2> QED BY <1>5, <2>1
<1> QED BY <1>7, <1>8, <1>9

LEMMA TrackFirst ==
  ASSUME NEW t \in Tracker, NEW seq \in SeqNo, t.expected = None
  PROVE  /\ Track(t, seq).expected = Succ(seq)
         /\ Track(t, seq).drops = t.drops
         /\ Track(t, seq).rx_count = t.rx_count + 1
         /\ Track(t, seq).out_of_order = t.out_of_order
<1>1. Track(t, seq) = InOrder(Seen(t, seq), seq)
  BY Zenon DEF Track
<1>2. /\ Seen(t, seq) \in Tracker
      /\ Seen(t, seq).drops = t.drops
      /\ Seen(t, seq).rx_count = t.rx_count + 1
      /\ Seen(t, seq).out_of_order = t.out_of_order
  BY SeenFields
<1> HIDE DEF Seen
<1> QED BY <1>1, <1>2 DEF InOrder, Tracker

\* track remembers every number, and names a gap only before a frame that
\* is ahead of its turn.
LEMMA TrackRecord ==
  ASSUME NEW t \in Tracker, NEW seq \in SeqNo
  PROVE  LET v == Track(t, seq) IN
         /\ v.seen = t.seen \cup {seq}
         /\ v.duplicates = IF seq \in t.seen THEN t.duplicates + 1 ELSE t.duplicates
         /\ v.gaps = IF t.expected \notin {None, seq} /\ Ahead(t, seq) < WrapThreshold
                       THEN Append(t.gaps, <<t.expected, seq>>) ELSE t.gaps
<1> DEFINE u == Seen(t, seq)
<1>1. /\ u.seen = t.seen \cup {seq}
      /\ u.duplicates = IF seq \in t.seen THEN t.duplicates + 1 ELSE t.duplicates
      /\ u.gaps = t.gaps /\ u.expected = t.expected
  BY DEF Seen, Tracker
<1>2. Ahead(u, seq) = Ahead(t, seq)
  BY <1>1 DEF Ahead
<1>3. u \in Tracker
  BY SeenFields
<1> HIDE DEF u
<1>4. CASE t.expected \in {None, seq}
  <2>1. Track(t, seq) = InOrder(u, seq)
    BY <1>4, Zenon DEF Track, u
  <2>2. /\ InOrder(u, seq).seen = u.seen /\ InOrder(u, seq).duplicates = u.duplicates
        /\ InOrder(u, seq).gaps = u.gaps
    BY <1>3 DEF InOrder, Tracker
  <2> QED BY <1>1, <1>4, <2>1, <2>2
<1>5. CASE t.expected \notin {None, seq} /\ Ahead(u, seq) < WrapThreshold
  <2>1. Track(t, seq) = Gap(u, seq)
    BY <1>5, Zenon DEF Track, u
  <2>2. /\ Gap(u, seq).seen = u.seen /\ Gap(u, seq).duplicates = u.duplicates
        /\ Gap(u, seq).gaps = Append(u.gaps, <<u.expected, seq>>)
    BY <1>3 DEF Gap, Tracker
  <2> QED BY <1>1, <1>2, <1>5, <2>1, <2>2, Zenon
<1>6. CASE t.expected \notin {None, seq} /\ ~(Ahead(u, seq) < WrapThreshold)
  <2>1. Track(t, seq) = Late(u, seq)
    BY <1>6, Zenon DEF Track, u
  <2>2. /\ Late(u, seq).seen = u.seen /\ Late(u, seq).duplicates = u.duplicates
        /\ Late(u, seq).gaps = u.gaps
    BY <1>3 DEF Late, Tracker
  <2> QED BY <1>1, <1>2, <1>6, <2>1, <2>2, Zenon
<1> QED BY <1>4, <1>5, <1>6

\* With an expectation, track leaves a gap as wide as the number is ahead of
\* it, none when it is in turn, or counts a late frame and stays where it is.
LEMMA TrackInTurn ==
  ASSUME NEW t \in Tracker, NEW seq \in SeqNo, t.expected # None
  PROVE  LET v == Track(t, seq) IN
         /\ v.rx_count = t.rx_count + 1
         /\ Ahead(t, seq) \in Nat
         /\ Ahead(t, seq) < WrapThreshold =>
              /\ v.expected = Succ(seq)
              /\ v.drops = t.drops + Ahead(t, seq)
              /\ v.out_of_order = t.out_of_order
         /\ ~(Ahead(t, seq) < WrapThreshold) =>
              /\ v.expected = t.expected
              /\ v.drops = t.drops
              /\ v.out_of_order = t.out_of_order + 1
<1> DEFINE u == Seen(t, seq)
<1>1. /\ seq \in Int /\ t.expected \in Int
      /\ t.drops \in Nat /\ t.out_of_order \in Nat
  BY DEF Tracker, SeqNo
<1>2. /\ u \in Tracker /\ u.expected = t.expected /\ u.drops = t.drops
      /\ u.rx_count = t.rx_count + 1 /\ u.out_of_order = t.out_of_order
  BY SeenFields
<1>3. Ahead(u, seq) = Ahead(t, seq) /\ Ahead(t, seq) \in Nat
  BY <1>1, <1>2, SpaceFacts DEF Ahead
<1>4. t.expected = seq => Ahead(t, seq) = 0
  <2>1. (Space * 0 + 0) % Space = 0
    BY SpaceFacts, ModUnique
  <2>2. t.expected = seq => seq - t.expected = 0
    BY <1>1
  <2> QED BY <2>1, <2>2, SpaceFacts DEF Ahead
<1> HIDE DEF u
<1>5. CASE t.expected = seq
  <2>1. Track(t, seq) = InOrder(u, seq)
    BY <1>5, Zenon DEF Track, u
  <2>2. InOrder(u, seq).expected = Succ(seq) /\ InOrder(u, seq).drops = u.drops
        /\ InOrder(u, seq).rx_count = u.rx_count
        /\ InOrder(u, seq).out_of_order = u.out_of_order
    BY <1>2 DEF InOrder, Tracker
  <2>3. Ahead(t, seq) < WrapThreshold /\ t.drops + Ahead(t, seq) = t.drops
    BY <1>1, <1>4, <1>5, SpaceFacts
  <2> QED BY <1>2, <1>3, <2>1, <2>2, <2>3
<1>6. CASE t.expected # seq /\ Ahead(t, seq) < WrapThreshold
  <2>1. t.expected \notin {None, seq}
    BY <1>6
  <2>2. Track(t, seq) = Gap(u, seq)
    BY <1>3, <1>6, <2>1, Zenon DEF Track, u
  <2>3. Gap(u, seq).expected = Succ(seq) /\ Gap(u, seq).drops = u.drops + Ahead(u, seq)
        /\ Gap(u, seq).rx_count = u.rx_count
        /\ Gap(u, seq).out_of_order = u.out_of_order
    BY <1>2 DEF Gap, Tracker
  <2> QED BY <1>2, <1>3, <1>6, <2>2, <2>3
<1>7. CASE t.expected # seq /\ ~(Ahead(t, seq) < WrapThreshold)
  <2>1. t.expected \notin {None, seq}
    BY <1>7
  <2>2. Track(t, seq) = Late(u, seq)
    BY <1>3, <1>7, <2>1, Zenon DEF Track, u
  <2>3. Late(u, seq).expected = u.expected /\ Late(u, seq).drops = u.drops
        /\ Late(u, seq).rx_count = u.rx_count
        /\ Late(u, seq).out_of_order = u.out_of_order + 1
    BY <1>2 DEF Late, Tracker
  <2> QED BY <1>2, <1>3, <1>7, <2>2, <2>3
<1> QED BY <1>5, <1>6, <1>7

-----------------------------------------------------------------------------
(* The counters of a SequenceTracker, on a link the threshold can tell     *)
(* late frames on.                                                         *)
(*                                                                         *)
(* The tracker sees bare numbers. The argument is that its expectation is  *)
(* always the successor of the newest frame (Aligned), so that the wrapped *)
(* difference it computes is the true distance (AheadIsDistance). Then     *)
(* every number up to the newest is accounted for (IInv), and each counter *)
(* is the size of the set of frames or numbers it counts (CInv).           *)

LEMMA AbsIsInt ==
  ASSUME NEW n \in Numbers
  PROVE  /\ n.lap \in Nat /\ n.seq \in SeqNo /\ n.seq \in Nat /\ n.seq < Space
         /\ Abs(n) \in Int
         /\ Following(n) \in Numbers
         /\ Following(n).seq = Succ(n.seq)
         /\ Abs(Following(n)) = Abs(n) + 1
<1>1. n.lap \in Nat /\ n.seq \in SeqNo /\ n.seq \in Nat /\ n.seq < Space
  BY DEF Numbers, SeqNo
<1>2. Abs(n) = Space * n.lap + n.seq /\ Abs(n) \in Int
  BY <1>1, SpaceFacts DEF Abs
<1>3. Succ(n.seq) \in SeqNo
      /\ Succ(n.seq) = IF n.seq + 1 = Space THEN 0 ELSE n.seq + 1
  BY <1>1, SuccValue
<1>4. Following(n) \in Numbers /\ Following(n).seq = Succ(n.seq)
      /\ Following(n).lap = IF n.seq + 1 = Space THEN n.lap + 1 ELSE n.lap
  BY <1>1, <1>3 DEF Following, Numbers
<1>5. Abs(Following(n)) = Space * Following(n).lap + Succ(n.seq)
  BY <1>4 DEF Abs
<1>6. CASE n.seq + 1 = Space
  <2>1. Abs(Following(n)) = Space * (n.lap + 1) + 0
    BY <1>3, <1>4, <1>5, <1>6
  <2>2. Space * (n.lap + 1) = Space * n.lap + Space
    BY <1>1, SpaceFacts
  <2> QED BY <1>1, <1>2, <1>4, <1>6, <2>1, <2>2, SpaceFacts
<1>7. CASE n.seq + 1 # Space
  BY <1>1, <1>2, <1>3, <1>4, <1>5, <1>7, SpaceFacts
<1> QED BY <1>6, <1>7

\* The wrapped difference is the true distance, or that plus one lap.
LEMMA AheadIsDistance ==
  ASSUME NEW t, NEW n \in Numbers, NEW h \in Numbers,
         t.expected = Succ(h.seq),
         NEW d \in Int, d = Abs(n) - (Abs(h) + 1),
         d < WrapThreshold, d >= WrapThreshold - Space
  PROVE  Ahead(t, n.seq) = IF d >= 0 THEN d ELSE d + Space
<1> DEFINE e == Following(h)
<1>1. /\ n.lap \in Nat /\ n.seq \in Nat /\ e.lap \in Nat /\ e.seq \in Nat
      /\ t.expected = e.seq /\ Abs(e) = Abs(h) + 1
      /\ Abs(h) \in Int /\ Abs(e) \in Int /\ Abs(n) \in Int
  <2>1. e \in Numbers /\ e.seq = Succ(h.seq) /\ Abs(e) = Abs(h) + 1 /\ Abs(h) \in Int
    BY AbsIsInt
  <2>2. e.lap \in Nat /\ e.seq \in Nat /\ Abs(e) \in Int
    BY <2>1, AbsIsInt
  <2> QED BY <2>1, <2>2, AbsIsInt
<1>2. Abs(n) = Space * n.lap + n.seq /\ Abs(e) = Space * e.lap + e.seq
  BY DEF Abs
<1> HIDE DEF e
<1> DEFINE q == e.lap - n.lap
<1>3. q \in Int /\ n.seq - e.seq = Space * q + d
  <2>1. Space * (e.lap - n.lap) = Space * e.lap - Space * n.lap
    BY <1>1, SpaceFacts
  <2> QED BY <1>1, <1>2, <2>1, SpaceFacts
<1>4. Ahead(t, n.seq) = (Space * q + d) % Space
  BY <1>1, <1>3 DEF Ahead
<1> HIDE DEF q
<1>5. CASE d >= 0
  <2>1. (Space * q + d) % Space = d
    <3>1. 0 <= d /\ d < Space /\ Space \in Nat \ {0}
      BY <1>5, SpaceFacts
    <3> QED BY <1>3, <3>1, ModUnique
  <2> QED BY <1>4, <1>5, <2>1
<1>6. CASE d < 0
  <2>1. Space * q + d = Space * (q - 1) + (d + Space)
    <3>1. Space * (q - 1) = Space * q - Space
      BY <1>3, SpaceFacts
    <3> QED BY <1>3, <3>1, SpaceFacts
  <2>2. (Space * (q - 1) + (d + Space)) % Space = d + Space
    <3>1. 0 <= d + Space /\ d + Space < Space /\ Space \in Nat \ {0}
      BY <1>6, SpaceFacts
    <3>2. q - 1 \in Int /\ d + Space \in Int
      BY <1>3, SpaceFacts
    <3> QED BY <3>1, <3>2, ModUnique
  <2> QED BY <1>4, <1>6, <2>1, <2>2
<1> QED BY <1>5, <1>6

-----------------------------------------------------------------------------
\* The expectation is the successor of the newest frame, and the counters
\* account for every number up to it.
Aligned ==
  /\ highest = None => /\ first = None
                       /\ tracker.expected = None
                       /\ tracker.drops = 0
                       /\ tracker.rx_count = 0
                       /\ tracker.out_of_order = 0
  /\ highest # None => /\ first # None
                       /\ tracker.expected = Succ(highest.seq)

IInv == StreamTypeOK /\ Aligned /\ EveryNumberCounted

LEMMA TrackNext ==
  ASSUME NEW t \in Tracker, NEW n \in Numbers, NEW h \in Numbers,
         t.expected = Succ(h.seq),
         NEW d \in Int, d = Abs(n) - (Abs(h) + 1),
         d < WrapThreshold, d >= WrapThreshold - Space
  PROVE  LET v == Track(t, n.seq) IN
         /\ v.rx_count = t.rx_count + 1
         /\ d >= 0 => /\ v.expected = Succ(n.seq)
                      /\ v.drops = t.drops + d
                      /\ v.out_of_order = t.out_of_order
         /\ d < 0  => /\ v.expected = t.expected
                      /\ v.drops = t.drops
                      /\ v.out_of_order = t.out_of_order + 1
<1>1. n.seq \in SeqNo /\ t.expected # None
  <2>1. h.seq \in SeqNo /\ n.seq \in SeqNo
    BY AbsIsInt
  <2>2. Succ(h.seq) \in SeqNo
    BY <2>1, SuccValue
  <2> QED BY <2>1, <2>2, SpaceFacts
<1>2. Ahead(t, n.seq) = IF d >= 0 THEN d ELSE d + Space
  BY AheadIsDistance
<1>3. /\ d >= 0 => Ahead(t, n.seq) = d /\ Ahead(t, n.seq) < WrapThreshold
      /\ d < 0 => ~(Ahead(t, n.seq) < WrapThreshold)
  BY <1>2, SpaceFacts
<1> QED BY <1>1, <1>3, TrackInTurn

-----------------------------------------------------------------------------
LEMMA InitHolds == StreamInit => IInv
<1>1. SUFFICES ASSUME StreamInit PROVE IInv
  OBVIOUS
<1>2. NewTracker \in Tracker
  BY DEF NewTracker, Tracker
<1>3. next \in Numbers
  BY <1>1, StreamBounds DEF StreamInit, Numbers
<1>4. StreamTypeOK
  BY <1>1, <1>2, <1>3 DEF StreamInit, StreamTypeOK
<1>5. Aligned /\ EveryNumberCounted
  BY <1>1 DEF StreamInit, Aligned, EveryNumberCounted, NewTracker
<1> QED BY <1>4, <1>5 DEF IInv

\* The one step that matters: a frame is tracked.
LEMMA ArrivalHolds ==
  ASSUME IInv, NEW n, Arrives(n), air' \subseteq air, repeats' \in Nat
  PROVE  IInv'
<1>1. /\ n \in Numbers /\ tracker \in Tracker
      /\ tracker' = Track(tracker, n.seq)
      /\ first' = IF first = None THEN n ELSE first
      /\ highest' = IF highest = None \/ Abs(n) > Abs(highest) THEN n ELSE highest
  BY DEF IInv, StreamTypeOK, Arrives
<1>2. n.seq \in SeqNo /\ Abs(n) \in Int
  BY <1>1, AbsIsInt
<1>3. tracker' \in Tracker
  BY <1>1, <1>2, TrackType
<1>4. StreamTypeOK'
  BY <1>1, <1>3 DEF IInv, StreamTypeOK, Arrives
<1>5. n # None
  BY <1>1, StreamBounds
<1>6. CASE highest = None
  <2>1. first = None /\ tracker.expected = None /\ tracker.drops = 0
        /\ tracker.rx_count = 0 /\ tracker.out_of_order = 0
    BY <1>6 DEF IInv, Aligned
  <2>2. tracker'.expected = Succ(n.seq) /\ tracker'.drops = 0
        /\ tracker'.rx_count = 1 /\ tracker'.out_of_order = 0
    BY <1>1, <1>2, <2>1, TrackFirst
  <2>3. first' = n /\ highest' = n
    BY <1>1, <1>6, <2>1
  <2> QED BY <1>2, <1>4, <1>5, <2>2, <2>3 DEF IInv, Aligned, EveryNumberCounted, Abs
<1>7. CASE highest # None
  <2> DEFINE d == Abs(n) - (Abs(highest) + 1)
  <2>1. /\ highest \in Numbers /\ first \in Numbers /\ first # None
        /\ tracker.expected = Succ(highest.seq)
        /\ Abs(highest) \in Int /\ Abs(first) \in Int
    <3>1. highest \in Numbers /\ first \in Numbers /\ first # None
          /\ tracker.expected = Succ(highest.seq)
      BY <1>7 DEF IInv, StreamTypeOK, Aligned
    <3> QED BY <3>1, AbsIsInt
  <2>2. d \in Int /\ d < WrapThreshold /\ d >= WrapThreshold - Space
    BY <1>2, <1>7, <2>1 DEF Arrives, Tellable
  <2>3. /\ tracker'.rx_count = tracker.rx_count + 1
        /\ d >= 0 => /\ tracker'.expected = Succ(n.seq)
                     /\ tracker'.drops = tracker.drops + d
                     /\ tracker'.out_of_order = tracker.out_of_order
        /\ d < 0  => /\ tracker'.expected = tracker.expected
                     /\ tracker'.drops = tracker.drops
                     /\ tracker'.out_of_order = tracker.out_of_order + 1
    <3> HIDE DEF d
    <3>1. d = Abs(n) - (Abs(highest) + 1)
      BY DEF d
    <3> QED BY <1>1, <2>1, <2>2, <3>1, TrackNext
  <2>4. tracker.drops \in Nat /\ tracker.rx_count \in Nat /\ tracker.out_of_order \in Nat
    BY <1>1 DEF Tracker
  <2>5. tracker.drops + tracker.rx_count - tracker.out_of_order
          = Abs(highest) - Abs(first) + 1
    BY <1>7 DEF IInv, EveryNumberCounted
  <2>6. first' = first
    BY <1>1, <2>1
  <2>7. CASE d >= 0
    <3>1. highest' = n
      BY <1>1, <1>2, <2>1, <2>7
    <3>2. EveryNumberCounted'
      <4>1. tracker'.drops + tracker'.rx_count - tracker'.out_of_order
              = Abs(n) - Abs(first) + 1
        BY <1>2, <2>1, <2>3, <2>4, <2>5, <2>7
      <4> QED BY <2>6, <3>1, <4>1 DEF EveryNumberCounted, Abs
    <3>3. Aligned'
      BY <1>5, <2>1, <2>3, <2>6, <2>7, <3>1 DEF Aligned
    <3> QED BY <1>4, <3>2, <3>3 DEF IInv
  <2>8. CASE d < 0
    <3>1. highest' = highest
      BY <1>1, <1>2, <1>7, <2>1, <2>8
    <3>2. EveryNumberCounted'
      <4>1. tracker'.drops + tracker'.rx_count - tracker'.out_of_order
              = Abs(highest) - Abs(first) + 1
        BY <2>1, <2>3, <2>4, <2>5, <2>8
      <4> QED BY <2>6, <3>1, <4>1 DEF EveryNumberCounted, Abs
    <3>3. Aligned'
      BY <1>7, <2>1, <2>3, <2>6, <2>8, <3>1 DEF Aligned
    <3> QED BY <1>4, <3>2, <3>3 DEF IInv
  <2> QED BY <2>2, <2>7, <2>8
<1> QED BY <1>6, <1>7

LEMMA StepHolds == IInv /\ [StreamNext]_streamVars => IInv'
<1> SUFFICES ASSUME IInv, [StreamNext]_streamVars PROVE IInv'
  OBVIOUS
<1>1. CASE SendNext
  <2>1. Following(next) \in Numbers
    BY AbsIsInt DEF IInv, StreamTypeOK
  <2>2. StreamTypeOK'
    BY <1>1, <2>1 DEF SendNext, IInv, StreamTypeOK
  <2> QED BY <1>1, <2>2 DEF SendNext, IInv, Aligned, EveryNumberCounted
<1>2. ASSUME NEW n \in air, Lose(n) PROVE IInv'
  <2>1. StreamTypeOK'
    BY <1>2 DEF Lose, IInv, StreamTypeOK
  <2> QED BY <1>2, <2>1 DEF Lose, IInv, Aligned, EveryNumberCounted
<1>3. ASSUME NEW n \in air, Receive(n) PROVE IInv'
  BY <1>3, ArrivalHolds DEF Receive, IInv, StreamTypeOK
<1>4. ASSUME NEW n \in air, Repeat(n) PROVE IInv'
  BY <1>4, ArrivalHolds DEF Repeat, IInv, StreamTypeOK
<1>5. CASE UNCHANGED streamVars
  BY <1>5 DEF streamVars, IInv, StreamTypeOK, Aligned, EveryNumberCounted
<1> QED BY <1>1, <1>2, <1>3, <1>4, <1>5 DEF StreamNext

THEOREM Invariance == StreamSpec => []IInv
BY InitHolds, StepHolds, PTL DEF StreamSpec

\* The state is well typed: in particular no counter ever goes below zero.
THEOREM TypeCorrect == StreamSpec => []StreamTypeOK
<1>1. IInv => StreamTypeOK
  BY DEF IInv
<1> QED BY <1>1, Invariance, PTL

\* From the first frame tracked to the newest, every number of the stream is
\* a drop or a frame that came in order, however long the run is.
THEOREM NumbersAccounted == StreamSpec => []EveryNumberCounted
<1>1. IInv => EveryNumberCounted
  BY DEF IInv
<1> QED BY <1>1, Invariance, PTL

-----------------------------------------------------------------------------
(* What the counters count.                                                *)

\* Overtaken, IsLate and IsRepeated of a sequence of frames.
OvertakenIn(s, lo, hi) ==
  {a \in lo .. hi :
     \E i \in 1 .. Len(s) : /\ Abs(s[i]) > a
                            /\ \A j \in 1 .. i : Abs(s[j]) # a}
LateIn(s)     == {i \in 1 .. Len(s) : \E j \in 1 .. i - 1 : Abs(s[j]) >= Abs(s[i])}
RepeatedIn(s) == {i \in 1 .. Len(s) : \E j \in 1 .. i - 1 : s[j] = s[i]}

LEMMA Appended ==
  ASSUME NEW s \in Seq(Numbers), NEW n \in Numbers
  PROVE  /\ Len(s) \in Nat
         /\ Len(Append(s, n)) = Len(s) + 1
         /\ \A i \in 1 .. Len(s) : /\ Append(s, n)[i] = s[i] /\ s[i] \in Numbers
                                   /\ Abs(s[i]) \in Int
         /\ Append(s, n)[Len(s) + 1] = n
         /\ Abs(n) \in Int
<1>1. /\ Len(s) \in Nat /\ Len(Append(s, n)) = Len(s) + 1
      /\ \A i \in 1 .. Len(s) : Append(s, n)[i] = s[i]
      /\ Append(s, n)[Len(s) + 1] = n
  BY AppendProperties, LenProperties
<1>2. \A i \in 1 .. Len(s) : s[i] \in Numbers
  BY ElementOfSeq
<1> QED BY <1>1, <1>2, AbsIsInt

\* A frame newer than all overtakes the numbers between; a late one none.
LEMMA OvertakenGrows ==
  ASSUME NEW s \in Seq(Numbers), NEW n \in Numbers, NEW k \in 1 .. Len(s),
         \A i \in 1 .. Len(s) : Abs(s[i]) <= Abs(s[k]),
         NEW lo \in Int, lo <= Abs(s[k])
  PROVE  LET h == Abs(s[k]) IN
         /\ Abs(n) > h => OvertakenIn(Append(s, n), lo, Abs(n))
                            = OvertakenIn(s, lo, h) \cup (h + 1 .. Abs(n) - 1)
         /\ ~(Abs(n) > h) => OvertakenIn(Append(s, n), lo, h) = OvertakenIn(s, lo, h)
<1> DEFINE t == Append(s, n)
           N == Len(s)
           h == Abs(s[k])
           v == Abs(n)
<1>1. /\ N \in Nat /\ Len(t) = N + 1
      /\ \A i \in 1 .. N : t[i] = s[i] /\ Abs(s[i]) \in Int
      /\ t[N + 1] = n /\ v \in Int /\ h \in Int
  BY Appended
<1>2. \A i \in 1 .. N : Abs(t[i]) = Abs(s[i])
  BY <1>1
<1>3. Abs(t[N + 1]) = v
  BY <1>1
<1>4. \A i \in 1 .. N : Abs(s[i]) <= h
  OBVIOUS
<1> HIDE DEF t, N, h, v
\* What was overtaken still is.
<1>5. ASSUME NEW a \in Int, NEW i \in 1 .. N, Abs(s[i]) > a, \A j \in 1 .. i : Abs(s[j]) # a
      PROVE  \E m \in 1 .. Len(t) : Abs(t[m]) > a /\ \A j \in 1 .. m : Abs(t[j]) # a
  <2>1. i \in 1 .. Len(t) /\ Abs(t[i]) > a
    BY <1>1, <1>2, <1>5
  <2>2. \A j \in 1 .. i : Abs(t[j]) # a
    BY <1>1, <1>2, <1>5
  <2> QED BY <2>1, <2>2
\* What is overtaken now, and is no newer than the newest before, already was.
<1>6. ASSUME NEW a \in Int, a <= h, NEW m \in 1 .. Len(t), Abs(t[m]) > a,
             \A j \in 1 .. m : Abs(t[j]) # a
      PROVE  \E i \in 1 .. N : Abs(s[i]) > a /\ \A j \in 1 .. i : Abs(s[j]) # a
  <2>1. CASE m \in 1 .. N
    <3>1. Abs(s[m]) > a
      BY <1>2, <1>6, <2>1
    <3>2. \A j \in 1 .. m : Abs(s[j]) # a
      <4>1. \A j \in 1 .. m : j \in 1 .. N
        BY <1>1, <2>1
      <4> QED BY <1>2, <1>6, <4>1, Zenon
    <3> QED BY <2>1, <3>1, <3>2
  <2>2. CASE m = N + 1
    <3>1. \A j \in 1 .. N : Abs(s[j]) # a
      BY <1>1, <1>2, <1>6, <2>2
    <3>2. k \in 1 .. N /\ Abs(s[k]) = h
      BY DEF N, h
    <3>3. h > a
      BY <1>1, <1>6, <3>1, <3>2
    <3>4. \A j \in 1 .. k : Abs(s[j]) # a
      BY <1>1, <3>1, <3>2
    <3> QED BY <3>2, <3>3, <3>4
  <2> QED BY <1>1, <2>1, <2>2
<1>7. ASSUME v > h
      PROVE  OvertakenIn(t, lo, v) = OvertakenIn(s, lo, h) \cup (h + 1 .. v - 1)
  <2>1. ASSUME NEW a \in OvertakenIn(t, lo, v)
        PROVE  a \in OvertakenIn(s, lo, h) \cup (h + 1 .. v - 1)
    <3>1. /\ a \in Int /\ lo <= a /\ a <= v
      BY <1>1 DEF OvertakenIn
    <3>2. PICK m \in 1 .. Len(t) : Abs(t[m]) > a /\ \A j \in 1 .. m : Abs(t[j]) # a
      BY DEF OvertakenIn
    <3>3. CASE a <= h
      <4>1. \E i \in 1 .. N : Abs(s[i]) > a /\ \A j \in 1 .. i : Abs(s[j]) # a
        BY <1>6, <3>1, <3>2, <3>3
      <4>2. a \in lo .. h
        BY <1>1, <3>1, <3>3
      <4> QED BY <4>1, <4>2 DEF OvertakenIn, N
    <3>4. CASE ~(a <= h)
      <4>1. a # v
        <5>1. Abs(t[m]) <= v
          <6>1. CASE m \in 1 .. N
            BY <1>1, <1>2, <1>4, <1>7, <6>1
          <6>2. CASE m = N + 1
            BY <1>1, <1>3, <6>2
          <6> QED BY <1>1, <6>1, <6>2
        <5>2. Abs(t[m]) \in Int
          BY <1>1, <1>2, <1>3
        <5> QED BY <1>1, <3>2, <5>1, <5>2
      <4> QED BY <1>1, <3>1, <3>4, <4>1
    <3> QED BY <3>3, <3>4
  <2>2. ASSUME NEW a \in OvertakenIn(s, lo, h)
        PROVE  a \in OvertakenIn(t, lo, v)
    <3>1. a \in Int /\ a \in lo .. v
      BY <1>1, <1>7 DEF OvertakenIn
    <3>2. \E i \in 1 .. N : Abs(s[i]) > a /\ \A j \in 1 .. i : Abs(s[j]) # a
      BY DEF OvertakenIn, N
    <3> QED BY <1>5, <3>1, <3>2 DEF OvertakenIn
  <2>3. ASSUME NEW a \in h + 1 .. v - 1
        PROVE  a \in OvertakenIn(t, lo, v)
    <3>1. a \in Int /\ a \in lo .. v /\ a > h /\ a < v
      <4>1. lo <= h
        BY DEF h
      <4> QED BY <1>1, <4>1
    <3>2. \A j \in 1 .. N + 1 : Abs(t[j]) # a
      BY <1>1, <1>2, <1>3, <1>4, <3>1
    <3>3. Abs(t[N + 1]) > a /\ N + 1 \in 1 .. Len(t)
      BY <1>1, <1>3, <3>1
    <3> QED BY <3>1, <3>2, <3>3 DEF OvertakenIn
  <2> QED BY <2>1, <2>2, <2>3
<1>8. OvertakenIn(t, lo, h) = OvertakenIn(s, lo, h)
  <2>1. ASSUME NEW a \in OvertakenIn(t, lo, h)
        PROVE  a \in OvertakenIn(s, lo, h)
    <3>1. /\ a \in Int /\ a <= h /\ a \in lo .. h
      BY <1>1 DEF OvertakenIn
    <3>2. PICK m \in 1 .. Len(t) : Abs(t[m]) > a /\ \A j \in 1 .. m : Abs(t[j]) # a
      BY DEF OvertakenIn
    <3>3. \E i \in 1 .. N : Abs(s[i]) > a /\ \A j \in 1 .. i : Abs(s[j]) # a
      BY <1>6, <3>1, <3>2
    <3> QED BY <3>1, <3>3 DEF OvertakenIn, N
  <2>2. ASSUME NEW a \in OvertakenIn(s, lo, h)
        PROVE  a \in OvertakenIn(t, lo, h)
    <3>1. a \in Int /\ a \in lo .. h
      BY DEF OvertakenIn
    <3>2. \E i \in 1 .. N : Abs(s[i]) > a /\ \A j \in 1 .. i : Abs(s[j]) # a
      BY DEF OvertakenIn, N
    <3> QED BY <1>5, <3>1, <3>2 DEF OvertakenIn
  <2> QED BY <2>1, <2>2
<1> QED BY <1>7, <1>8 DEF t, h, v

\* A frame is late when it is no newer than the newest before it.
LEMMA LateGrows ==
  ASSUME NEW s \in Seq(Numbers), NEW n \in Numbers, NEW k \in 1 .. Len(s),
         \A i \in 1 .. Len(s) : Abs(s[i]) <= Abs(s[k])
  PROVE  LateIn(Append(s, n)) =
           IF Abs(n) > Abs(s[k]) THEN LateIn(s) ELSE LateIn(s) \cup {Len(s) + 1}
<1> DEFINE t == Append(s, n)
           N == Len(s)
<1>1. /\ N \in Nat /\ Len(t) = N + 1
      /\ \A i \in 1 .. N : t[i] = s[i] /\ Abs(s[i]) \in Int
      /\ t[N + 1] = n /\ Abs(n) \in Int /\ k \in 1 .. N
  BY Appended
<1> HIDE DEF t, N
<1>2. \A i \in 1 .. N : (\E j \in 1 .. i - 1 : Abs(t[j]) >= Abs(t[i]))
                           <=> (\E j \in 1 .. i - 1 : Abs(s[j]) >= Abs(s[i]))
  <2> SUFFICES ASSUME NEW i \in 1 .. N
               PROVE  \A j \in 1 .. i - 1 : t[j] = s[j] /\ t[i] = s[i]
    OBVIOUS
  <2> QED BY <1>1
<1>3. (\E j \in 1 .. (N + 1) - 1 : Abs(t[j]) >= Abs(t[N + 1])) <=> ~(Abs(n) > Abs(s[k]))
  <2>1. 1 .. (N + 1) - 1 = 1 .. N
    BY <1>1
  <2>2. \A j \in 1 .. N : t[j] = s[j] /\ Abs(s[j]) <= Abs(s[k]) /\ Abs(s[j]) \in Int
    BY <1>1 DEF N
  <2>3. (\E j \in 1 .. N : Abs(s[j]) >= Abs(n)) <=> ~(Abs(n) > Abs(s[k]))
    BY <1>1, <2>2
  <2> QED BY <1>1, <2>1, <2>2, <2>3
<1>4. 1 .. Len(t) = (1 .. N) \cup {N + 1} /\ N + 1 \notin 1 .. N
  BY <1>1
<1>5. LateIn(t) = {i \in 1 .. N : \E j \in 1 .. i - 1 : Abs(s[j]) >= Abs(s[i])}
                    \cup (IF Abs(n) > Abs(s[k]) THEN {} ELSE {N + 1})
  BY <1>2, <1>3, <1>4, Zenon DEF LateIn
<1> QED BY <1>5 DEF LateIn, t, N

LEMMA RepeatedGrows ==
  ASSUME NEW s \in Seq(Numbers), NEW n \in Numbers
  PROVE  RepeatedIn(Append(s, n)) =
           IF \E j \in 1 .. Len(s) : s[j] = n THEN RepeatedIn(s) \cup {Len(s) + 1}
           ELSE RepeatedIn(s)
<1> DEFINE t == Append(s, n)
           N == Len(s)
<1>1. /\ N \in Nat /\ Len(t) = N + 1
      /\ \A i \in 1 .. N : t[i] = s[i]
      /\ t[N + 1] = n
  BY Appended
<1> HIDE DEF t, N
<1>2. \A i \in 1 .. N : (\E j \in 1 .. i - 1 : t[j] = t[i]) <=> (\E j \in 1 .. i - 1 : s[j] = s[i])
  <2> SUFFICES ASSUME NEW i \in 1 .. N
               PROVE  \A j \in 1 .. i - 1 : t[j] = s[j] /\ t[i] = s[i]
    OBVIOUS
  <2> QED BY <1>1
<1>3. (\E j \in 1 .. (N + 1) - 1 : t[j] = t[N + 1]) <=> (\E j \in 1 .. N : s[j] = n)
  <2>1. 1 .. (N + 1) - 1 = 1 .. N
    BY <1>1
  <2> QED BY <1>1, <2>1
<1>4. 1 .. Len(t) = (1 .. N) \cup {N + 1} /\ N + 1 \notin 1 .. N
  BY <1>1
<1>5. RepeatedIn(t) = {i \in 1 .. N : \E j \in 1 .. i - 1 : s[j] = s[i]}
                    \cup (IF \E j \in 1 .. N : s[j] = n THEN {N + 1} ELSE {})
  BY <1>2, <1>3, <1>4, Zenon DEF RepeatedIn
<1> QED BY <1>5 DEF RepeatedIn, t, N

\* The sets are finite, and a new index is one more.
LEMMA CountedSets ==
  ASSUME NEW s \in Seq(Numbers)
  PROVE  /\ IsFiniteSet(LateIn(s)) /\ IsFiniteSet(RepeatedIn(s))
         /\ Cardinality(LateIn(s)) \in Nat /\ Cardinality(RepeatedIn(s)) \in Nat
         /\ Cardinality(LateIn(s) \cup {Len(s) + 1}) = Cardinality(LateIn(s)) + 1
         /\ Cardinality(RepeatedIn(s) \cup {Len(s) + 1}) = Cardinality(RepeatedIn(s)) + 1
<1>1. Len(s) \in Nat /\ IsFiniteSet(1 .. Len(s)) /\ Len(s) + 1 \notin 1 .. Len(s)
  BY LenProperties, FS_Interval
<1>2. LateIn(s) \in SUBSET (1 .. Len(s)) /\ RepeatedIn(s) \in SUBSET (1 .. Len(s))
  BY DEF LateIn, RepeatedIn
<1>3. IsFiniteSet(LateIn(s)) /\ IsFiniteSet(RepeatedIn(s))
  BY <1>1, <1>2, FS_Subset
<1>4. Len(s) + 1 \notin LateIn(s) /\ Len(s) + 1 \notin RepeatedIn(s)
  BY <1>1, <1>2
<1> QED BY <1>3, <1>4, FS_AddElement, FS_CardinalityType

-----------------------------------------------------------------------------
(* What gaps names.                                                        *)

GapNumbers(gaps) == UNION {Between(gaps[i]) : i \in 1 .. Len(gaps)}

\* A gap left before a frame names the numbers between it and the newest.
LEMMA BetweenIsSpan ==
  ASSUME NEW h \in Numbers, NEW n \in Numbers,
         NEW d \in Int, d = Abs(n) - (Abs(h) + 1), 0 <= d, d < WrapThreshold
  PROVE  Between(<<Succ(h.seq), n.seq>>) = {a % Space : a \in Abs(h) + 1 .. Abs(n) - 1}
<1> DEFINE e == Following(h)
           t == [expected |-> Succ(h.seq)]
<1>1. /\ e \in Numbers /\ e.seq = Succ(h.seq) /\ Abs(e) = Abs(h) + 1
      /\ Abs(h) \in Int /\ Abs(n) \in Int
  BY AbsIsInt
<1>2. e.lap \in Nat /\ e.seq \in Nat /\ Abs(e) = Space * e.lap + e.seq
  BY <1>1, AbsIsInt DEF Abs
<1>3. (n.seq - Succ(h.seq)) % Space = d
  <2>1. Ahead(t, n.seq) = IF d >= 0 THEN d ELSE d + Space
    <3>1. t.expected = Succ(h.seq) /\ d >= WrapThreshold - Space
      BY SpaceFacts
    <3> HIDE DEF t
    <3> QED BY <3>1, AheadIsDistance
  <2> QED BY <2>1 DEF Ahead
<1>4. Between(<<Succ(h.seq), n.seq>>) = {(e.seq + k) % Space : k \in 0 .. d - 1}
  BY <1>1, <1>3 DEF Between
<1> HIDE DEF e
<1>5. \A k \in Int : (Space * e.lap + e.seq + k) % Space = (e.seq + k) % Space
  <2> SUFFICES ASSUME NEW k \in Int
               PROVE  (Space * e.lap + e.seq + k) % Space = (e.seq + k) % Space
    OBVIOUS
  <2>1. e.seq + k \in Int /\ e.lap \in Int /\ Space \in Nat \ {0}
    BY <1>2, SpaceFacts
  <2>2. Space * e.lap + e.seq + k = Space * e.lap + (e.seq + k)
    BY <1>2, SpaceFacts
  <2>3. (Space * e.lap + (e.seq + k)) % Space = (e.seq + k) % Space
    BY <2>1, ModShift
  <2> QED BY <2>2, <2>3
<1>6. Abs(h) + 1 = Space * e.lap + e.seq
  BY <1>1, <1>2
<1>7. ASSUME NEW k \in 0 .. d - 1
      PROVE  \E a \in Abs(h) + 1 .. Abs(n) - 1 : a % Space = (e.seq + k) % Space
  <2>1. Abs(h) + 1 + k \in Abs(h) + 1 .. Abs(n) - 1
    BY <1>1
  <2>2. (Abs(h) + 1 + k) % Space = (e.seq + k) % Space
    BY <1>5, <1>6
  <2> QED BY <2>1, <2>2
<1>8. ASSUME NEW a \in Abs(h) + 1 .. Abs(n) - 1
      PROVE  \E k \in 0 .. d - 1 : a % Space = (e.seq + k) % Space
  <2> DEFINE k == a - (Abs(h) + 1)
  <2>1. k \in 0 .. d - 1 /\ a = Abs(h) + 1 + k
    BY <1>1
  <2>2. (Abs(h) + 1 + k) % Space = (e.seq + k) % Space
    BY <1>1, <1>5, <1>6
  <2> QED BY <2>1, <2>2
<1> QED BY <1>4, <1>7, <1>8

LEMMA GapsGrow ==
  ASSUME NEW gaps \in Seq(SeqNo \X SeqNo), NEW g \in SeqNo \X SeqNo
  PROVE  GapNumbers(Append(gaps, g)) = GapNumbers(gaps) \cup Between(g)
<1>1. /\ Len(gaps) \in Nat /\ Len(Append(gaps, g)) = Len(gaps) + 1
      /\ \A i \in 1 .. Len(gaps) : Append(gaps, g)[i] = gaps[i]
      /\ Append(gaps, g)[Len(gaps) + 1] = g
  BY AppendProperties, LenProperties
<1>2. 1 .. Len(Append(gaps, g)) = (1 .. Len(gaps)) \cup {Len(gaps) + 1}
  BY <1>1
<1>3. ASSUME NEW x \in GapNumbers(Append(gaps, g))
      PROVE  x \in GapNumbers(gaps) \cup Between(g)
  <2>1. PICK i \in 1 .. Len(Append(gaps, g)) : x \in Between(Append(gaps, g)[i])
    BY Zenon DEF GapNumbers
  <2>2. CASE i \in 1 .. Len(gaps)
    <3>1. x \in Between(gaps[i])
      BY <1>1, <2>1, <2>2, Zenon
    <3> QED BY <2>2, <3>1, Zenon DEF GapNumbers
  <2>3. CASE i = Len(gaps) + 1
    BY <1>1, <2>1, <2>3, Zenon
  <2> QED BY <1>2, <2>2, <2>3, Zenon
<1>4. ASSUME NEW x \in GapNumbers(gaps)
      PROVE  x \in GapNumbers(Append(gaps, g))
  <2>1. PICK i \in 1 .. Len(gaps) : x \in Between(gaps[i])
    BY Zenon DEF GapNumbers
  <2>2. i \in 1 .. Len(Append(gaps, g)) /\ x \in Between(Append(gaps, g)[i])
    BY <1>1, <1>2, <2>1, Zenon
  <2> QED BY <2>2, Zenon DEF GapNumbers
<1>5. ASSUME NEW x \in Between(g)
      PROVE  x \in GapNumbers(Append(gaps, g))
  <2>1. Len(gaps) + 1 \in 1 .. Len(Append(gaps, g))
    BY <1>2
  <2>2. x \in Between(Append(gaps, g)[Len(gaps) + 1])
    BY <1>1, <1>5, Zenon
  <2> QED BY <2>1, <2>2, Zenon DEF GapNumbers
<1> QED BY <1>3, <1>4, <1>5, Zenon

-----------------------------------------------------------------------------
\* No two numbers of a span no longer than the space are the same on the wire.
LEMMA SameOnTheWire ==
  ASSUME NEW m \in Numbers, NEW n \in Numbers, m.seq = n.seq,
         NEW lo \in Int, NEW hi \in Int, hi - lo <= Space,
         lo <= Abs(m), Abs(m) < hi, lo <= Abs(n), Abs(n) < hi
  PROVE  m = n
<1>1. /\ m.lap \in Nat /\ n.lap \in Nat /\ m.seq \in Nat
      /\ Abs(m) = Space * m.lap + m.seq /\ Abs(n) = Space * n.lap + m.seq
  BY AbsIsInt DEF Abs
<1>2. \A j, k \in Nat : j > k => Space * j >= Space * k + Space
  <2> SUFFICES ASSUME NEW j \in Nat, NEW k \in Nat, j > k
               PROVE  Space * j >= Space * k + Space
    OBVIOUS
  <2>1. PICK x \in Nat : j = k + 1 + x
    <3>1. j - (k + 1) \in Nat /\ j = k + 1 + (j - (k + 1))
      OBVIOUS
    <3> QED BY <3>1
  <2>2. Space * j = Space * k + Space + Space * x
    BY <2>1, SpaceFacts
  <2>3. Space * x >= 0 /\ Space * x \in Int /\ Space * k \in Int
    BY SpaceFacts
  <2> QED BY <2>2, <2>3, SpaceFacts
<1>3. m.lap = n.lap
  <2>1. Space * m.lap \in Int /\ Space * n.lap \in Int
    BY <1>1, SpaceFacts
  <2>2. ASSUME m.lap > n.lap PROVE FALSE
    <3>1. Space * m.lap >= Space * n.lap + Space
      BY <1>1, <1>2, <2>2
    <3> QED BY <1>1, <2>1, <3>1, SpaceFacts
  <2>3. ASSUME n.lap > m.lap PROVE FALSE
    <3>1. Space * n.lap >= Space * m.lap + Space
      BY <1>1, <1>2, <2>3
    <3> QED BY <1>1, <2>1, <3>1, SpaceFacts
  <2> QED BY <1>1, <2>2, <2>3
<1> QED BY <1>3 DEF Numbers

\* The newest frame is one that arrived, and none is newer.
Newest ==
  /\ highest = None <=> arrived = <<>>
  /\ highest = None => tracker = NewTracker
  /\ highest # None =>
       /\ Abs(first) <= Abs(highest)
       /\ \E k \in 1 .. Len(arrived) : arrived[k] = highest
       /\ \A i \in 1 .. Len(arrived) : Abs(arrived[i]) <= Abs(highest)

Tracked == {arrived[i] : i \in 1 .. Len(arrived)}

\* Every frame there is was sent: it is one of the last "sent" numbers.
WasSent ==
  \A n \in air \cup Tracked : Abs(next) - sent <= Abs(n) /\ Abs(n) < Abs(next)

SeenIsTracked == tracker.seen = {m.seq : m \in Tracked}

\* Each counter is the size of the set it counts.
CountersCount ==
  /\ highest # None =>
       /\ tracker.drops = Cardinality(OvertakenIn(arrived, Abs(first), Abs(highest)))
       /\ IsFiniteSet(OvertakenIn(arrived, Abs(first), Abs(highest)))
       /\ GapNumbers(tracker.gaps)
            = {a % Space : a \in OvertakenIn(arrived, Abs(first), Abs(highest))}
  /\ tracker.out_of_order = Cardinality(LateIn(arrived))
  /\ sent <= Space => tracker.duplicates = Cardinality(RepeatedIn(arrived))

CInv == IInv /\ Newest /\ WasSent /\ SeenIsTracked /\ CountersCount

LEMMA CInvImplies == CInv => CountsExact
<1> SUFFICES ASSUME CInv PROVE CountsExact
  OBVIOUS
<1>1. highest = None => arrived = <<>>
  BY DEF CInv, Newest
<1>2. Overtaken = OvertakenIn(arrived, Abs(first), Abs(highest))
  BY Zenon DEF Overtaken, OvertakenIn, Now
<1>3. {i \in Now : IsLate(i)} = LateIn(arrived)
  BY Zenon DEF LateIn, Now, IsLate
<1>4. {i \in Now : IsRepeated(i)} = RepeatedIn(arrived)
  BY Zenon DEF RepeatedIn, Now, IsRepeated
<1>5. CountersCount
  BY DEF CInv
<1>6. arrived # <<>> => /\ tracker.drops = Cardinality(Overtaken)
                        /\ tracker.out_of_order = Cardinality({i \in Now : IsLate(i)})
  BY <1>1, <1>2, <1>3, <1>5, Zenon DEF CountersCount
<1>7. sent <= Space => tracker.duplicates = Cardinality({i \in Now : IsRepeated(i)})
  BY <1>4, <1>5, Zenon DEF CountersCount
<1>8. arrived # <<>> => GapNumbers(tracker.gaps) = {a % Space : a \in Overtaken}
  BY <1>1, <1>2, <1>5, Zenon DEF CountersCount
<1> QED BY <1>6, <1>7, <1>8, Zenon DEF CountsExact, GapNumbers

LEMMA CountsInit == StreamInit => CInv
<1> SUFFICES ASSUME StreamInit PROVE CInv
  OBVIOUS
<1>1. highest = None /\ arrived = <<>> /\ tracker = NewTracker /\ air = {}
  BY DEF StreamInit
<1>2. Newest
  BY <1>1 DEF Newest
<1>3. Len(arrived) = 0 /\ 1 .. Len(arrived) = {} /\ Tracked = {}
  BY <1>1 DEF Tracked
<1>4. WasSent /\ SeenIsTracked
  BY <1>1, <1>3 DEF WasSent, SeenIsTracked, NewTracker
<1>5. LateIn(arrived) = {} /\ RepeatedIn(arrived) = {}
  BY <1>3 DEF LateIn, RepeatedIn
<1>6. CountersCount
  BY <1>1, <1>5, FS_EmptySet DEF CountersCount, NewTracker
<1> QED BY <1>2, <1>4, <1>6, InitHolds DEF CInv

\* The one step that matters: a frame is tracked.
LEMMA CountsArrival ==
  ASSUME CInv, NEW n \in air, Arrives(n), air' \subseteq air
  PROVE  Newest' /\ WasSent' /\ SeenIsTracked' /\ CountersCount'
<1> DEFINE N == Len(arrived)
<1>1. /\ n \in Numbers /\ tracker \in Tracker /\ arrived \in Seq(Numbers)
      /\ tracker' = Track(tracker, n.seq)
      /\ arrived' = Append(arrived, n)
      /\ first' = IF first = None THEN n ELSE first
      /\ highest' = IF highest = None \/ Abs(n) > Abs(highest) THEN n ELSE highest
      /\ next' = next /\ sent' = sent
      /\ next \in Numbers /\ sent \in Nat
  BY DEF CInv, IInv, StreamTypeOK, Arrives
<1>2. /\ N \in Nat /\ Len(arrived') = N + 1
      /\ \A i \in 1 .. N : arrived'[i] = arrived[i] /\ arrived[i] \in Numbers
                           /\ Abs(arrived[i]) \in Int
      /\ arrived'[N + 1] = n /\ Abs(n) \in Int
  BY <1>1, Appended
<1>3. n.seq \in SeqNo /\ Abs(next) \in Int /\ n # None
  BY <1>1, AbsIsInt, StreamBounds
<1>4. Tracked' = Tracked \cup {n}
  <2>1. 1 .. Len(arrived') = (1 .. N) \cup {N + 1}
    BY <1>2
  <2> HIDE DEF N
  <2>2. {arrived'[i] : i \in 1 .. Len(arrived')} = {arrived[i] : i \in 1 .. N} \cup {n}
    BY <1>2, <2>1
  <2> QED BY <2>2 DEF Tracked, N
<1>5. WasSent'
  <2>1. \A m \in air \cup Tracked \cup {n} : Abs(next) - sent <= Abs(m) /\ Abs(m) < Abs(next)
    BY DEF CInv, WasSent
  <2>2. air' \cup Tracked' \subseteq air \cup Tracked \cup {n}
    BY <1>4
  <2> QED BY <1>1, <2>1, <2>2 DEF WasSent, Abs
<1>6. /\ tracker'.seen = tracker.seen \cup {n.seq}
      /\ tracker'.duplicates = IF n.seq \in tracker.seen THEN tracker.duplicates + 1
                               ELSE tracker.duplicates
      /\ tracker'.gaps = IF tracker.expected \notin {None, n.seq}
                              /\ Ahead(tracker, n.seq) < WrapThreshold
                           THEN Append(tracker.gaps, <<tracker.expected, n.seq>>)
                           ELSE tracker.gaps
  BY <1>1, <1>3, TrackRecord
<1>7. SeenIsTracked'
  <2>1. tracker.seen = {m.seq : m \in Tracked}
    BY DEF CInv, SeenIsTracked
  <2>2. tracker'.seen = {m.seq : m \in Tracked \cup {n}}
    BY <1>6, <2>1
  <2> QED BY <1>4, <2>2 DEF SeenIsTracked
\* A number seen before is, while the space lasts, the same frame again.
<1>8. sent <= Space => (n.seq \in tracker.seen <=> \E j \in 1 .. N : arrived[j] = n)
  <2> SUFFICES ASSUME sent <= Space
               PROVE  n.seq \in tracker.seen <=> \E j \in 1 .. N : arrived[j] = n
    OBVIOUS
  <2>1. tracker.seen = {arrived[j].seq : j \in 1 .. N}
    BY DEF CInv, SeenIsTracked, Tracked
  <2>2. ASSUME NEW j \in 1 .. N, arrived[j].seq = n.seq
        PROVE  arrived[j] = n
    <3>1. arrived[j] \in Numbers /\ arrived[j] \in air \cup Tracked
      BY <1>2 DEF Tracked
    <3>2. /\ Abs(next) - sent <= Abs(arrived[j]) /\ Abs(arrived[j]) < Abs(next)
          /\ Abs(next) - sent <= Abs(n) /\ Abs(n) < Abs(next)
      BY <3>1 DEF CInv, WasSent
    <3>3. Abs(next) - sent \in Int /\ Abs(next) - (Abs(next) - sent) <= Space
      BY <1>1, <1>3, SpaceFacts
    <3> QED BY <1>1, <1>3, <2>2, <3>1, <3>2, <3>3, SameOnTheWire
  <2> QED BY <2>1, <2>2
<1>9. sent' <= Space => tracker'.duplicates = Cardinality(RepeatedIn(arrived'))
  <2> SUFFICES ASSUME sent <= Space
               PROVE  tracker'.duplicates = Cardinality(RepeatedIn(arrived'))
    BY <1>1
  <2>1. tracker.duplicates = Cardinality(RepeatedIn(arrived))
    BY DEF CInv, CountersCount
  <2>2. RepeatedIn(arrived') = IF \E j \in 1 .. N : arrived[j] = n
                                 THEN RepeatedIn(arrived) \cup {N + 1} ELSE RepeatedIn(arrived)
    BY <1>1, RepeatedGrows
  <2>3. Cardinality(RepeatedIn(arrived) \cup {N + 1}) = Cardinality(RepeatedIn(arrived)) + 1
    BY <1>1, CountedSets
  <2> HIDE DEF N
  <2> QED BY <1>6, <1>8, <2>1, <2>2, <2>3
<1>10. CASE highest = None
  <2>1. arrived = <<>> /\ tracker = NewTracker /\ first = None
    BY <1>10 DEF CInv, Newest, IInv, Aligned
  <2>2. first' = n /\ highest' = n /\ N = 0
    BY <1>1, <1>10, <2>1
  <2>3. arrived' # <<>> /\ highest' # None /\ arrived'[1] = n /\ Len(arrived') = 1
    <3>1. Len(arrived') = 1 /\ arrived'[1] = n
      BY <1>2, <2>2
    <3>2. arrived' # <<>>
      BY <3>1
    <3> QED BY <1>3, <2>2, <3>1, <3>2
  <2>4. Newest'
    <3>1. Abs(first') <= Abs(highest')
      BY <1>2, <2>2
    <3>2. \E k \in 1 .. Len(arrived') : arrived'[k] = highest'
      BY <2>2, <2>3
    <3>3. \A i \in 1 .. Len(arrived') : Abs(arrived'[i]) <= Abs(highest')
      BY <1>2, <2>2, <2>3
    <3> QED BY <2>3, <3>1, <3>2, <3>3 DEF Newest, Abs
  <2>5. /\ tracker.expected = None /\ tracker.drops = 0 /\ tracker.out_of_order = 0
        /\ tracker.gaps = <<>>
    BY <2>1 DEF NewTracker
  <2>6. tracker'.drops = 0 /\ tracker'.out_of_order = 0 /\ tracker'.gaps = <<>>
    BY <1>1, <1>3, <1>6, <2>5, TrackFirst
  <2>7. OvertakenIn(arrived', Abs(n), Abs(n)) = {}
    <3> SUFFICES ASSUME NEW a \in OvertakenIn(arrived', Abs(n), Abs(n)) PROVE FALSE
      OBVIOUS
    <3>1. PICK i \in 1 .. Len(arrived') : Abs(arrived'[i]) > a
      BY DEF OvertakenIn
    <3>2. a = Abs(n)
      BY <1>2 DEF OvertakenIn
    <3>3. arrived'[i] = n
      BY <2>3
    <3> QED BY <1>2, <3>1, <3>2, <3>3
  <2>8. LateIn(arrived') = {}
    <3> SUFFICES ASSUME NEW i \in LateIn(arrived') PROVE FALSE
      OBVIOUS
    <3>1. i \in 1 .. 1 /\ \E j \in 1 .. i - 1 : TRUE
      BY <2>3 DEF LateIn
    <3> QED BY <3>1
  <2>9. GapNumbers(tracker'.gaps) = {}
    BY <2>6 DEF GapNumbers
  <2>10. Abs(first') = Abs(n) /\ Abs(highest') = Abs(n)
    BY <2>2
  <2>11. /\ tracker'.drops = Cardinality(OvertakenIn(arrived', Abs(first'), Abs(highest')))
         /\ IsFiniteSet(OvertakenIn(arrived', Abs(first'), Abs(highest')))
         /\ GapNumbers(tracker'.gaps)
              = {a % Space : a \in OvertakenIn(arrived', Abs(first'), Abs(highest'))}
    BY <2>6, <2>7, <2>9, <2>10, FS_EmptySet
  <2>12. tracker'.out_of_order = Cardinality(LateIn(arrived'))
    BY <2>6, <2>8, FS_EmptySet
  <2>13. CountersCount'
    BY <1>9, <2>11, <2>12 DEF CountersCount, OvertakenIn, LateIn, RepeatedIn, GapNumbers, Between, Abs
  <2> QED BY <1>5, <1>7, <2>4, <2>13
<1>11. CASE highest # None
  <2> DEFINE d == Abs(n) - (Abs(highest) + 1)
             lo == Abs(first)
             h == Abs(highest)
             over == OvertakenIn(arrived, lo, h)
  <2>1. /\ highest \in Numbers /\ first \in Numbers /\ first # None
        /\ tracker.expected = Succ(highest.seq) /\ tracker.expected # None
        /\ tracker.expected \in SeqNo
        /\ h \in Int /\ lo \in Int /\ lo <= h
        /\ \A i \in 1 .. N : Abs(arrived[i]) <= h
    <3>1. highest \in Numbers /\ first \in Numbers /\ first # None
          /\ tracker.expected = Succ(highest.seq)
      BY <1>11 DEF CInv, IInv, StreamTypeOK, Aligned
    <3>2. highest.seq \in SeqNo /\ h \in Int /\ lo \in Int
      BY <3>1, AbsIsInt
    <3>3. Succ(highest.seq) \in SeqNo
      BY <3>2, SuccValue
    <3>4. lo <= h /\ \A i \in 1 .. N : Abs(arrived[i]) <= h
      BY <1>11 DEF CInv, Newest
    <3> QED BY <3>1, <3>2, <3>3, <3>4, SpaceFacts
  <2>2. PICK k \in 1 .. N : arrived[k] = highest
    BY <1>11 DEF CInv, Newest
  <2>3. d \in Int /\ d < WrapThreshold /\ d >= WrapThreshold - Space
    BY <1>2, <1>11, <2>1 DEF Arrives, Tellable
  <2>4. first' = first
    BY <1>1, <2>1
  <2>5. /\ d >= 0 => /\ tracker'.drops = tracker.drops + d
                     /\ tracker'.out_of_order = tracker.out_of_order
        /\ d < 0  => /\ tracker'.drops = tracker.drops
                     /\ tracker'.out_of_order = tracker.out_of_order + 1
    <3> HIDE DEF d
    <3>1. d = Abs(n) - (Abs(highest) + 1)
      BY DEF d
    <3> QED BY <1>1, <2>1, <2>3, <3>1, TrackNext
  <2>6. Ahead(tracker, n.seq) = IF d >= 0 THEN d ELSE d + Space
    <3> HIDE DEF d
    <3>1. d = Abs(n) - (Abs(highest) + 1)
      BY DEF d
    <3> QED BY <1>1, <2>1, <2>3, <3>1, AheadIsDistance
  <2>7. \A i \in 1 .. Len(arrived) : Abs(arrived[i]) <= Abs(arrived[k])
    BY <2>1, <2>2
  <2>8. /\ d >= 0 => OvertakenIn(arrived', lo, Abs(n)) = over \cup (h + 1 .. Abs(n) - 1)
        /\ d < 0 => OvertakenIn(arrived', lo, h) = over
        /\ LateIn(arrived') = IF d >= 0 THEN LateIn(arrived) ELSE LateIn(arrived) \cup {N + 1}
    <3>1. (d >= 0 <=> Abs(n) > h) /\ (d < 0 <=> ~(Abs(n) > h))
      BY <1>2, <2>1
    <3>2. /\ Abs(n) > h => OvertakenIn(arrived', lo, Abs(n)) = over \cup (h + 1 .. Abs(n) - 1)
          /\ ~(Abs(n) > h) => OvertakenIn(arrived', lo, h) = over
      BY <1>1, <2>1, <2>2, <2>7, OvertakenGrows
    <3>3. LateIn(arrived') = IF Abs(n) > h THEN LateIn(arrived) ELSE LateIn(arrived) \cup {N + 1}
      BY <1>1, <2>1, <2>2, <2>7, LateGrows
    <3> HIDE DEF d, over, lo, h, N
    <3> QED BY <2>3, <3>1, <3>2, <3>3
  <2>9. /\ tracker.drops = Cardinality(over) /\ IsFiniteSet(over)
        /\ GapNumbers(tracker.gaps) = {a % Space : a \in over}
        /\ tracker.out_of_order = Cardinality(LateIn(arrived))
    BY <1>11 DEF CInv, CountersCount
  <2>10. /\ Cardinality(LateIn(arrived)) \in Nat /\ Cardinality(over) \in Nat
         /\ Cardinality(LateIn(arrived) \cup {N + 1}) = Cardinality(LateIn(arrived)) + 1
    BY <1>1, <2>9, CountedSets, FS_CardinalityType
  <2>11. tracker'.out_of_order = Cardinality(LateIn(arrived'))
    <3> HIDE DEF d, N
    <3> QED BY <2>3, <2>5, <2>8, <2>9, <2>10
  <2>12. arrived' # <<>> /\ N + 1 \in 1 .. Len(arrived') /\ k \in 1 .. Len(arrived')
         /\ arrived'[k] = highest
    BY <1>2, <2>2
  <2>13. CASE d >= 0
    <3>1. highest' = n
      BY <1>1, <1>2, <2>1, <2>13
    <3>2. Newest'
      <4>1. Abs(first') <= Abs(highest')
        BY <1>2, <2>1, <2>4, <2>13, <3>1
      <4>2. \E j \in 1 .. Len(arrived') : arrived'[j] = highest'
        BY <1>2, <2>12, <3>1
      <4>3. \A i \in 1 .. Len(arrived') : Abs(arrived'[i]) <= Abs(highest')
        <5> SUFFICES ASSUME NEW i \in 1 .. Len(arrived')
                     PROVE  Abs(arrived'[i]) <= Abs(n)
          BY <3>1
        <5>1. CASE i \in 1 .. N
          <6>1. Abs(arrived'[i]) = Abs(arrived[i]) /\ Abs(arrived[i]) <= h
                /\ Abs(arrived[i]) \in Int
            BY <1>2, <2>1, <5>1
          <6> QED BY <1>2, <2>1, <2>13, <6>1
        <5>2. CASE i = N + 1
          BY <1>2, <5>2
        <5> QED BY <1>2, <5>1, <5>2
      <4> QED BY <1>3, <2>12, <3>1, <4>1, <4>2, <4>3 DEF Newest, Abs
    <3> DEFINE span == h + 1 .. Abs(n) - 1
    <3>3. IsFiniteSet(span) /\ Cardinality(span) = d /\ over \cap span = {}
      <4>1. h + 1 \in Int /\ Abs(n) - 1 \in Int
        BY <1>2, <2>1
      <4>2. IsFiniteSet(span)
            /\ Cardinality(span) = IF h + 1 > Abs(n) - 1 THEN 0 ELSE (Abs(n) - 1) - (h + 1) + 1
        BY <4>1, FS_Interval
      <4>3. Cardinality(span) = d
        <5> HIDE DEF span
        <5> QED BY <1>2, <2>1, <2>13, <4>2
      <4>4. over \cap span = {}
        <5> SUFFICES ASSUME NEW a \in over, a \in span PROVE FALSE
          OBVIOUS
        <5>1. a \in Int /\ a <= h /\ a >= h + 1
          BY <2>1, <4>1 DEF OvertakenIn
        <5> QED BY <2>1, <5>1
      <4> QED BY <4>2, <4>3, <4>4
    <3>4. /\ IsFiniteSet(over \cup span)
          /\ Cardinality(over \cup span) = Cardinality(over) + d
      <4> HIDE DEF over, span, d
      <4>1. /\ IsFiniteSet(over \cup span)
            /\ Cardinality(over \cup span)
                 = Cardinality(over) + Cardinality(span) - Cardinality(over \cap span)
        BY <2>9, <3>3, FS_Union
      <4>2. Cardinality(over \cap span) = 0
        BY <3>3, FS_EmptySet
      <4> QED BY <2>3, <2>10, <3>3, <4>1, <4>2
    <3>5. GapNumbers(tracker'.gaps) = {a % Space : a \in over \cup span}
      <4>1. {a % Space : a \in over \cup span}
              = {a % Space : a \in over} \cup {a % Space : a \in span}
        <5> HIDE DEF over, span
        <5> QED OBVIOUS
      <4>2. Ahead(tracker, n.seq) < WrapThreshold
        BY <2>3, <2>6, <2>13
      <4>3. CASE tracker.expected = n.seq
        <5>1. d = 0
          <6>1. (n.seq - tracker.expected) = 0
            BY <1>3, <2>1, <4>3 DEF SeqNo
          <6>2. (Space * 0 + 0) % Space = 0
            BY SpaceFacts, ModUnique
          <6>3. Ahead(tracker, n.seq) = 0
            BY <6>1, <6>2, SpaceFacts DEF Ahead
          <6> HIDE DEF d
          <6> QED BY <2>3, <2>6, <2>13, <6>3
        <5>2. span = {}
          BY <1>2, <2>1, <5>1
        <5>3. tracker'.gaps = tracker.gaps
          BY <1>6, <4>3
        <5> QED BY <2>9, <5>2, <5>3
      <4>4. CASE tracker.expected # n.seq
        <5>1. tracker'.gaps = Append(tracker.gaps, <<tracker.expected, n.seq>>)
          <6>1. tracker.expected \notin {None, n.seq}
            BY <2>1, <4>4
          <6> QED BY <1>6, <4>2, <6>1, Zenon
        <5>2. tracker.gaps \in Seq(SeqNo \X SeqNo)
          BY <1>1 DEF Tracker
        <5>3. <<tracker.expected, n.seq>> \in SeqNo \X SeqNo
          BY <1>3, <2>1
        <5>4. GapNumbers(tracker'.gaps)
                = GapNumbers(tracker.gaps) \cup Between(<<tracker.expected, n.seq>>)
          BY <5>1, <5>2, <5>3, GapsGrow, Zenon
        <5>5. Between(<<Succ(highest.seq), n.seq>>) = {a % Space : a \in span}
          <6>1. d = Abs(n) - (Abs(highest) + 1)
            OBVIOUS
          <6>2. 0 <= d
            BY <2>3, <2>13
          <6> HIDE DEF d
          <6> QED BY <1>1, <2>1, <2>3, <6>1, <6>2, BetweenIsSpan
        <5> HIDE DEF over, span
        <5> QED BY <2>1, <2>9, <4>1, <5>4, <5>5, Zenon
      <4> QED BY <4>3, <4>4
    <3>6. OvertakenIn(arrived', Abs(first'), Abs(highest')) = over \cup span
      <4> HIDE DEF over, span, d
      <4>1. Abs(first') = lo /\ Abs(highest') = Abs(n)
        BY <2>4, <3>1 DEF lo
      <4> HIDE DEF lo, h
      <4> QED BY <2>8, <2>13, <4>1 DEF span
    <3>7. tracker'.drops = Cardinality(over) + d
      <4> HIDE DEF over, d
      <4> QED BY <2>5, <2>9, <2>13
    <3>8. /\ tracker'.drops = Cardinality(OvertakenIn(arrived', Abs(first'), Abs(highest')))
          /\ IsFiniteSet(OvertakenIn(arrived', Abs(first'), Abs(highest')))
          /\ GapNumbers(tracker'.gaps)
               = {a % Space : a \in OvertakenIn(arrived', Abs(first'), Abs(highest'))}
      <4> HIDE DEF over, span, d
      <4> QED BY <3>4, <3>5, <3>6, <3>7, Zenon
    <3>9. CountersCount'
      BY <1>9, <2>11, <3>8, Zenon DEF CountersCount, OvertakenIn, LateIn, RepeatedIn, GapNumbers, Between, Abs
    <3> QED BY <1>5, <1>7, <3>2, <3>9
  <2>14. CASE d < 0
    <3>1. highest' = highest
      BY <1>1, <1>2, <1>11, <2>1, <2>14
    <3>2. Newest'
      <4>1. Abs(first') <= Abs(highest')
        BY <2>1, <2>4, <3>1
      <4>2. \E j \in 1 .. Len(arrived') : arrived'[j] = highest'
        BY <2>12, <3>1
      <4>3. \A i \in 1 .. Len(arrived') : Abs(arrived'[i]) <= Abs(highest')
        <5> SUFFICES ASSUME NEW i \in 1 .. Len(arrived')
                     PROVE  Abs(arrived'[i]) <= h
          BY <3>1
        <5>1. CASE i \in 1 .. N
          BY <1>2, <2>1, <5>1
        <5>2. CASE i = N + 1
          BY <1>2, <2>1, <2>14, <5>2
        <5> QED BY <1>2, <5>1, <5>2
      <4> QED BY <1>11, <2>12, <3>1, <4>1, <4>2, <4>3 DEF Newest, Abs
    <3>3. tracker'.gaps = tracker.gaps
      <4>1. ~(Ahead(tracker, n.seq) < WrapThreshold)
        <5> HIDE DEF d
        <5> QED BY <2>3, <2>6, <2>14, SpaceFacts
      <4> QED BY <1>6, <4>1, Zenon
    <3>4. OvertakenIn(arrived', Abs(first'), Abs(highest')) = over
      <4>1. Abs(first') = lo /\ Abs(highest') = h
        BY <2>4, <3>1
      <4> HIDE DEF lo, h, over, d
      <4> QED BY <2>8, <2>14, <4>1
    <3>5. tracker'.drops = Cardinality(over)
      <4> HIDE DEF over, d
      <4> QED BY <2>5, <2>9, <2>14
    <3>6. /\ tracker'.drops = Cardinality(OvertakenIn(arrived', Abs(first'), Abs(highest')))
          /\ IsFiniteSet(OvertakenIn(arrived', Abs(first'), Abs(highest')))
          /\ GapNumbers(tracker'.gaps)
               = {a % Space : a \in OvertakenIn(arrived', Abs(first'), Abs(highest'))}
      <4> HIDE DEF over, d
      <4> QED BY <2>9, <3>3, <3>4, <3>5, Zenon
    <3>7. CountersCount'
      BY <1>9, <2>11, <3>6, Zenon DEF CountersCount, OvertakenIn, LateIn, RepeatedIn, GapNumbers, Between, Abs
    <3> QED BY <1>5, <1>7, <3>2, <3>7
  <2> QED BY <2>3, <2>13, <2>14
<1> QED BY <1>10, <1>11

LEMMA CountsStep == CInv /\ [StreamNext]_streamVars => CInv'
<1> SUFFICES ASSUME CInv, [StreamNext]_streamVars PROVE CInv'
  OBVIOUS
<1>1. IInv'
  BY StepHolds DEF CInv
<1>2. next \in Numbers /\ sent \in Nat /\ Abs(next) \in Int
  BY AbsIsInt DEF CInv, IInv, StreamTypeOK
<1>3. CASE UNCHANGED <<tracker, arrived, first, highest>>
  <2>1. Newest'
    BY <1>3 DEF CInv, Newest, Abs
  <2>2. SeenIsTracked' /\ Tracked' = Tracked
    BY <1>3 DEF CInv, SeenIsTracked, Tracked
  <2>3. sent' \in Nat /\ sent' >= sent => CountersCount'
    <3>1. ASSUME sent' \in Nat, sent' >= sent, sent' <= Space
          PROVE  sent <= Space
      BY <1>2, <3>1, SpaceFacts
    <3>2. /\ Overtaken' = Overtaken
          /\ OvertakenIn(arrived, Abs(first), Abs(highest))' = OvertakenIn(arrived, Abs(first), Abs(highest))
          /\ LateIn(arrived)' = LateIn(arrived)
          /\ RepeatedIn(arrived)' = RepeatedIn(arrived)
          /\ GapNumbers(tracker.gaps)' = GapNumbers(tracker.gaps)
      BY <1>3 DEF Overtaken, Now, OvertakenIn, LateIn, RepeatedIn, GapNumbers, Between, Abs
    <3>3. CountersCount
      BY DEF CInv
    <3> QED BY <1>3, <3>1, <3>2, <3>3, Zenon DEF CountersCount
  <2>4. CASE SendNext
    <3>1. Abs(next)' = Abs(next) + 1 /\ sent' = sent + 1 /\ air' = air \cup {next}
      BY <1>2, <2>4, AbsIsInt DEF SendNext, Abs
    <3>2. WasSent'
      <4> SUFFICES ASSUME NEW n \in air' \cup Tracked'
                   PROVE  Abs(next)' - sent' <= Abs(n) /\ Abs(n) < Abs(next)'
        BY DEF WasSent, Abs
      <4>1. CASE n = next
        BY <1>2, <3>1, <4>1
      <4>2. CASE n \in air \cup Tracked
        <5>1. Abs(next) - sent <= Abs(n) /\ Abs(n) < Abs(next)
          BY <4>2 DEF CInv, WasSent
        <5>2. n \in Numbers
          BY <4>2, ElementOfSeq DEF Tracked, CInv, IInv, StreamTypeOK
        <5>3. Abs(n) \in Int
          BY <5>2, AbsIsInt
        <5> QED BY <1>2, <3>1, <5>1, <5>3
      <4> QED BY <2>2, <3>1, <4>1, <4>2
    <3>3. CountersCount'
      BY <1>2, <2>3, <3>1
    <3> QED BY <1>1, <2>1, <2>2, <3>2, <3>3 DEF CInv
  <2>5. CASE sent' = sent /\ next' = next /\ air' \subseteq air
    <3>1. WasSent'
      BY <2>2, <2>5 DEF CInv, WasSent, Abs
    <3>2. CountersCount'
      BY <1>2, <2>3, <2>5
    <3> QED BY <1>1, <2>1, <2>2, <3>1, <3>2 DEF CInv
  <2>6. SendNext \/ (sent' = sent /\ next' = next /\ air' \subseteq air)
    BY <1>3 DEF StreamNext, streamVars, Lose, Receive, Repeat, Arrives
  <2> QED BY <2>4, <2>5, <2>6
<1>4. ASSUME NEW n \in air, Receive(n) \/ Repeat(n)
      PROVE  CInv'
  <2>1. Arrives(n) /\ air' \subseteq air
    BY <1>4 DEF Receive, Repeat
  <2> QED BY <1>1, <2>1, CountsArrival DEF CInv
<1> QED BY <1>3, <1>4 DEF StreamNext, streamVars, SendNext, Lose

\* Each counter is exact, for every space, threshold, start and length of run:
\* drops is the number of numbers a newer frame overtook and out_of_order of
\* the frames that came late; gaps names just the numbers drops counts, and,
\* while no number is used twice, duplicates counts the frames that came again.
THEOREM CountsAreExact == StreamSpec => []CountsExact
<1>1. StreamSpec => []CInv
  BY CountsInit, CountsStep, PTL DEF StreamSpec
<1> QED BY <1>1, CInvImplies, PTL

-----------------------------------------------------------------------------
(* The responders on a bus, for any number of initiators and responders,   *)
(* with or without loopback.                                               *)

(* Types.                                                                  *)

Capable == {"FD", "EXTENDED"}

ResponderState ==
  [capabilities : SUBSET Capable, run : Runs \cup {None}, tx_count : Nat, sequence : Tracker]

Field == {"RX_COUNT", "TX_COUNT", "DROPS", "FPS"}

Report == [field : Field, value : 0 .. MaxCounter \cup {Open}]
Arg    == Runs \cup {0} \cup (SUBSET Capable) \cup Report

Frame == [type : Types, run : Runs \cup {None}, seq : SeqNo, arg : Arg]

\* A report of a counter fits the wire; what has a number, and what starts a
\* run, comes from an initiator.
Sound(f) ==
  /\ f \in Frame
  /\ f.type = "Status" /\ f.arg.field # "FPS" => f.arg.value \in 0 .. MaxCounter
  /\ f.type \in Numbered => f.run \in Initiators
  /\ f.type = "Start" => f.arg \in Initiators

\* An inbox of such frames.
BoxOK(box) == box \in Seq(Frame) /\ \A k \in 1 .. Len(box) : Sound(box[k])

LogEntry == [seq : SeqNo, heard : BOOLEAN]

BusTypeOK ==
  /\ responder \in [Nodes -> ResponderState]
  /\ inbox \in [Nodes -> Seq(Frame)]
  /\ \A n \in Nodes : BoxOK(inbox[n])
  /\ nextSeq \in [Initiators -> SeqNo]
  /\ sends \in Nat
  /\ missed \in Nat /\ missed <= MaxMissed
  /\ log \in [Nodes -> Seq(LogEntry)]
  /\ swept \in [Nodes -> Nat]

LEMMA Kinds ==
  /\ Numbered \subseteq Types /\ Control \subseteq Types /\ Replies \subseteq Types
  /\ Numbered \cap Control = {} /\ Numbered \cap Replies = {}
  /\ "SweepRequest" \notin Numbered \cup Control \cup Replies
  /\ "SweepEcho" \in Replies /\ "SweepEcho" \notin Numbered \cup Control
  /\ "Undecodable" \notin Numbered \cup Control \cup Replies
  /\ Control \cap Replies = {"HelloReply"}
  /\ Initiators \subseteq Runs /\ None \notin Runs /\ None \notin Initiators
  /\ MaxCounter \in Nat /\ MaxMissed \in Nat /\ MaxMissed < WrapThreshold
  /\ Sends \subseteq Types \ Replies
  /\ Capabilities \subseteq SUBSET Capable
BY BusAssumption DEF Numbered, Control, Replies, Types, Capable

LEMMA Clamped ==
  ASSUME NEW v \in Nat
  PROVE  Clamp(v) \in 0 .. MaxCounter
BY Kinds DEF Clamp

-----------------------------------------------------------------------------
(* One frame.                                                              *)

\* What a responder makes of a frame, and the replies: they are sound, they
\* are kinds of frame that no responder answers or counts, and there are at
\* most four, none of them to a reply.
LEMMA StatusReplies ==
  ASSUME NEW r \in ResponderState, NEW f, Sound(f), f.type = "RequestStatus"
  PROVE  LET replies == [k \in 1 .. 4 |-> Reply(f, "Status", 0, StatusOf(r)[k])] IN
         /\ replies \in Seq(Frame)
         /\ \A k \in 1 .. Len(replies) : Sound(replies[k]) /\ replies[k].type \in Replies
<1> DEFINE replies == [k \in 1 .. 4 |-> Reply(f, "Status", 0, StatusOf(r)[k])]
           reports == {[field |-> fd, value |-> v] : fd \in Field \ {"FPS"}, v \in 0 .. MaxCounter}
                       \cup {[field |-> "FPS", value |-> Open]}
<1>1. /\ r.sequence.rx_count \in Nat /\ r.sequence.drops \in Nat /\ r.tx_count \in Nat
      /\ f.run \in Runs \cup {None}
  BY DEF ResponderState, Tracker, Sound, Frame
<1>2. /\ Clamp(r.sequence.rx_count) \in 0 .. MaxCounter
      /\ Clamp(r.tx_count) \in 0 .. MaxCounter
      /\ Clamp(r.sequence.drops) \in 0 .. MaxCounter
  BY <1>1, Clamped
<1>3. \A k \in 1 .. 4 : StatusOf(r)[k] \in reports
  <2> SUFFICES ASSUME NEW k \in 1 .. 4 PROVE StatusOf(r)[k] \in reports
    OBVIOUS
  <2>1. CASE k = 1
    BY <1>2, <2>1 DEF StatusOf, Field
  <2>2. CASE k = 2
    BY <1>2, <2>2 DEF StatusOf, Field
  <2>3. CASE k = 3
    BY <1>2, <2>3 DEF StatusOf, Field
  <2>4. CASE k = 4
    BY <2>4 DEF StatusOf
  <2> QED BY <2>1, <2>2, <2>3, <2>4
<1>4. ASSUME NEW a \in reports
      PROVE  Sound(Reply(f, "Status", 0, a)) /\ Reply(f, "Status", 0, a).type \in Replies
  <2> DEFINE m == Reply(f, "Status", 0, a)
  <2>1. m = [type |-> "Status", run |-> f.run, seq |-> 0, arg |-> a]
    BY DEF Reply
  <2>2. /\ a \in Report
        /\ a.field # "FPS" => a.value \in 0 .. MaxCounter
    BY DEF Field, Report
  <2>3. 0 \in SeqNo /\ "Status" \in Types /\ "Status" \in Replies /\ "Status" \notin Numbered
    BY SpaceFacts DEF SeqNo, Types, Replies, Numbered
  <2> HIDE DEF reports
  <2>4. m \in Frame
    <3>1. a \in Arg
      BY <2>2 DEF Arg
    <3> HIDE DEF m
    <3> QED BY <1>1, <2>1, <2>3, <3>1 DEF Frame
  <2> QED BY <2>1, <2>2, <2>3, <2>4 DEF Sound
<1>5. /\ Len(replies) = 4
      /\ \A k \in 1 .. 4 : Sound(replies[k]) /\ replies[k].type \in Replies
  <2> HIDE DEF reports
  <2>1. \A k \in 1 .. 4 : Sound(Reply(f, "Status", 0, StatusOf(r)[k]))
                          /\ Reply(f, "Status", 0, StatusOf(r)[k]).type \in Replies
    BY <1>3, <1>4
  <2> HIDE DEF Reply, StatusOf, Sound, Replies
  <2> QED BY <2>1
<1>6. \A k \in 1 .. 4 : replies[k] \in Frame
  BY <1>5 DEF Sound
<1>7. replies \in Seq(Frame)
  <2> HIDE DEF Reply, StatusOf
  <2> QED BY <1>6
<1> QED BY <1>5, <1>7

\* What a responder makes of a frame.
Treated(a, r, f) ==
  /\ a.responder \in ResponderState
  /\ a.responder.tx_count <= r.tx_count + (IF f.type \in Replies THEN 0 ELSE 4)
  /\ a.responder.run = (IF f.type = "Start" THEN f.arg
                        ELSE IF f.type = "Stop" THEN None ELSE r.run)
  /\ a.responder.sequence =
       (IF f.type = "Start" THEN NewTracker
        ELSE IF f.type \in Numbered /\ f.run = r.run THEN Track(r.sequence, f.seq)
        ELSE IF f.type = "SweepRequest" /\ r.run # None
        THEN [r.sequence EXCEPT !.rx_count = @ + 1] ELSE r.sequence)
  /\ a.replies \in Seq(Frame)
  /\ \A k \in 1 .. Len(a.replies) : Sound(a.replies[k]) /\ a.replies[k].type \in Replies

LEMMA OnFrameTreats ==
  ASSUME NEW r \in ResponderState, NEW f, Sound(f)
  PROVE  Treated(OnFrame(r, f), r, f)
<1> DEFINE a == OnFrame(r, f)
           Good(x) == x \in Seq(Frame)
                      /\ \A k \in 1 .. Len(x) : Sound(x[k]) /\ x[k].type \in Replies
<1>1. /\ f \in Frame /\ f.type \in Types /\ f.run \in Runs \cup {None} /\ f.seq \in SeqNo
      /\ f.arg \in Arg
  BY DEF Sound, Frame
<1>2. /\ r.capabilities \in SUBSET Capable /\ r.run \in Runs \cup {None} /\ r.tx_count \in Nat
      /\ r.sequence \in Tracker
      /\ r = [capabilities |-> r.capabilities, run |-> r.run, tx_count |-> r.tx_count,
              sequence |-> r.sequence]
  BY DEF ResponderState
<1>3. Good(<<>>)
  OBVIOUS
<1>4. ASSUME NEW x, x \in Frame, x.type \in Replies \ {"Status"}
      PROVE  Good(<<x>>)
  <2>1. Sound(x)
    BY <1>4, Kinds DEF Sound, Control, Replies, Numbered
  <2>2. <<x>> \in Seq(Frame) /\ Len(<<x>>) = 1 /\ <<x>>[1] = x
    BY <1>4
  <2> QED BY <1>4, <2>1, <2>2
<1>5. \A type \in Replies, seq \in SeqNo, arg \in Arg :
        Reply(f, type, seq, arg) \in Frame /\ Reply(f, type, seq, arg).type = type
  BY <1>1, Kinds DEF Reply, Frame
<1>6. 0 \in SeqNo /\ 0 \in Arg /\ r.capabilities \in Arg
  BY <1>2, SpaceFacts DEF SeqNo, Arg
<1>7. r.sequence.rx_count \in Nat
  BY <1>2 DEF Tracker
<1> HIDE DEF Good
<1> SUFFICES Treated(a, r, f)
  OBVIOUS
<1>8. CASE f.type \in {"SweepRequest", "SweepEcho"}
  <2>1. a = OnSweep(r, f)
    <3>1. f.type # "Undecodable" /\ f.type \notin Control
      BY <1>8, Kinds
    <3> QED BY <1>8, <3>1, Zenon DEF OnFrame
  <2>2. CASE IsEcho(f) \/ r.run = None
    <3>1. a.responder = r /\ a.replies = <<>>
      BY <2>1, <2>2 DEF OnSweep, Ignores, Answers
    <3>2. ~(f.type = "SweepRequest" /\ r.run # None) /\ f.type \notin Numbered
          /\ f.type # "Start" /\ f.type # "Stop"
      BY <1>8, <2>2, Kinds DEF IsEcho
    <3> HIDE DEF a
    <3> QED BY <1>2, <1>3, <3>1, <3>2 DEF Good, Treated
  <2>3. CASE ~(IsEcho(f) \/ r.run = None)
    <3> DEFINE m == [f EXCEPT !.type = "SweepEcho"]
    <3>1. /\ a.responder = [Sent(r, 1) EXCEPT !.sequence.rx_count = @ + 1]
          /\ a.replies = <<m>>
      BY <2>1, <2>3 DEF OnSweep, Answers
    <3>2. f.type = "SweepRequest" /\ r.run # None /\ f.type \notin Numbered
          /\ f.type # "Start" /\ f.type # "Stop" /\ f.type \notin Replies
      BY <1>8, <2>3, Kinds DEF IsEcho
    <3>3. m \in Frame /\ m.type \in Replies \ {"Status"}
      BY <1>1, Kinds DEF Frame, Replies
    <3>4. Good(a.replies)
      BY <1>4, <3>1, <3>3
    <3>5. a.responder = [capabilities |-> r.capabilities, run |-> r.run, tx_count |-> r.tx_count + 1,
                         sequence |-> [r.sequence EXCEPT !.rx_count = @ + 1]]
      BY <1>2, <3>1 DEF Sent
    <3>6. [r.sequence EXCEPT !.rx_count = @ + 1] \in Tracker
      BY <1>2, <1>7 DEF Tracker
    <3> HIDE DEF a, m
    <3>7. a.responder \in ResponderState
      BY <1>2, <3>5, <3>6 DEF ResponderState
    <3>8. /\ a.responder.tx_count = r.tx_count + 1 /\ a.responder.run = r.run
          /\ a.responder.sequence = [r.sequence EXCEPT !.rx_count = @ + 1]
      BY <3>5
    <3>9. a.responder.tx_count <= r.tx_count + 4
      BY <1>2, <3>8
    <3> QED BY <3>2, <3>4, <3>7, <3>8, <3>9, Zenon DEF Good, Treated
  <2> QED BY <2>2, <2>3
<1>9. CASE f.type = "Undecodable"
  <2>1. a = Ignores(r)
    <3>1. f.type \notin {"SweepRequest", "SweepEcho"} /\ f.type \notin Control
      BY <1>9, Kinds
    <3> QED BY <1>9, <3>1, Zenon DEF OnFrame
  <2>2. a.responder = r /\ a.replies = <<>>
    BY <2>1 DEF Ignores, Answers
  <2>3. f.type \notin Numbered /\ f.type # "Start" /\ f.type # "Stop" /\ f.type # "SweepRequest"
    BY <1>9, Kinds
  <2> HIDE DEF a
  <2> QED BY <1>2, <1>3, <2>2, <2>3 DEF Good, Treated
<1>10. CASE f.type \in Control
  <2>1. a = OnControl(r, f) /\ f.type \notin Numbered /\ f.type # "SweepRequest"
    <3>1. f.type \notin {"SweepRequest", "SweepEcho"} /\ f.type # "Undecodable"
      BY <1>10, Kinds
    <3>2. a = OnControl(r, f)
      BY <1>10, <3>1, Zenon DEF OnFrame
    <3> QED BY <1>10, <3>1, <3>2, Kinds
  <2>2. CASE f.type = "Hello"
    <3> DEFINE m == Reply(f, "HelloReply", 0, r.capabilities)
    <3>1. a = Answers(Sent(r, 1), <<m>>)
      BY <2>1, <2>2, Zenon DEF OnControl
    <3>2. a.responder = Sent(r, 1) /\ a.replies = <<m>>
      BY <3>1 DEF Answers
    <3>3. Sent(r, 1) = [capabilities |-> r.capabilities, run |-> r.run, tx_count |-> r.tx_count + 1,
                        sequence |-> r.sequence]
      BY <1>2 DEF Sent
    <3>4. m \in Frame /\ m.type \in Replies \ {"Status"}
      BY <1>5, <1>6 DEF Replies
    <3>5. Good(a.replies)
      BY <1>4, <3>2, <3>4
    <3>6. f.type \notin Replies
      BY <2>2 DEF Replies
    <3> HIDE DEF a, m
    <3> QED BY <1>2, <2>1, <2>2, <3>2, <3>3, <3>5, <3>6 DEF Good, ResponderState, Treated
  <2>3. CASE f.type = "Start"
    <3>1. a = Ignores(Started(r, f.arg))
      BY <2>1, <2>3, Zenon DEF OnControl
    <3>2. a.responder = Started(r, f.arg) /\ a.replies = <<>>
      BY <3>1 DEF Answers, Ignores
    <3>3. Started(r, f.arg) = [capabilities |-> r.capabilities, run |-> f.arg, tx_count |-> 0,
                               sequence |-> NewTracker]
      <4> DEFINE n == NewTracker
                 g == f.arg
      <4>1. Started(r, g) = [r EXCEPT !.run = g, !.tx_count = 0, !.sequence = n]
        BY DEF Started
      <4> HIDE DEF n, g, a
      <4>2. Started(r, g) = [capabilities |-> r.capabilities, run |-> g, tx_count |-> 0,
                             sequence |-> n]
        BY <4>1 DEF ResponderState
      <4> QED BY <4>2 DEF n, g
    <3>4. NewTracker \in Tracker /\ f.arg \in Runs
      BY <2>3, Kinds DEF NewTracker, Tracker, Sound
    <3> HIDE DEF a
    <3> QED BY <1>2, <1>3, <2>1, <2>3, <3>2, <3>3, <3>4 DEF Good, ResponderState, Treated
  <2>4. CASE f.type = "Stop"
    <3>1. a = Ignores([r EXCEPT !.run = None])
      BY <2>1, <2>4, Zenon DEF OnControl
    <3>2. a.responder = [r EXCEPT !.run = None] /\ a.replies = <<>>
      BY <3>1 DEF Answers, Ignores
    <3>3. [r EXCEPT !.run = None]
            = [capabilities |-> r.capabilities, run |-> None, tx_count |-> r.tx_count,
               sequence |-> r.sequence]
      BY <1>2
    <3> HIDE DEF a
    <3> QED BY <1>2, <1>3, <2>1, <2>4, <3>2, <3>3 DEF Good, ResponderState, Treated
  <2>5. CASE f.type = "RequestStatus"
    <3> DEFINE x == [k \in 1 .. 4 |-> Reply(f, "Status", 0, StatusOf(r)[k])]
    <3>1. a = Answers(Sent(r, 4), x)
      BY <2>1, <2>5, Zenon DEF OnControl
    <3>2. a.responder = Sent(r, 4) /\ a.replies = x
      BY <3>1 DEF Answers
    <3>3. Sent(r, 4) = [capabilities |-> r.capabilities, run |-> r.run, tx_count |-> r.tx_count + 4,
                        sequence |-> r.sequence]
      BY <1>2 DEF Sent
    <3>5. Good(a.replies)
      BY <2>5, <3>2, StatusReplies DEF Good
    <3>6. f.type \notin Replies
      BY <2>5 DEF Replies
    <3> HIDE DEF a, x
    <3> QED BY <1>2, <2>1, <2>5, <3>2, <3>3, <3>5, <3>6 DEF Good, ResponderState, Treated
  <2>6. CASE f.type \notin {"Hello", "Start", "Stop", "RequestStatus"}
    <3>1. a = Ignores(r)
      BY <2>1, <2>6, Zenon DEF OnControl
    <3>2. a.responder = r /\ a.replies = <<>>
      BY <3>1 DEF Ignores, Answers
    <3> HIDE DEF a
    <3> QED BY <1>2, <1>3, <2>1, <2>6, <3>2 DEF Good, Treated
  <2> QED BY <2>2, <2>3, <2>4, <2>5, <2>6
<1>11. CASE f.type \in Types \ (Control \cup {"SweepRequest", "SweepEcho", "Undecodable"})
  <2> DEFINE u == Counted(r, f)
  <2>1. a = OnRun(r, f)
    BY <1>11, Zenon DEF OnFrame
  <2>2. f.type # "Start" /\ f.type # "Stop" /\ f.type # "SweepRequest"
    BY <1>11 DEF Control
  <2>3. CASE ~Ours(r, f)
    <3>1. a = Ignores(r)
      BY <2>1, <2>3, Zenon DEF OnRun
    <3>2. a.responder = r /\ a.replies = <<>>
      BY <3>1 DEF Ignores, Answers
    <3> HIDE DEF a
    <3> QED BY <1>2, <1>3, <2>2, <2>3, <3>2 DEF Good, Ours, Treated
  <2>4. CASE Ours(r, f) /\ f.type \notin Numbered
    <3>1. u = r /\ f.type # "PingRequest" /\ f.type # "LatencyProbe"
      BY <2>4 DEF Counted, Numbered
    <3>2. a = Ignores(r)
      BY <2>1, <2>4, <3>1, Zenon DEF OnRun
    <3>3. a.responder = r /\ a.replies = <<>>
      BY <3>2 DEF Ignores, Answers
    <3> HIDE DEF a
    <3> QED BY <1>2, <1>3, <2>2, <2>4, <3>3 DEF Good, Treated
  <2>5. CASE Ours(r, f) /\ f.type \in Numbered
    <3> DEFINE t == Track(r.sequence, f.seq)
    <3>1. t \in Tracker
      BY <1>1, <1>2, TrackType
    <3>2. u = [capabilities |-> r.capabilities, run |-> r.run, tx_count |-> r.tx_count,
               sequence |-> t]
      <4>1. u = [r EXCEPT !.sequence = t]
        BY <2>5 DEF Counted
      <4> HIDE DEF u, t
      <4> QED BY <1>2, <4>1
    <3> HIDE DEF t
    <3>3. Sent(u, 1) = [capabilities |-> r.capabilities, run |-> r.run, tx_count |-> r.tx_count + 1,
                        sequence |-> t]
      BY <3>2 DEF Sent
    <3>4. f.type \notin Replies /\ f.run = r.run
      BY <2>5, Kinds DEF Ours
    <3>5. (a.responder = u \/ a.responder = Sent(u, 1)) /\ Good(a.replies)
      <4>1. CASE f.type = "PingRequest"
        <5> DEFINE m == Reply(f, "PingReply", f.seq, 0)
        <5>1. a = Answers(Sent(u, 1), <<m>>)
          BY <2>1, <2>5, <4>1, Zenon DEF OnRun
        <5>2. a.responder = Sent(u, 1) /\ a.replies = <<m>>
          BY <5>1 DEF Answers
        <5>3. m \in Frame /\ m.type \in Replies \ {"Status"}
          BY <1>1, <1>5, <1>6 DEF Replies
        <5> QED BY <1>4, <5>2, <5>3
      <4>2. CASE f.type = "LatencyProbe"
        <5> DEFINE m == Reply(f, "LatencyReply", f.seq, f.arg)
        <5>1. a = Answers(Sent(u, 1), <<m>>)
          BY <2>1, <2>5, <4>2, Zenon DEF OnRun
        <5>2. a.responder = Sent(u, 1) /\ a.replies = <<m>>
          BY <5>1 DEF Answers
        <5>3. m \in Frame /\ m.type \in Replies \ {"Status"}
          BY <1>1, <1>5, <1>6 DEF Replies
        <5> QED BY <1>4, <5>2, <5>3
      <4>3. CASE f.type \notin {"PingRequest", "LatencyProbe"}
        <5>1. a = Ignores(u)
          BY <2>1, <2>5, <4>3, Zenon DEF OnRun
        <5>2. a.responder = u /\ a.replies = <<>>
          BY <5>1 DEF Ignores, Answers
        <5> QED BY <1>3, <5>2
      <4> QED BY <4>1, <4>2, <4>3
    <3> HIDE DEF a, u
    <3>6. a.responder \in ResponderState /\ a.responder.tx_count \in {r.tx_count, r.tx_count + 1}
          /\ a.responder.run = r.run /\ a.responder.sequence = t
      BY <1>2, <3>1, <3>2, <3>3, <3>5 DEF ResponderState
    <3>7. a.responder.tx_count <= r.tx_count + 4
      BY <1>2, <3>6
    <3> QED BY <2>2, <2>5, <3>4, <3>5, <3>6, <3>7, Zenon DEF Good, t, Treated
  <2> QED BY <2>3, <2>4, <2>5
<1> QED BY <1>1, <1>8, <1>9, <1>10, <1>11

-----------------------------------------------------------------------------
(* The frames that wait at a node.                                         *)

Marks(f, types, runs) == f.type \in types /\ f.run \in runs

\* The marked frames of an inbox are those from number x up to, not including,
\* number y of all the marked frames ever put on the bus; "inTurn" says that
\* they carry these numbers.
Waiting(box, types, runs, inTurn, x, y) ==
  \E at \in [0 .. Len(box) -> Int] :
    /\ at[0] = x /\ at[Len(box)] = y
    /\ \A k \in 0 .. Len(box) : at[k] <= y
    /\ \A k \in 1 .. Len(box) :
         /\ at[k] = IF Marks(box[k], types, runs) THEN at[k - 1] + 1 ELSE at[k - 1]
         /\ Marks(box[k], types, runs) /\ inTurn => box[k].seq = at[k - 1] % Space

LEMMA WaitingEmpty ==
  ASSUME NEW types, NEW runs, NEW inTurn, NEW y \in Int
  PROVE  Waiting(<<>>, types, runs, inTurn, y, y)
<1> DEFINE at == [k \in 0 .. 0 |-> y]
<1>1. at \in [0 .. 0 -> Int] /\ at[0] = y /\ Len(<<>>) = 0
  OBVIOUS
<1> HIDE DEF at
<1> QED BY <1>1 DEF Waiting

\* Frames of other kinds join the inbox.
LEMMA WaitingMore ==
  ASSUME NEW box \in Seq(Frame), NEW more \in Seq(Frame),
         NEW types, NEW runs, NEW inTurn, NEW x \in Int, NEW y \in Int,
         Waiting(box, types, runs, inTurn, x, y),
         \A k \in 1 .. Len(more) : ~Marks(more[k], types, runs)
  PROVE  Waiting(box \o more, types, runs, inTurn, x, y)
<1> DEFINE M == Len(box)
           N == Len(more)
           new == box \o more
<1>1. PICK at \in [0 .. M -> Int] :
         /\ at[0] = x /\ at[M] = y
         /\ \A k \in 0 .. M : at[k] <= y
         /\ \A k \in 1 .. M :
              /\ at[k] = IF Marks(box[k], types, runs) THEN at[k - 1] + 1 ELSE at[k - 1]
              /\ Marks(box[k], types, runs) /\ inTurn => box[k].seq = at[k - 1] % Space
  BY DEF Waiting
<1>2. /\ M \in Nat /\ N \in Nat /\ Len(new) = M + N
      /\ \A k \in 1 .. M : new[k] = box[k]
      /\ \A k \in M + 1 .. M + N : new[k] = more[k - M]
  BY ConcatProperties, LenProperties
<1> DEFINE to == [k \in 0 .. M + N |-> IF k <= M THEN at[k] ELSE y]
<1>3. \A k \in M + 1 .. M + N : ~Marks(new[k], types, runs)
  BY <1>2
<1> HIDE DEF M, N, new
<1>4. to \in [0 .. M + N -> Int] /\ \A k \in 0 .. M + N : to[k] = IF k <= M THEN at[k] ELSE y
  BY <1>1, <1>2
<1> HIDE DEF to
<1>5. to[0] = x /\ to[M + N] = y /\ \A k \in 0 .. M + N : to[k] <= y
  BY <1>1, <1>2, <1>4
<1>6. ASSUME NEW k \in 1 .. M + N
      PROVE  /\ to[k] = IF Marks(new[k], types, runs) THEN to[k - 1] + 1 ELSE to[k - 1]
             /\ Marks(new[k], types, runs) /\ inTurn => new[k].seq = to[k - 1] % Space
  <2>1. CASE k <= M
    <3>1. k \in 1 .. M /\ k - 1 \in 0 .. M + N /\ k - 1 <= M /\ k \in 0 .. M + N
      BY <1>2, <2>1
    <3>2. new[k] = box[k] /\ to[k] = at[k] /\ to[k - 1] = at[k - 1]
      BY <1>2, <1>4, <2>1, <3>1
    <3> HIDE DEF Marks
    <3> QED BY <1>1, <3>1, <3>2
  <2>2. CASE k > M
    <3>1. k \in M + 1 .. M + N /\ k - 1 \in 0 .. M + N /\ k \in 0 .. M + N /\ k - 1 >= M
      BY <1>2, <2>2
    <3>2. to[k] = y /\ to[k - 1] = y
      <4>1. k - 1 = M => to[k - 1] = y
        BY <1>1, <1>2, <1>4, <3>1
      <4> QED BY <1>2, <1>4, <2>2, <3>1, <4>1
    <3>3. ~Marks(new[k], types, runs)
      BY <1>3, <3>1
    <3> QED BY <3>2, <3>3
  <2> QED BY <1>2, <2>1, <2>2
<1> QED BY <1>2, <1>4, <1>5, <1>6 DEF Waiting, new

\* An initiator's frame joins the inbox.
LEMMA WaitingOneMore ==
  ASSUME NEW box \in Seq(Frame), NEW f \in Frame,
         NEW types, NEW runs, NEW inTurn, NEW x \in Int, NEW y \in Int,
         Waiting(box, types, runs, inTurn, x, y),
         Marks(f, types, runs), inTurn => f.seq = y % Space
  PROVE  Waiting(Append(box, f), types, runs, inTurn, x, y + 1)
<1> DEFINE M == Len(box)
           new == Append(box, f)
<1>1. PICK at \in [0 .. M -> Int] :
         /\ at[0] = x /\ at[M] = y
         /\ \A k \in 0 .. M : at[k] <= y
         /\ \A k \in 1 .. M :
              /\ at[k] = IF Marks(box[k], types, runs) THEN at[k - 1] + 1 ELSE at[k - 1]
              /\ Marks(box[k], types, runs) /\ inTurn => box[k].seq = at[k - 1] % Space
  BY DEF Waiting
<1>2. /\ M \in Nat /\ Len(new) = M + 1
      /\ \A k \in 1 .. M : new[k] = box[k]
      /\ new[M + 1] = f
  BY AppendProperties, LenProperties
<1> DEFINE to == [k \in 0 .. M + 1 |-> IF k <= M THEN at[k] ELSE y + 1]
<1> HIDE DEF M, new
<1>4. to \in [0 .. M + 1 -> Int] /\ \A k \in 0 .. M + 1 : to[k] = IF k <= M THEN at[k] ELSE y + 1
  BY <1>1, <1>2
<1> HIDE DEF to
<1>5. to[0] = x /\ to[M + 1] = y + 1 /\ \A k \in 0 .. M + 1 : to[k] <= y + 1
  <2>1. to[0] = x /\ to[M + 1] = y + 1
    BY <1>1, <1>2, <1>4
  <2>2. ASSUME NEW k \in 0 .. M + 1 PROVE to[k] <= y + 1
    <3>1. CASE k <= M
      <4>1. k \in 0 .. M /\ at[k] \in Int /\ at[k] <= y /\ to[k] = at[k]
        BY <1>1, <1>2, <1>4, <3>1
      <4> QED BY <4>1
    <3>2. CASE k > M
      BY <1>2, <1>4, <3>2
    <3> QED BY <1>2, <3>1, <3>2
  <2> QED BY <2>1, <2>2
<1>6. ASSUME NEW k \in 1 .. M + 1
      PROVE  /\ to[k] = IF Marks(new[k], types, runs) THEN to[k - 1] + 1 ELSE to[k - 1]
             /\ Marks(new[k], types, runs) /\ inTurn => new[k].seq = to[k - 1] % Space
  <2>1. CASE k <= M
    <3>1. k \in 1 .. M /\ k - 1 \in 0 .. M + 1 /\ k - 1 <= M /\ k \in 0 .. M + 1
      BY <1>2, <2>1
    <3>2. new[k] = box[k] /\ to[k] = at[k] /\ to[k - 1] = at[k - 1]
      BY <1>2, <1>4, <2>1, <3>1
    <3> HIDE DEF Marks
    <3> QED BY <1>1, <3>1, <3>2
  <2>2. CASE k = M + 1
    <3>1. to[k] = y + 1 /\ to[k - 1] = y /\ new[k] = f
      <4>1. k - 1 = M /\ M \in 0 .. M + 1 /\ M <= M
        BY <1>2, <2>2
      <4>2. to[M] = y
        <5>1. to[M] = at[M]
          BY <1>4, <4>1
        <5> QED BY <1>1, <5>1
      <4>3. new[k] = f
        BY <1>2, <2>2
      <4> QED BY <1>5, <2>2, <4>1, <4>2, <4>3, Zenon
    <3> HIDE DEF Marks
    <3> QED BY <3>1
  <2> QED BY <1>2, <2>1, <2>2
<1>7. /\ to \in [0 .. Len(new) -> Int]
      /\ to[0] = x /\ to[Len(new)] = y + 1
      /\ \A k \in 0 .. Len(new) : to[k] <= y + 1
  BY <1>2, <1>4, <1>5, Zenon
<1>8. \A k \in 1 .. Len(new) :
        /\ to[k] = IF Marks(new[k], types, runs) THEN to[k - 1] + 1 ELSE to[k - 1]
        /\ Marks(new[k], types, runs) /\ inTurn => new[k].seq = to[k - 1] % Space
  BY <1>2, <1>6, Zenon
<1> QED BY <1>7, <1>8, Zenon DEF Waiting, new

\* The first frame leaves the inbox.
LEMMA WaitingOneLess ==
  ASSUME NEW box \in Seq(Frame), box # <<>>,
         NEW types, NEW runs, NEW inTurn, NEW x \in Int, NEW y \in Int,
         Waiting(box, types, runs, inTurn, x, y)
  PROVE  IF Marks(Head(box), types, runs)
         THEN /\ inTurn => Head(box).seq = x % Space
              /\ x + 1 <= y
              /\ Waiting(Tail(box), types, runs, inTurn, x + 1, y)
         ELSE Waiting(Tail(box), types, runs, inTurn, x, y)
<1> DEFINE M == Len(box)
           new == Tail(box)
           z == IF Marks(Head(box), types, runs) THEN x + 1 ELSE x
<1>1. PICK at \in [0 .. M -> Int] :
         /\ at[0] = x /\ at[M] = y
         /\ \A k \in 0 .. M : at[k] <= y
         /\ \A k \in 1 .. M :
              /\ at[k] = IF Marks(box[k], types, runs) THEN at[k - 1] + 1 ELSE at[k - 1]
              /\ Marks(box[k], types, runs) /\ inTurn => box[k].seq = at[k - 1] % Space
  BY DEF Waiting
<1>2. /\ M \in Nat /\ M > 0 /\ Len(new) = M - 1
      /\ \A k \in 1 .. M - 1 : new[k] = box[k + 1]
      /\ box[1] = Head(box)
  BY HeadTailProperties, LenProperties, EmptySeq
<1> DEFINE to == [k \in 0 .. M - 1 |-> at[k + 1]]
<1> HIDE DEF M, new
<1>3. 1 \in 1 .. M /\ 1 - 1 = 0
  BY <1>2
<1>4. to \in [0 .. M - 1 -> Int] /\ \A k \in 0 .. M - 1 : to[k] = at[k + 1]
  BY <1>1, <1>2
<1> HIDE DEF to
<1>5. at[1] = z /\ (Marks(Head(box), types, runs) /\ inTurn => Head(box).seq = x % Space)
  <2> HIDE DEF Marks
  <2> QED BY <1>1, <1>2, <1>3
<1>6. to[0] = z /\ to[M - 1] = y /\ \A k \in 0 .. M - 1 : to[k] <= y
  <2>1. to[0] = z
    <3>1. 0 \in 0 .. M - 1 /\ 0 + 1 = 1
      BY <1>2
    <3> HIDE DEF z
    <3> QED BY <1>4, <1>5, <3>1
  <2>2. to[M - 1] = y
    <3>1. M - 1 \in 0 .. M - 1 /\ (M - 1) + 1 = M
      BY <1>2
    <3> QED BY <1>1, <1>4, <3>1
  <2>3. \A k \in 0 .. M - 1 : to[k] <= y
    BY <1>1, <1>2, <1>4
  <2> HIDE DEF z
  <2> QED BY <2>1, <2>2, <2>3
<1>7. ASSUME NEW k \in 1 .. M - 1
      PROVE  /\ to[k] = IF Marks(new[k], types, runs) THEN to[k - 1] + 1 ELSE to[k - 1]
             /\ Marks(new[k], types, runs) /\ inTurn => new[k].seq = to[k - 1] % Space
  <2>1. k + 1 \in 1 .. M /\ (k + 1) - 1 = k /\ k - 1 \in 0 .. M - 1 /\ k \in 0 .. M - 1
        /\ (k - 1) + 1 = k
    BY <1>2
  <2>2. new[k] = box[k + 1] /\ to[k] = at[k + 1] /\ to[k - 1] = at[k]
    BY <1>2, <1>4, <2>1
  <2>3. /\ at[k + 1] = IF Marks(box[k + 1], types, runs) THEN at[k] + 1 ELSE at[k]
        /\ Marks(box[k + 1], types, runs) /\ inTurn => box[k + 1].seq = at[k] % Space
    <3> DEFINE j == k + 1
    <3>1. j \in 1 .. M /\ j - 1 = k
      BY <2>1
    <3> HIDE DEF j, Marks
    <3>2. /\ at[j] = IF Marks(box[j], types, runs) THEN at[j - 1] + 1 ELSE at[j - 1]
          /\ Marks(box[j], types, runs) /\ inTurn => box[j].seq = at[j - 1] % Space
      BY <1>1, <3>1
    <3> QED BY <3>1, <3>2 DEF j
  <2> HIDE DEF Marks
  <2> QED BY <2>2, <2>3
<1>8. Waiting(new, types, runs, inTurn, z, y)
  <2> HIDE DEF z, Marks
  <2> QED BY <1>2, <1>4, <1>6, <1>7 DEF Waiting
<1>9. z <= y
  <2>1. 0 \in 0 .. M - 1
    BY <1>2
  <2> HIDE DEF z
  <2> QED BY <1>6, <2>1
<1> HIDE DEF Marks, Waiting
<1> QED BY <1>5, <1>8, <1>9 DEF new

-----------------------------------------------------------------------------
(* A node's log and its tracker.                                           *)

LEMMA ModDifference ==
  ASSUME NEW x \in Int, NEW y \in Int
  PROVE  ((x % Space) - (y % Space)) % Space = (x - y) % Space
<1> DEFINE p == x \div Space
           q == y \div Space
           u == x % Space
           v == y % Space
<1>1. /\ p \in Int /\ q \in Int /\ u \in Int /\ v \in Int
      /\ x = Space * p + u /\ y = Space * q + v
  BY SpaceFacts, SMTT(30)
<1> HIDE DEF p, q, u, v
<1>2. x - y = Space * (p - q) + (u - v)
  <2>1. Space * (p - q) = Space * p - Space * q
    BY <1>1, SpaceFacts
  <2>2. Space * p \in Int /\ Space * q \in Int
    BY <1>1, SpaceFacts
  <2> QED BY <1>1, <2>1, <2>2
<1>3. (Space * (p - q) + (u - v)) % Space = (u - v) % Space
  <2>1. p - q \in Int /\ u - v \in Int /\ Space \in Nat \ {0}
    BY <1>1, SpaceFacts
  <2> QED BY <2>1, ModShift
<1> QED BY <1>2, <1>3 DEF u, v

LEMMA SuccOfMod ==
  ASSUME NEW x \in Int
  PROVE  x % Space \in SeqNo /\ Succ(x % Space) = (x + 1) % Space
<1> DEFINE p == x \div Space
           u == x % Space
<1>1. p \in Int /\ u \in Int /\ 0 <= u /\ u < Space /\ x = Space * p + u
  BY SpaceFacts, SMTT(30)
<1> HIDE DEF p, u
<1>2. (Space * p + (u + 1)) % Space = (u + 1) % Space
  <2>1. u + 1 \in Int /\ Space \in Nat \ {0}
    BY <1>1, SpaceFacts
  <2> QED BY <1>1, <2>1, ModShift
<1>3. x + 1 = Space * p + (u + 1)
  BY <1>1, SpaceFacts
<1>4. u \in SeqNo
  BY <1>1 DEF SeqNo
<1> QED BY <1>2, <1>3, <1>4 DEF u, Succ

LEMMA ModSmall ==
  ASSUME NEW x \in Int, 0 <= x, x < Space
  PROVE  x % Space = x
<1>1. (Space * 0 + x) % Space = x
  BY SpaceFacts, ModUnique
<1> QED BY <1>1, SpaceFacts

HeardIn(l) == {k \in 1 .. Len(l) : l[k].heard}

\* The numbers of a log follow each other. What was heard is what the tracker
\* has seen, it expects the one after the last that was, and its drops are the
\* others in between. No more than m frames were missed since.
LogTrue(l, t, sweeps, m) ==
  /\ \A k \in 1 .. Len(l) : l[k].seq = (l[1].seq + k - 1) % Space
  /\ t.seen = {l[k].seq : k \in HeardIn(l)}
  /\ t.out_of_order = 0
  /\ Len(l) <= Space => t.duplicates = 0
  /\ t.rx_count = Cardinality(HeardIn(l)) + sweeps
  /\ HeardIn(l) = {} => t.expected = None /\ t.drops = 0
  /\ HeardIn(l) # {} =>
       \E a \in HeardIn(l), b \in HeardIn(l) :
         /\ \A k \in HeardIn(l) : a <= k /\ k <= b
         /\ t.expected = Succ(l[b].seq)
         /\ t.drops = Cardinality((a .. b) \ HeardIn(l))
         /\ Len(l) - b <= m

LEMMA FirstNumber ==
  ASSUME NEW l \in Seq(LogEntry), l # <<>>
  PROVE  Len(l) \in Nat /\ 1 \in 1 .. Len(l) /\ l[1].seq \in Nat
<1>1. Len(l) \in Nat /\ Len(l) # 0
  BY LenProperties, EmptySeq
<1>2. 1 \in 1 .. Len(l)
  BY <1>1
<1>3. l[1] \in LogEntry
  BY <1>2, ElementOfSeq
<1> QED BY <1>1, <1>2, <1>3 DEF LogEntry, SeqNo

LEMMA LogStarts ==
  ASSUME NEW m
  PROVE  LogTrue(<<>>, NewTracker, 0, m)
<1> DEFINE l == <<>>
           t == NewTracker
<1>1. Len(l) = 0 /\ 1 .. 0 = {}
  OBVIOUS
<1>2. HeardIn(l) = {}
  BY <1>1 DEF HeardIn
<1>3. /\ t.seen = {} /\ t.out_of_order = 0 /\ t.duplicates = 0 /\ t.rx_count = 0
      /\ t.expected = None /\ t.drops = 0
  BY DEF NewTracker
<1> HIDE DEF l, t
<1>4. \A k \in 1 .. Len(l) : l[k].seq = (l[1].seq + k - 1) % Space
  BY <1>1
<1>5. t.seen = {l[k].seq : k \in HeardIn(l)}
  BY <1>2, <1>3
<1>6. t.rx_count = Cardinality(HeardIn(l)) + 0
  BY <1>2, <1>3, FS_EmptySet
<1>7. LogTrue(l, t, 0, m)
  BY <1>2, <1>3, <1>4, <1>5, <1>6, Zenon DEF LogTrue
<1> QED BY <1>7 DEF l, t

LEMMA LogSwept ==
  ASSUME NEW l \in Seq(LogEntry), NEW t \in Tracker, NEW sweeps \in Nat, NEW m,
         LogTrue(l, t, sweeps, m)
  PROVE  LogTrue(l, [t EXCEPT !.rx_count = @ + 1], sweeps + 1, m)
<1> DEFINE u == [t EXCEPT !.rx_count = @ + 1]
<1>1. /\ u.seen = t.seen /\ u.out_of_order = t.out_of_order /\ u.duplicates = t.duplicates
      /\ u.rx_count = t.rx_count + 1 /\ u.expected = t.expected /\ u.drops = t.drops
  BY DEF Tracker
<1>2. IsFiniteSet(HeardIn(l)) /\ Cardinality(HeardIn(l)) \in Nat
  <2>1. Len(l) \in Nat /\ IsFiniteSet(1 .. Len(l))
    BY LenProperties, FS_Interval
  <2>2. HeardIn(l) \in SUBSET (1 .. Len(l))
    BY DEF HeardIn
  <2> QED BY <2>1, <2>2, FS_Subset, FS_CardinalityType
<1>3. u.rx_count = Cardinality(HeardIn(l)) + (sweeps + 1)
  BY <1>1, <1>2 DEF LogTrue
<1>4. LogTrue(l, u, sweeps + 1, m)
  <2> HIDE DEF u
  <2> QED BY <1>1, <1>3, Zenon DEF LogTrue
<1> QED BY <1>4

\* What a log is after one more frame of the run.
LEMMA LogGrows ==
  ASSUME NEW l \in Seq(LogEntry), NEW x \in LogEntry,
         \A k \in 1 .. Len(l) : l[k].seq = (l[1].seq + k - 1) % Space,
         l # <<>> => x.seq = (l[1].seq + Len(l)) % Space
  PROVE  LET new == Append(l, x) IN
         /\ Len(l) \in Nat /\ Len(new) = Len(l) + 1 /\ new \in Seq(LogEntry)
         /\ \A k \in 1 .. Len(l) : new[k] = l[k]
         /\ new[Len(l) + 1] = x
         /\ \A k \in 1 .. Len(new) : new[k].seq = (new[1].seq + k - 1) % Space
         /\ HeardIn(new) = IF x.heard THEN HeardIn(l) \cup {Len(l) + 1} ELSE HeardIn(l)
         /\ Len(l) + 1 \notin HeardIn(l)
         /\ HeardIn(l) \subseteq 1 .. Len(l)
         /\ IsFiniteSet(HeardIn(l)) /\ Cardinality(HeardIn(l)) \in Nat
<1> DEFINE N == Len(l)
           new == Append(l, x)
           e == x.seq
           h == x.heard
<1>1. e \in SeqNo
  BY DEF LogEntry
<1>2. /\ N \in Nat /\ Len(new) = N + 1 /\ new \in Seq(LogEntry)
      /\ \A k \in 1 .. N : new[k] = l[k]
      /\ new[N + 1] = x
  BY <1>1, AppendProperties, LenProperties
<1>3. HeardIn(l) \subseteq 1 .. N /\ IsFiniteSet(HeardIn(l)) /\ Cardinality(HeardIn(l)) \in Nat
  <2>1. IsFiniteSet(1 .. N)
    BY <1>2, FS_Interval
  <2>2. HeardIn(l) \in SUBSET (1 .. N)
    BY DEF HeardIn
  <2> QED BY <2>1, <2>2, FS_Subset, FS_CardinalityType
<1>4. \A k \in 1 .. Len(new) : new[k].seq = (new[1].seq + k - 1) % Space
  <2> SUFFICES ASSUME NEW k \in 1 .. N + 1 PROVE new[k].seq = (new[1].seq + k - 1) % Space
    BY <1>2
  <2>1. CASE N = 0
    <3>1. k = 1 /\ new[1].seq = e
      BY <1>1, <1>2, <2>1
    <3>2. e \in Int /\ 0 <= e /\ e < Space
      BY <1>1, SpaceFacts DEF SeqNo
    <3>3. e + 1 - 1 = e /\ e % Space = e
      BY <3>2, ModSmall
    <3> QED BY <3>1, <3>3
  <2>2. CASE N > 0 /\ k = N + 1
    <3>1. l # <<>> /\ 1 \in 1 .. N
      BY <1>2, <2>2
    <3>2. l[1].seq \in Nat
      BY <3>1, FirstNumber
    <3>3. new[k].seq = (l[1].seq + N) % Space /\ new[1] = l[1]
      BY <1>1, <1>2, <2>2, <3>1
    <3>4. l[1].seq + k - 1 = l[1].seq + N
      BY <1>2, <2>2, <3>2
    <3> QED BY <3>3, <3>4
  <2>3. CASE N > 0 /\ k <= N
    <3>1. k \in 1 .. N /\ 1 \in 1 .. N
      BY <1>2, <2>3
    <3> QED BY <1>2, <3>1
  <2> QED BY <1>2, <2>1, <2>2, <2>3
<1>5. HeardIn(new) = IF h THEN HeardIn(l) \cup {N + 1} ELSE HeardIn(l)
  <2>1. 1 .. Len(new) = (1 .. N) \cup {N + 1}
    BY <1>2
  <2> HIDE DEF N, new
  <2>2. HeardIn(new) = {k \in (1 .. N) \cup {N + 1} : new[k].heard}
    BY <2>1, Zenon DEF HeardIn
  <2>3. HeardIn(l) = {k \in 1 .. N : l[k].heard}
    BY Zenon DEF HeardIn, N
  <2>4. \A k \in 1 .. N : new[k].heard <=> l[k].heard
    BY <1>2
  <2>5. new[N + 1].heard <=> h
    BY <1>1, <1>2
  <2> QED BY <2>2, <2>3, <2>4, <2>5
<1>6. N + 1 \notin HeardIn(l)
  BY <1>2, <1>3
<1> QED BY <1>2, <1>3, <1>4, <1>5, <1>6

\* A frame of the run is missed.
LEMMA LogMisses ==
  ASSUME NEW l \in Seq(LogEntry), NEW t \in Tracker, NEW sweeps \in Nat, NEW m \in Nat,
         LogTrue(l, t, sweeps, m),
         NEW e \in SeqNo, l # <<>> => e = (l[1].seq + Len(l)) % Space
  PROVE  LogTrue(Append(l, [seq |-> e, heard |-> FALSE]), t, sweeps, m + 1)
<1> DEFINE new == Append(l, [seq |-> e, heard |-> FALSE])
<1>1. \A k \in 1 .. Len(l) : l[k].seq = (l[1].seq + k - 1) % Space
  BY DEF LogTrue
<1>2. /\ Len(l) \in Nat /\ Len(new) = Len(l) + 1
      /\ \A k \in 1 .. Len(l) : new[k] = l[k]
      /\ \A k \in 1 .. Len(new) : new[k].seq = (new[1].seq + k - 1) % Space
      /\ HeardIn(new) = HeardIn(l)
      /\ HeardIn(l) \subseteq 1 .. Len(l)
  <2> DEFINE x == [seq |-> e, heard |-> FALSE]
  <2>1. x \in LogEntry /\ x.seq = e /\ ~x.heard /\ new = Append(l, x)
    BY DEF LogEntry
  <2> HIDE DEF x, new
  <2> QED BY <1>1, <2>1, LogGrows
<1> HIDE DEF new
<1>3. t.seen = {new[k].seq : k \in HeardIn(new)}
  <2>1. t.seen = {l[k].seq : k \in HeardIn(l)}
    BY DEF LogTrue
  <2>2. \A k \in HeardIn(l) : new[k] = l[k]
    BY <1>2
  <2> QED BY <1>2, <2>1, <2>2
<1>4. Len(new) <= Space => t.duplicates = 0
  BY <1>2, SpaceFacts DEF LogTrue
<1>5. HeardIn(new) # {} =>
        \E a \in HeardIn(new), b \in HeardIn(new) :
          /\ \A k \in HeardIn(new) : a <= k /\ k <= b
          /\ t.expected = Succ(new[b].seq)
          /\ t.drops = Cardinality((a .. b) \ HeardIn(new))
          /\ Len(new) - b <= m + 1
  <2> SUFFICES ASSUME HeardIn(l) # {}
               PROVE  \E a \in HeardIn(l), b \in HeardIn(l) :
                        /\ \A k \in HeardIn(l) : a <= k /\ k <= b
                        /\ t.expected = Succ(new[b].seq)
                        /\ t.drops = Cardinality((a .. b) \ HeardIn(l))
                        /\ Len(new) - b <= m + 1
    BY <1>2
  <2>1. PICK a \in HeardIn(l), b \in HeardIn(l) :
          /\ \A k \in HeardIn(l) : a <= k /\ k <= b
          /\ t.expected = Succ(l[b].seq)
          /\ t.drops = Cardinality((a .. b) \ HeardIn(l))
          /\ Len(l) - b <= m
    BY Zenon DEF LogTrue
  <2>2. b \in 1 .. Len(l) /\ new[b] = l[b]
    BY <1>2
  <2>3. Len(new) - b <= m + 1
    BY <1>2, <2>1, <2>2
  <2> QED BY <2>1, <2>2, <2>3, Zenon
<1>6. HeardIn(new) = {} => t.expected = None /\ t.drops = 0
  BY <1>2, Zenon DEF LogTrue
<1>7. t.rx_count = Cardinality(HeardIn(new)) + sweeps /\ t.out_of_order = 0
  BY <1>2, Zenon DEF LogTrue
<1> QED BY <1>2, <1>3, <1>4, <1>5, <1>6, <1>7, Zenon DEF LogTrue, new

\* A frame of the run is heard.
LEMMA LogHears ==
  ASSUME NEW l \in Seq(LogEntry), NEW t \in Tracker, NEW sweeps \in Nat, NEW m \in Nat,
         m < WrapThreshold, LogTrue(l, t, sweeps, m),
         NEW e \in SeqNo, l # <<>> => e = (l[1].seq + Len(l)) % Space
  PROVE  LogTrue(Append(l, [seq |-> e, heard |-> TRUE]), Track(t, e), sweeps, m)
<1> DEFINE new == Append(l, [seq |-> e, heard |-> TRUE])
           v == Track(t, e)
           H == HeardIn(l)
           N == Len(l)
<1>1. \A k \in 1 .. Len(l) : l[k].seq = (l[1].seq + k - 1) % Space
  BY DEF LogTrue
<1>2. /\ N \in Nat /\ Len(new) = N + 1
      /\ \A k \in 1 .. N : new[k] = l[k]
      /\ new[N + 1].seq = e
      /\ \A k \in 1 .. Len(new) : new[k].seq = (new[1].seq + k - 1) % Space
      /\ HeardIn(new) = H \cup {N + 1}
      /\ N + 1 \notin H /\ H \subseteq 1 .. N
      /\ IsFiniteSet(H) /\ Cardinality(H) \in Nat
  <2> DEFINE x == [seq |-> e, heard |-> TRUE]
  <2>1. x \in LogEntry /\ x.heard /\ x.seq = e
    BY DEF LogEntry
  <2>3. Append(l, x) = new
    OBVIOUS
  <2> HIDE DEF x
  <2>2. /\ Len(l) \in Nat /\ Len(Append(l, x)) = Len(l) + 1
        /\ \A k \in 1 .. Len(l) : Append(l, x)[k] = l[k]
        /\ Append(l, x)[Len(l) + 1] = x
        /\ \A k \in 1 .. Len(Append(l, x)) :
             Append(l, x)[k].seq = (Append(l, x)[1].seq + k - 1) % Space
        /\ HeardIn(Append(l, x)) = HeardIn(l) \cup {Len(l) + 1}
        /\ Len(l) + 1 \notin HeardIn(l) /\ HeardIn(l) \subseteq 1 .. Len(l)
        /\ IsFiniteSet(HeardIn(l)) /\ Cardinality(HeardIn(l)) \in Nat
    BY <1>1, <2>1, LogGrows
  <2> HIDE DEF new, H, N
  <2>4. N \in Nat /\ Len(new) = N + 1 /\ \A k \in 1 .. N : new[k] = l[k]
    BY <2>2, <2>3, Zenon DEF N
  <2>5. new[N + 1].seq = e
    BY <2>1, <2>2, <2>3, Zenon DEF N
  <2>6. \A k \in 1 .. Len(new) : new[k].seq = (new[1].seq + k - 1) % Space
    BY <2>2, <2>3
  <2>7. /\ HeardIn(new) = H \cup {N + 1}
        /\ N + 1 \notin H /\ H \subseteq 1 .. N
        /\ IsFiniteSet(H) /\ Cardinality(H) \in Nat
    BY <2>1, <2>2, <2>3, Zenon DEF H, N
  <2> QED BY <2>4, <2>5, <2>6, <2>7
<1>3. /\ v.seen = t.seen \cup {e}
      /\ v.duplicates = IF e \in t.seen THEN t.duplicates + 1 ELSE t.duplicates
      /\ v.rx_count = t.rx_count + 1
      /\ v \in Tracker
  <2>1. CASE t.expected = None
    BY <2>1, TrackRecord, TrackFirst, TrackType
  <2>2. CASE t.expected # None
    BY <2>2, TrackRecord, TrackInTurn, TrackType
  <2> QED BY <2>1, <2>2
<1>4. /\ t.rx_count = Cardinality(H) + sweeps /\ t.out_of_order = 0
      /\ t.seen = {l[k].seq : k \in H}
      /\ N <= Space => t.duplicates = 0
      /\ H = {} => t.expected = None /\ t.drops = 0
      /\ H # {} =>
           \E a \in H, b \in H :
             /\ \A k \in H : a <= k /\ k <= b
             /\ t.expected = Succ(l[b].seq)
             /\ t.drops = Cardinality((a .. b) \ H)
             /\ N - b <= m
  BY Zenon DEF LogTrue
<1> HIDE DEF new, v, H, N
<1>5. v.seen = {new[k].seq : k \in HeardIn(new)}
  <2>1. \A k \in H : new[k] = l[k]
    BY <1>2
  <2>2. {new[k].seq : k \in HeardIn(new)} = {l[k].seq : k \in H} \cup {new[N + 1].seq}
    <3>1. HeardIn(new) = H \cup {N + 1}
      BY <1>2
    <3> QED BY <2>1, <3>1
  <2>3. v.seen = {l[k].seq : k \in H} \cup {e}
    BY <1>3, <1>4, Zenon
  <2> QED BY <1>2, <2>2, <2>3, Zenon
<1>6. v.rx_count = Cardinality(HeardIn(new)) + sweeps
  <2>1. Cardinality(HeardIn(new)) = Cardinality(H) + 1
    BY <1>2, FS_AddElement
  <2> QED BY <1>2, <1>3, <1>4, <2>1
\* A number comes back only when the space has been gone through.
<1>7. Len(new) <= Space => v.duplicates = 0
  <2> SUFFICES ASSUME N + 1 <= Space PROVE v.duplicates = 0
    BY <1>2
  <2>1. e \notin t.seen
    <3> SUFFICES ASSUME NEW k \in H, l[k].seq = e PROVE FALSE
      BY <1>4
    <3>1. k \in 1 .. N /\ k \in Int /\ N > 0 /\ l # <<>> /\ 1 \in 1 .. N
      BY <1>2 DEF N
    <3>2. l[1].seq \in Nat
      BY <3>1, FirstNumber
    <3>3. l[k].seq = (l[1].seq + k - 1) % Space /\ e = (l[1].seq + N) % Space
      BY <1>1, <3>1 DEF N
    <3> DEFINE p == l[1].seq + N
               q == l[1].seq + k - 1
    <3>4. p \in Int /\ q \in Int /\ p - q = N + 1 - k
      <4>1. N \in Int
        BY <1>2
      <4>2. k \in Int
        BY <3>1
      <4>3. \A z \in Nat, n, i \in Int :
              /\ z + n \in Int /\ z + i - 1 \in Int
              /\ (z + n) - (z + i - 1) = n + 1 - i
        OBVIOUS
      <4> QED BY <3>2, <4>1, <4>2, <4>3, Zenon
    <3>5. ((p % Space) - (q % Space)) % Space = (p - q) % Space
      BY <3>4, ModDifference
    <3>6. (p % Space) - (q % Space) = 0
      <4>1. p % Space = e /\ q % Space = e
        BY <3>3
      <4>2. e \in Int
        BY DEF SeqNo
      <4> HIDE DEF p, q
      <4> QED BY <4>1, <4>2
    <3> HIDE DEF p, q
    <3>7. 0 % Space = 0
      BY ModSmall, SpaceFacts
    <3>8. (N + 1 - k) % Space = N + 1 - k
      <4>1. N + 1 - k \in Int /\ 0 <= N + 1 - k /\ N + 1 - k < Space
        BY <1>2, <3>1, SpaceFacts
      <4> QED BY <4>1, ModSmall
    <3>9. N + 1 - k = 0
      BY <3>4, <3>5, <3>6, <3>7, <3>8
    <3> QED BY <1>2, <3>1, <3>9
  <2>2. N <= Space
    BY <1>2, SpaceFacts
  <2> QED BY <1>3, <1>4, <2>1, <2>2
<1>8. CASE H = {}
  <2>1. v.expected = Succ(e) /\ v.drops = 0 /\ v.out_of_order = 0
    BY <1>4, <1>8, TrackFirst DEF v
  <2>2. HeardIn(new) = {N + 1}
    BY <1>2, <1>8
  <2>3. (N + 1 .. N + 1) \ HeardIn(new) = {}
    BY <1>2, <2>2
  <2>4. /\ \A k \in HeardIn(new) : N + 1 <= k /\ k <= N + 1
        /\ v.drops = Cardinality((N + 1 .. N + 1) \ HeardIn(new))
        /\ Len(new) - (N + 1) <= m
        /\ v.expected = Succ(new[N + 1].seq)
    <3>1. \A k \in HeardIn(new) : N + 1 <= k /\ k <= N + 1
      BY <1>2, <2>2
    <3>2. Len(new) - (N + 1) <= m
      BY <1>2
    <3> QED BY <1>2, <2>1, <2>3, <3>1, <3>2, FS_EmptySet
  <2>5. N + 1 \in HeardIn(new)
    BY <2>2
  <2>6. \E a \in HeardIn(new), b \in HeardIn(new) :
          /\ \A k \in HeardIn(new) : a <= k /\ k <= b
          /\ v.expected = Succ(new[b].seq)
          /\ v.drops = Cardinality((a .. b) \ HeardIn(new))
          /\ Len(new) - b <= m
    BY <2>4, <2>5, Zenon
  <2> QED BY <1>2, <1>5, <1>6, <1>7, <2>1, <2>5, <2>6, Zenon DEF LogTrue, new, v
<1>9. CASE H # {}
  <2>1. PICK a \in H, b \in H :
          /\ \A k \in H : a <= k /\ k <= b
          /\ t.expected = Succ(l[b].seq)
          /\ t.drops = Cardinality((a .. b) \ H)
          /\ N - b <= m
    BY <1>4, <1>9, Zenon
  <2>2. /\ a \in 1 .. N /\ b \in 1 .. N /\ a \in Int /\ b \in Int /\ a <= b
        /\ 1 \in 1 .. N /\ l # <<>>
    BY <1>2, <2>1 DEF N
  <2>3. l[1].seq \in Nat
    BY <2>2, FirstNumber
  <2>4. l[b].seq = (l[1].seq + b - 1) % Space /\ e = (l[1].seq + N) % Space
    BY <1>1, <2>2 DEF N
  <2>5. t.expected = (l[1].seq + b) % Space /\ t.expected # None
    <3>1. l[1].seq + b - 1 \in Int /\ (l[1].seq + b - 1) + 1 = l[1].seq + b
      BY <2>2, <2>3
    <3>2. t.expected = (l[1].seq + b) % Space
      BY <2>1, <2>4, <3>1, SuccOfMod
    <3>3. (l[1].seq + b) % Space \in SeqNo
      <4>1. l[1].seq + b \in Int
        BY <2>2, <2>3
      <4> QED BY <4>1, SuccOfMod
    <3> QED BY <3>2, <3>3, SpaceFacts
  <2>6. Ahead(t, e) = N - b
    <3>1. Ahead(t, e) = ((l[1].seq + N) - (l[1].seq + b)) % Space
      <4>1. l[1].seq + N \in Int /\ l[1].seq + b \in Int
        <5>1. N \in Int
          BY <1>2
        <5> QED BY <2>2, <2>3, <5>1
      <4> QED BY <2>4, <2>5, <4>1, ModDifference DEF Ahead
    <3>2. (l[1].seq + N) - (l[1].seq + b) = N - b /\ N - b \in Int /\ 0 <= N - b
      BY <1>2, <2>2, <2>3
    <3>3. N - b < Space
      BY <2>1, <3>2, SpaceFacts
    <3>4. (N - b) % Space = N - b
      BY <3>2, <3>3, ModSmall
    <3> QED BY <3>1, <3>2, <3>4
  <2>7. Ahead(t, e) < WrapThreshold
    BY <1>2, <2>1, <2>2, <2>6, SpaceFacts
  <2>8. v.expected = Succ(e) /\ v.drops = t.drops + (N - b) /\ v.out_of_order = 0
    BY <1>4, <2>5, <2>6, <2>7, TrackInTurn DEF v
  <2>9. HeardIn(new) = H \cup {N + 1}
    BY <1>2
  \* The frames missed since the last one heard are the new drops.
  <2>10. v.drops = Cardinality((a .. N + 1) \ HeardIn(new))
    <3> DEFINE old == (a .. b) \ H
               gap == b + 1 .. N
    <3>1. (a .. N + 1) \ HeardIn(new) = old \cup gap
      <4>1. ASSUME NEW k \in gap
            PROVE  k \in a .. N + 1 /\ k \notin H /\ k # N + 1
        <5>1. k \in Int /\ b + 1 <= k /\ k <= N /\ N \in Int
          BY <1>2, <2>2
        <5>2. ~(k <= b)
          BY <2>2, <5>1
        <5>3. k \notin H
          BY <2>1, <5>2, Zenon
        <5>4. k \in a .. N + 1 /\ k # N + 1
          BY <2>2, <5>1
        <5> QED BY <5>3, <5>4
      <4>2. \A k \in (a .. N + 1) \ HeardIn(new) : k \in old \/ k \in gap
        BY <1>2, <2>2, <2>9
      <4>3. \A k \in old : k \in (a .. N + 1) \ HeardIn(new)
        BY <1>2, <2>2, <2>9
      <4> HIDE DEF old, gap
      <4> QED BY <2>9, <4>1, <4>2, <4>3
    <3>2. old \cap gap = {}
      BY <1>2, <2>2
    <3>3. IsFiniteSet(old) /\ IsFiniteSet(gap) /\ Cardinality(gap) = N - b
      <4>1. IsFiniteSet(a .. b) /\ old \in SUBSET (a .. b)
        BY <2>2, FS_Interval
      <4>2. b + 1 \in Int /\ N \in Int
        BY <1>2, <2>2
      <4>3. IsFiniteSet(gap) /\ Cardinality(gap) = IF b + 1 > N THEN 0 ELSE N - (b + 1) + 1
        BY <4>2, FS_Interval
      <4>4. IsFiniteSet(old)
        BY <4>1, FS_Subset
      <4> HIDE DEF old, gap
      <4> QED BY <1>2, <2>2, <4>3, <4>4
    <3>4. Cardinality(old) \in Nat
      BY <3>3, FS_CardinalityType
    <3> HIDE DEF old, gap
    <3>5. Cardinality(old \cup gap) = Cardinality(old) + Cardinality(gap) - Cardinality(old \cap gap)
      BY <3>3, FS_Union
    <3>6. Cardinality(old \cap gap) = 0
      BY <3>2, FS_EmptySet
    <3>7. Cardinality(old \cup gap) = Cardinality(old) + (N - b)
      BY <1>2, <2>2, <3>3, <3>4, <3>5, <3>6
    <3>8. t.drops = Cardinality(old)
      BY <2>1 DEF old
    <3> QED BY <2>8, <3>1, <3>7, <3>8
  <2>11. /\ a \in HeardIn(new) /\ N + 1 \in HeardIn(new)
         /\ \A k \in HeardIn(new) : a <= k /\ k <= N + 1
         /\ v.expected = Succ(new[N + 1].seq)
         /\ Len(new) - (N + 1) <= m
    <3>1. a \in HeardIn(new) /\ N + 1 \in HeardIn(new)
      BY <2>9
    <3>2. ASSUME NEW k \in HeardIn(new) PROVE a <= k /\ k <= N + 1
      <4>1. CASE k \in H
        <5>1. k \in 1 .. N /\ a <= k
          BY <1>2, <2>1, <4>1
        <5> QED BY <1>2, <5>1
      <4>2. CASE k = N + 1
        BY <1>2, <2>2, <4>2
      <4> QED BY <2>9, <4>1, <4>2
    <3>3. Len(new) - (N + 1) <= m
      BY <1>2
    <3> QED BY <1>2, <2>8, <3>1, <3>2, <3>3
  <2>12. \E c \in HeardIn(new), d \in HeardIn(new) :
           /\ \A k \in HeardIn(new) : c <= k /\ k <= d
           /\ v.expected = Succ(new[d].seq)
           /\ v.drops = Cardinality((c .. d) \ HeardIn(new))
           /\ Len(new) - d <= m
    BY <2>10, <2>11, Zenon
  <2> QED BY <1>2, <1>5, <1>6, <1>7, <2>8, <2>11, <2>12, Zenon DEF LogTrue, new, v
<1> QED BY <1>8, <1>9

LEMMA LogPatience ==
  ASSUME NEW l \in Seq(LogEntry), NEW t, NEW sweeps, NEW m \in Nat, NEW w \in Nat, m <= w,
         LogTrue(l, t, sweeps, m)
  PROVE  LogTrue(l, t, sweeps, w)
<1>1. HeardIn(l) # {} =>
        \E a \in HeardIn(l), b \in HeardIn(l) :
          /\ \A k \in HeardIn(l) : a <= k /\ k <= b
          /\ t.expected = Succ(l[b].seq)
          /\ t.drops = Cardinality((a .. b) \ HeardIn(l))
          /\ Len(l) - b <= w
  <2> SUFFICES ASSUME HeardIn(l) # {}
               PROVE  \E a \in HeardIn(l), b \in HeardIn(l) :
                        /\ \A k \in HeardIn(l) : a <= k /\ k <= b
                        /\ t.expected = Succ(l[b].seq)
                        /\ t.drops = Cardinality((a .. b) \ HeardIn(l))
                        /\ Len(l) - b <= w
    OBVIOUS
  <2>1. PICK a \in HeardIn(l), b \in HeardIn(l) :
          /\ \A k \in HeardIn(l) : a <= k /\ k <= b
          /\ t.expected = Succ(l[b].seq)
          /\ t.drops = Cardinality((a .. b) \ HeardIn(l))
          /\ Len(l) - b <= m
    BY Zenon DEF LogTrue
  <2>2. b \in Int /\ Len(l) \in Int
    BY LenProperties DEF HeardIn
  <2>3. Len(l) - b <= w
    BY <2>1, <2>2
  <2> QED BY <2>1, <2>3, Zenon
<1> QED BY <1>1, Zenon DEF LogTrue

\* What the log of a node says of the drops its tracker counts.
LEMMA LogCounts ==
  ASSUME NEW l \in Seq(LogEntry), NEW t, NEW sweeps, NEW m, LogTrue(l, t, sweeps, m),
         HeardIn(l) # {}
  PROVE  t.drops = Cardinality({k \in 1 .. Len(l) :
                                  /\ ~l[k].heard
                                  /\ \E a \in HeardIn(l) : a < k
                                  /\ \E b \in HeardIn(l) : k < b})
<1> DEFINE H == HeardIn(l)
           N == Len(l)
           between == {k \in 1 .. N : /\ ~l[k].heard
                                      /\ \E a \in H : a < k
                                      /\ \E b \in H : k < b}
<1>1. PICK a \in H, b \in H :
        /\ \A k \in H : a <= k /\ k <= b
        /\ t.drops = Cardinality((a .. b) \ H)
  BY Zenon DEF LogTrue
<1>2. H \subseteq 1 .. N /\ N \in Nat /\ \A k \in 1 .. N : k \in H <=> l[k].heard
  BY LenProperties DEF HeardIn
<1>3. between = {k \in 1 .. N : k \notin H /\ (\E c \in H : c < k) /\ (\E d \in H : k < d)}
  BY <1>2, Zenon
<1> HIDE DEF H, N, between
<1>4. ASSUME NEW k \in between PROVE k \in (a .. b) \ H
  <2>1. k \in 1 .. N /\ k \notin H
    BY <1>3
  <2>2. PICK c \in H : c < k
    BY <1>3
  <2>3. PICK d \in H : k < d
    BY <1>3
  <2>4. a \in Int /\ b \in Int /\ c \in Int /\ d \in Int /\ k \in Int /\ a <= c /\ d <= b
    BY <1>1, <1>2, <2>1
  <2>5. k \in a .. b
    BY <2>2, <2>3, <2>4
  <2> QED BY <2>1, <2>5
<1>5. ASSUME NEW k \in (a .. b) \ H PROVE k \in between
  <2>1. a \in 1 .. N /\ b \in 1 .. N /\ k \in Int /\ a <= k /\ k <= b /\ k # a /\ k # b
    BY <1>1, <1>2
  <2>2. a < k /\ k < b /\ k \in 1 .. N
    BY <1>2, <2>1
  <2> QED BY <1>1, <1>3, <2>2
<1>6. between = (a .. b) \ H
  BY <1>4, <1>5
<1> QED BY <1>1, <1>6 DEF between, H, N

-----------------------------------------------------------------------------
(* The inductive invariant.                                                *)

\* The numbered frames of initiator i that wait at a node carry its numbers up
\* to the next one it will use, and the first of them is the one after the
\* last of the node's log, if the log is of i's run.
InTurn(box, i, due, run, l) ==
  \E x, y \in Int :
    /\ Waiting(box, Numbered, {i}, TRUE, x, y)
    /\ due = y % Space
    /\ run = i /\ l # <<>> => x % Space = (l[1].seq + Len(l)) % Space

\* Of "total" frames that are no replies, x have left the inbox, and what was
\* sent in answer is at most four times that.
Paid(box, tx, total) ==
  \E x \in Int :
    /\ Waiting(box, Types \ Replies, Runs \cup {None}, FALSE, x, total)
    /\ tx <= 4 * x

NumbersInTurn ==
  \A n \in Nodes, i \in Initiators :
    InTurn(inbox[n], i, nextSeq[i], responder[n].run, log[n])

AnswersPaid == \A n \in Nodes : Paid(inbox[n], responder[n].tx_count, sends)

LogsTrue == \A n \in Nodes : LogTrue(log[n], responder[n].sequence, swept[n], missed)

TInv == BusTypeOK /\ NumbersInTurn /\ AnswersPaid /\ LogsTrue

LEMMA BoxSent ==
  ASSUME NEW box, BoxOK(box), NEW f, Sound(f)
  PROVE  BoxOK(Append(box, f))
<1> DEFINE new == Append(box, f)
<1>1. f \in Frame
  BY DEF Sound
<1>2. /\ Len(box) \in Nat /\ Len(new) = Len(box) + 1 /\ new \in Seq(Frame)
      /\ \A k \in 1 .. Len(box) : new[k] = box[k]
      /\ new[Len(box) + 1] = f
  BY <1>1, AppendProperties, LenProperties DEF BoxOK
<1>3. \A k \in 1 .. Len(box) : Sound(box[k])
  BY DEF BoxOK
<1> HIDE DEF new, Sound
<1>4. ASSUME NEW k \in 1 .. Len(new) PROVE Sound(new[k])
  <2>1. k \in 1 .. Len(box) \/ k = Len(box) + 1
    BY <1>2
  <2> QED BY <1>2, <1>3, <2>1
<1> QED BY <1>2, <1>4 DEF BoxOK, new

LEMMA BoxAnswered ==
  ASSUME NEW box, BoxOK(box), NEW more, BoxOK(more)
  PROVE  BoxOK(box \o more)
<1> DEFINE new == box \o more
<1>1. /\ Len(box) \in Nat /\ Len(more) \in Nat /\ Len(new) = Len(box) + Len(more)
      /\ new \in Seq(Frame)
      /\ \A k \in 1 .. Len(box) : new[k] = box[k]
      /\ \A k \in Len(box) + 1 .. Len(box) + Len(more) : new[k] = more[k - Len(box)]
  BY ConcatProperties, LenProperties DEF BoxOK
<1>2. \A k \in 1 .. Len(box) : Sound(box[k])
  BY DEF BoxOK
<1>3. \A k \in 1 .. Len(more) : Sound(more[k])
  BY DEF BoxOK
<1> HIDE DEF new, Sound
<1>4. ASSUME NEW k \in 1 .. Len(new) PROVE Sound(new[k])
  <2>1. CASE k <= Len(box)
    <3>1. k \in 1 .. Len(box)
      BY <1>1, <2>1
    <3> QED BY <1>1, <1>2, <3>1
  <2>2. CASE k > Len(box)
    <3>1. k \in Len(box) + 1 .. Len(box) + Len(more) /\ k - Len(box) \in 1 .. Len(more)
      BY <1>1, <2>2
    <3> QED BY <1>1, <1>3, <3>1
  <2> QED BY <1>1, <2>1, <2>2
<1> QED BY <1>1, <1>4 DEF BoxOK, new

LEMMA BoxTaken ==
  ASSUME NEW box, BoxOK(box), box # <<>>
  PROVE  Sound(Head(box)) /\ BoxOK(Tail(box))
<1>1. /\ Len(box) \in Nat /\ Len(box) > 0 /\ Tail(box) \in Seq(Frame)
      /\ Len(Tail(box)) = Len(box) - 1
      /\ Head(box) = box[1]
      /\ \A k \in 1 .. Len(box) - 1 : Tail(box)[k] = box[k + 1]
  BY HeadTailProperties, LenProperties, EmptySeq DEF BoxOK
<1>2. \A k \in 1 .. Len(box) : Sound(box[k])
  BY DEF BoxOK
<1> HIDE DEF Sound
<1>3. ASSUME NEW k \in 1 .. Len(Tail(box)) PROVE Sound(Tail(box)[k])
  <2>1. k \in 1 .. Len(box) - 1 /\ k + 1 \in 1 .. Len(box)
    BY <1>1
  <2> QED BY <1>1, <1>2, <2>1
<1>4. 1 \in 1 .. Len(box)
  BY <1>1
<1> QED BY <1>1, <1>2, <1>3, <1>4 DEF BoxOK

\* What the initiators put on the bus.
LEMMA SentSound ==
  ASSUME BusTypeOK, NEW i \in Initiators, NEW type \in Sends
  PROVE  Sound(FrameOf(i, type)) /\ FrameOf(i, type) \in Frame
<1> DEFINE f == FrameOf(i, type)
           run == IF type = "SweepRequest" THEN None ELSE i
           seq == IF type \in Numbered THEN nextSeq[i] ELSE 0
           arg == IF type = "Start" THEN i ELSE 0
<1>1. f = [type |-> type, run |-> run, seq |-> seq, arg |-> arg]
  BY DEF FrameOf
<1>2. type \in Types /\ type # "Status" /\ i \in Runs
  BY Kinds DEF Replies
<1>3. run \in Runs \cup {None} /\ seq \in SeqNo /\ arg \in Arg
  <2>1. nextSeq[i] \in SeqNo /\ 0 \in SeqNo
    BY SpaceFacts DEF BusTypeOK, SeqNo
  <2> QED BY <1>2, <2>1 DEF Arg
<1>4. type \in Numbered => run \in Initiators
  BY Kinds
<1>5. type = "Start" => arg \in Initiators
  OBVIOUS
<1> HIDE DEF f, run, seq, arg
<1>6. f \in Frame
  BY <1>1, <1>2, <1>3 DEF Frame
<1> QED BY <1>1, <1>2, <1>4, <1>5, <1>6 DEF Sound, f

\* InTurn and Paid through what can happen to an inbox: a frame is sent, the
\* replies of a node arrive, the first frame is taken out.
LEMMA TurnSent ==
  ASSUME NEW box, BoxOK(box), NEW f \in Frame, NEW i, NEW due, NEW run, NEW l,
         InTurn(box, i, due, run, l),
         Marks(f, Numbered, {i}) => f.seq = due
  PROVE  InTurn(Append(box, f), i, IF Marks(f, Numbered, {i}) THEN Succ(due) ELSE due, run, l)
<1>1. box \in Seq(Frame)
  BY DEF BoxOK
<1>2. PICK x \in Int, y \in Int :
        /\ Waiting(box, Numbered, {i}, TRUE, x, y)
        /\ due = y % Space
        /\ run = i /\ l # <<>> => x % Space = (l[1].seq + Len(l)) % Space
  BY DEF InTurn
<1>3. CASE Marks(f, Numbered, {i})
  <2>1. Waiting(Append(box, f), Numbered, {i}, TRUE, x, y + 1)
    BY <1>1, <1>2, <1>3, WaitingOneMore
  <2>2. Succ(due) = (y + 1) % Space /\ y + 1 \in Int
    BY <1>2, SuccOfMod
  <2> HIDE DEF Marks
  <2> QED BY <1>2, <1>3, <2>1, <2>2, Zenon DEF InTurn
<1>4. CASE ~Marks(f, Numbered, {i})
  <2>1. <<f>> \in Seq(Frame) /\ Len(<<f>>) = 1 /\ <<f>>[1] = f
    OBVIOUS
  <2>2. Append(box, f) = box \o <<f>>
    BY <1>1, AppendIsConcat
  <2>3. \A k \in 1 .. Len(<<f>>) : ~Marks(<<f>>[k], Numbered, {i})
    BY <1>4, <2>1
  <2>4. Waiting(Append(box, f), Numbered, {i}, TRUE, x, y)
    BY <1>1, <1>2, <2>1, <2>2, <2>3, WaitingMore
  <2> HIDE DEF Marks
  <2> QED BY <1>2, <1>4, <2>4, Zenon DEF InTurn
<1> QED BY <1>3, <1>4

LEMMA TurnAnswered ==
  ASSUME NEW box, BoxOK(box), NEW more, BoxOK(more),
         \A k \in 1 .. Len(more) : more[k].type \in Replies,
         NEW i, NEW due, NEW run, NEW l,
         InTurn(box, i, due, run, l)
  PROVE  InTurn(box \o more, i, due, run, l)
<1>1. box \in Seq(Frame) /\ more \in Seq(Frame)
  BY DEF BoxOK
<1>2. PICK x \in Int, y \in Int :
        /\ Waiting(box, Numbered, {i}, TRUE, x, y)
        /\ due = y % Space
        /\ run = i /\ l # <<>> => x % Space = (l[1].seq + Len(l)) % Space
  BY DEF InTurn
<1>3. \A k \in 1 .. Len(more) : ~Marks(more[k], Numbered, {i})
  BY Kinds DEF Marks
<1>4. Waiting(box \o more, Numbered, {i}, TRUE, x, y)
  BY <1>1, <1>2, <1>3, WaitingMore
<1> QED BY <1>2, <1>4, Zenon DEF InTurn

\* A frame of the node's own run is the next of the log. Any other frame
\* leaves the log, or the frame ends the run or starts a new log.
LEMMA TurnTaken ==
  ASSUME NEW box, BoxOK(box), box # <<>>, NEW i, NEW due, NEW run,
         NEW l \in Seq(LogEntry), NEW h \in BOOLEAN,
         InTurn(box, i, due, run, l)
  PROVE  /\ Marks(Head(box), Numbered, {i}) /\ run = i =>
              /\ l # <<>> => Head(box).seq = (l[1].seq + Len(l)) % Space
              /\ InTurn(Tail(box), i, due, run, Append(l, [seq |-> Head(box).seq, heard |-> h]))
         /\ ~(Marks(Head(box), Numbered, {i}) /\ run = i) => InTurn(Tail(box), i, due, run, l)
         /\ \A other : InTurn(Tail(box), i, due, other, <<>>)
         /\ \A other : other # i => InTurn(Tail(box), i, due, other, l)
<1> DEFINE f == Head(box)
           rest == Tail(box)
           e == f.seq
           new == Append(l, [seq |-> e, heard |-> h])
<1>1. box \in Seq(Frame)
  BY DEF BoxOK
<1>2. PICK x \in Int, y \in Int :
        /\ Waiting(box, Numbered, {i}, TRUE, x, y)
        /\ due = y % Space
        /\ run = i /\ l # <<>> => x % Space = (l[1].seq + Len(l)) % Space
  BY DEF InTurn
<1>3. IF Marks(f, Numbered, {i})
      THEN e = x % Space /\ Waiting(rest, Numbered, {i}, TRUE, x + 1, y)
      ELSE Waiting(rest, Numbered, {i}, TRUE, x, y)
  BY <1>1, <1>2, WaitingOneLess
<1> DEFINE z == IF Marks(f, Numbered, {i}) THEN x + 1 ELSE x
<1>4. z \in Int /\ Waiting(rest, Numbered, {i}, TRUE, z, y)
  <2>1. CASE Marks(f, Numbered, {i})
    <3>1. z = x + 1
      BY <2>1
    <3>2. x + 1 \in Int
      BY <1>2
    <3> HIDE DEF z, f, rest, Marks
    <3> QED BY <1>3, <2>1, <3>1, <3>2, Zenon
  <2>2. CASE ~Marks(f, Numbered, {i})
    <3>1. z = x
      BY <2>2
    <3>2. x \in Int
      BY <1>2
    <3> HIDE DEF z, f, rest, Marks
    <3> QED BY <1>3, <2>2, <3>1, <3>2, Zenon
  <2> QED BY <2>1, <2>2
<1>5. ASSUME NEW r, NEW u, r = i /\ u # <<>> => z % Space = (u[1].seq + Len(u)) % Space
      PROVE  InTurn(rest, i, due, r, u)
  <2> HIDE DEF z, rest
  <2> QED BY <1>2, <1>4, <1>5, Zenon DEF InTurn
<1>6. ASSUME Marks(f, Numbered, {i}), run = i
      PROVE  /\ l # <<>> => e = (l[1].seq + Len(l)) % Space
             /\ InTurn(rest, i, due, run, new)
  <2>1. z = x + 1 /\ e = x % Space
    BY <1>3, <1>6
  <2>2. e \in SeqNo /\ Succ(e) = z % Space
    BY <1>2, <2>1, SuccOfMod
  <2>3. l # <<>> => e = (l[1].seq + Len(l)) % Space
    BY <1>2, <1>6, <2>1, Zenon
  <2> HIDE DEF z, e
  <2>4. z % Space = (new[1].seq + Len(new)) % Space
    <3> DEFINE entry == [seq |-> e, heard |-> h]
    <3>1. entry \in LogEntry /\ entry.seq = e
      BY <2>2 DEF LogEntry
    <3>2. /\ Len(l) \in Nat /\ Len(new) = Len(l) + 1
          /\ \A k \in 1 .. Len(l) : new[k] = l[k]
          /\ new[Len(l) + 1] = entry
      BY <3>1, AppendProperties, LenProperties
    <3> HIDE DEF new, entry
    <3>3. CASE l = <<>>
      <4>1. Len(l) = 0
        BY <3>3
      <4>2. new[1].seq = e /\ Len(new) = 1
        BY <3>1, <3>2, <4>1
      <4>3. e \in Int /\ e % Space = e
        <5>1. e \in Int /\ 0 <= e /\ e < Space
          BY <2>2 DEF SeqNo
        <5> QED BY <5>1, ModSmall
      <4>4. Succ(e % Space) = (e + 1) % Space
        BY <4>3, SuccOfMod
      <4> QED BY <2>2, <4>2, <4>3, <4>4
    <3>4. CASE l # <<>>
      <4> DEFINE p == l[1].seq + Len(l)
      <4>1. Len(l) \in Nat /\ 1 \in 1 .. Len(l) /\ l[1].seq \in Nat
        BY <3>4, FirstNumber
      <4>2. p \in Int /\ new[1].seq = l[1].seq
        BY <3>2, <4>1
      <4>3. new[1].seq + Len(new) = p + 1
        BY <3>2, <4>1, <4>2
      <4>4. e = p % Space
        BY <2>3, <3>4
      <4> HIDE DEF p
      <4>5. Succ(p % Space) = (p + 1) % Space
        BY <4>2, SuccOfMod
      <4> QED BY <2>2, <4>3, <4>4, <4>5
    <3> QED BY <3>3, <3>4
  <2>5. InTurn(rest, i, due, run, new)
    BY <1>5, <2>4
  <2> QED BY <2>3, <2>5
<1>7. ASSUME ~(Marks(f, Numbered, {i}) /\ run = i)
      PROVE  InTurn(rest, i, due, run, l)
  <2>1. run = i => z = x
    BY <1>7
  <2>2. run = i /\ l # <<>> => z % Space = (l[1].seq + Len(l)) % Space
    <3> HIDE DEF z
    <3> QED BY <1>2, <2>1
  <2> QED BY <1>5, <2>2
<1>8. \A other : InTurn(rest, i, due, other, <<>>)
  BY <1>5
<1>9. \A other : other # i => InTurn(rest, i, due, other, l)
  BY <1>5
<1> HIDE DEF Marks
<1> QED BY <1>6, <1>7, <1>8, <1>9

LEMMA PaidSent ==
  ASSUME NEW box, BoxOK(box), NEW f \in Frame, f.type \in Types \ Replies,
         NEW tx, NEW total \in Nat, Paid(box, tx, total)
  PROVE  Paid(Append(box, f), tx, total + 1)
<1>1. box \in Seq(Frame)
  BY DEF BoxOK
<1>2. PICK x \in Int : /\ Waiting(box, Types \ Replies, Runs \cup {None}, FALSE, x, total)
                       /\ tx <= 4 * x
  BY DEF Paid
<1>3. Marks(f, Types \ Replies, Runs \cup {None})
  BY DEF Marks, Frame
<1>4. Waiting(Append(box, f), Types \ Replies, Runs \cup {None}, FALSE, x, total + 1)
  <2> DEFINE turn == FALSE
             types == Types \ Replies
             runs == Runs \cup {None}
  <2>1. Waiting(box, types, runs, turn, x, total) /\ Marks(f, types, runs) /\ ~turn
    BY <1>2, <1>3, Zenon
  <2> HIDE DEF turn, types, runs
  <2>2. Waiting(Append(box, f), types, runs, turn, x, total + 1)
    BY <1>1, <1>2, <2>1, WaitingOneMore
  <2> QED BY <2>2, Zenon DEF turn, types, runs
<1> QED BY <1>2, <1>4, Zenon DEF Paid

LEMMA PaidAnswered ==
  ASSUME NEW box, BoxOK(box), NEW more, BoxOK(more),
         \A k \in 1 .. Len(more) : more[k].type \in Replies,
         NEW tx, NEW total \in Nat, Paid(box, tx, total)
  PROVE  Paid(box \o more, tx, total)
<1>1. box \in Seq(Frame) /\ more \in Seq(Frame)
  BY DEF BoxOK
<1>2. PICK x \in Int : /\ Waiting(box, Types \ Replies, Runs \cup {None}, FALSE, x, total)
                       /\ tx <= 4 * x
  BY DEF Paid
<1>3. \A k \in 1 .. Len(more) : ~Marks(more[k], Types \ Replies, Runs \cup {None})
  BY DEF Marks
<1>4. Waiting(box \o more, Types \ Replies, Runs \cup {None}, FALSE, x, total)
  <2> DEFINE turn == FALSE
             types == Types \ Replies
             runs == Runs \cup {None}
  <2>1. /\ Waiting(box, types, runs, turn, x, total)
        /\ \A k \in 1 .. Len(more) : ~Marks(more[k], types, runs)
    BY <1>2, <1>3, Zenon
  <2> HIDE DEF turn, types, runs
  <2>2. Waiting(box \o more, types, runs, turn, x, total)
    BY <1>1, <1>2, <2>1, WaitingMore
  <2> QED BY <2>2, Zenon DEF turn, types, runs
<1> QED BY <1>2, <1>4, Zenon DEF Paid

\* A reply is paid for by nothing, any other frame with four frames.
LEMMA PaidTaken ==
  ASSUME NEW box, BoxOK(box), box # <<>>,
         NEW tx \in Nat, NEW total \in Nat, Paid(box, tx, total),
         NEW out \in Nat, out <= tx + (IF Head(box).type \in Replies THEN 0 ELSE 4)
  PROVE  Paid(Tail(box), out, total)
<1>1. box \in Seq(Frame)
  BY DEF BoxOK
<1>2. PICK x \in Int : /\ Waiting(box, Types \ Replies, Runs \cup {None}, FALSE, x, total)
                       /\ tx <= 4 * x
  BY DEF Paid
<1>3. Head(box) \in Frame
  BY BoxTaken DEF Sound
<1>4. Marks(Head(box), Types \ Replies, Runs \cup {None}) <=> Head(box).type \notin Replies
  BY <1>3 DEF Marks, Frame
<1>5. IF Head(box).type \notin Replies
      THEN Waiting(Tail(box), Types \ Replies, Runs \cup {None}, FALSE, x + 1, total)
      ELSE Waiting(Tail(box), Types \ Replies, Runs \cup {None}, FALSE, x, total)
  <2> DEFINE turn == FALSE
             types == Types \ Replies
             runs == Runs \cup {None}
  <2>1. /\ Waiting(box, types, runs, turn, x, total)
        /\ Marks(Head(box), types, runs) <=> Head(box).type \notin Replies
    BY <1>2, <1>4, Zenon
  <2> HIDE DEF turn, types, runs
  <2>2. IF Marks(Head(box), types, runs)
        THEN Waiting(Tail(box), types, runs, turn, x + 1, total)
        ELSE Waiting(Tail(box), types, runs, turn, x, total)
    BY <1>1, <1>2, <2>1, WaitingOneLess
  <2>3. IF Head(box).type \notin Replies
        THEN Waiting(Tail(box), types, runs, turn, x + 1, total)
        ELSE Waiting(Tail(box), types, runs, turn, x, total)
    BY <2>1, <2>2, Zenon
  <2> QED BY <2>3, Zenon DEF turn, types, runs
<1>6. CASE Head(box).type \in Replies
  <2>1. out <= 4 * x
    BY <1>2, <1>6
  <2> QED BY <1>5, <1>6, <2>1, Zenon DEF Paid
<1>7. CASE Head(box).type \notin Replies
  <2>1. out <= 4 * (x + 1) /\ x + 1 \in Int
    BY <1>2, <1>7
  <2> QED BY <1>5, <1>7, <2>1, Zenon DEF Paid
<1> QED BY <1>6, <1>7

LEMMA PaidBound ==
  ASSUME NEW box, BoxOK(box), NEW tx \in Nat, NEW total \in Nat, Paid(box, tx, total)
  PROVE  tx <= 4 * total
<1>1. PICK x \in Int : /\ Waiting(box, Types \ Replies, Runs \cup {None}, FALSE, x, total)
                       /\ tx <= 4 * x
  BY DEF Paid
<1>2. PICK at \in [0 .. Len(box) -> Int] :
        at[0] = x /\ \A k \in 0 .. Len(box) : at[k] <= total
  BY <1>1 DEF Waiting
<1>3. 0 \in 0 .. Len(box)
  BY LenProperties DEF BoxOK
<1>4. x <= total
  BY <1>2, <1>3
<1> QED BY <1>1, <1>4

-----------------------------------------------------------------------------
(* The steps of the bus.                                                   *)

LEMMA TInvStarts == BusInit => TInv
<1> SUFFICES ASSUME BusInit PROVE TInv
  OBVIOUS
<1>1. \A n \in Nodes : /\ inbox[n] = <<>> /\ log[n] = <<>> /\ swept[n] = 0
                       /\ \E c \in Capabilities : responder[n] = NewResponder(c)
  BY DEF BusInit
<1>2. sends = 0 /\ missed = 0 /\ \A i \in Initiators : nextSeq[i] = 0
  BY DEF BusInit
<1>3. 0 \in SeqNo /\ 0 \in Int /\ 0 = 0 % Space
  BY SpaceFacts, ModSmall DEF SeqNo
<1>4. ASSUME NEW c \in Capabilities
      PROVE  /\ NewResponder(c) \in ResponderState
             /\ NewResponder(c).run = None /\ NewResponder(c).tx_count = 0
             /\ NewResponder(c).sequence = NewTracker
  <2>1. NewTracker \in Tracker /\ c \in SUBSET Capable
    BY Kinds DEF NewTracker, Tracker
  <2> QED BY <2>1 DEF NewResponder, ResponderState
<1>5. BusTypeOK
  <2>1. responder \in [Nodes -> ResponderState]
    BY <1>4 DEF BusInit
  <2>2. inbox \in [Nodes -> Seq(Frame)] /\ log \in [Nodes -> Seq(LogEntry)] /\ swept \in [Nodes -> Nat]
    BY DEF BusInit
  <2>3. ASSUME NEW n \in Nodes PROVE BoxOK(inbox[n])
    <3>1. inbox[n] = <<>> /\ inbox[n] \in Seq(Frame)
      BY <1>1, <2>2
    <3>2. 1 .. Len(inbox[n]) = {}
      BY <3>1
    <3> QED BY <3>1, <3>2 DEF BoxOK
  <2>4. nextSeq \in [Initiators -> SeqNo]
    BY <1>3 DEF BusInit
  <2>5. sends \in Nat /\ missed \in Nat /\ missed <= MaxMissed
    BY <1>2, Kinds
  <2> QED BY <2>1, <2>2, <2>3, <2>4, <2>5 DEF BusTypeOK
<1>6. ASSUME NEW n \in Nodes, NEW i \in Initiators
      PROVE  InTurn(inbox[n], i, nextSeq[i], responder[n].run, log[n])
  <2>1. Waiting(<<>>, Numbered, {i}, TRUE, 0, 0)
    BY <1>3, WaitingEmpty, Zenon
  <2>2. InTurn(<<>>, i, 0, responder[n].run, <<>>)
    BY <1>3, <2>1, Zenon DEF InTurn
  <2> QED BY <1>1, <1>2, <2>2
<1>7. ASSUME NEW n \in Nodes PROVE Paid(inbox[n], responder[n].tx_count, sends)
  <2>1. Waiting(<<>>, Types \ Replies, Runs \cup {None}, FALSE, 0, 0)
    BY <1>3, WaitingEmpty, Zenon
  <2>2. 0 <= 4 * 0
    OBVIOUS
  <2>3. Paid(<<>>, 0, 0)
    BY <1>3, <2>1, <2>2, Zenon DEF Paid
  <2> QED BY <1>1, <1>2, <1>4, <2>3
<1>8. ASSUME NEW n \in Nodes PROVE LogTrue(log[n], responder[n].sequence, swept[n], missed)
  BY <1>1, <1>2, <1>4, LogStarts
<1> QED BY <1>5, <1>6, <1>7, <1>8 DEF TInv, NumbersInTurn, AnswersPaid, LogsTrue

LEMMA TInvSend ==
  ASSUME TInv, NEW i \in Initiators, NEW type \in Sends, Send(i, type)
  PROVE  TInv'
<1> DEFINE f == FrameOf(i, type)
<1>1. BusTypeOK /\ NumbersInTurn /\ AnswersPaid /\ LogsTrue
  BY DEF TInv
<1>2. Sound(f) /\ f \in Frame
  BY <1>1, SentSound
<1>3. f.type = type /\ type \in Types \ Replies
  BY Kinds DEF FrameOf
<1>4. /\ type \in Numbered => f.run = i /\ f.seq = nextSeq[i]
      /\ \A j : Marks(f, Numbered, {j}) <=> (type \in Numbered /\ j = i)
  BY Kinds DEF FrameOf, Marks
<1>5. /\ responder' = responder /\ missed' = missed /\ log' = log /\ swept' = swept
      /\ sends' = sends + 1
      /\ \A n \in Nodes : inbox'[n] = Append(inbox[n], f)
      /\ inbox' = [n \in Nodes |-> Append(inbox[n], f)]
      /\ nextSeq' = [nextSeq EXCEPT ![i] = IF type \in Numbered THEN Succ(@) ELSE @]
  BY DEF Send
<1> HIDE DEF f
<1>6. \A n \in Nodes : BoxOK(inbox'[n]) /\ inbox'[n] \in Seq(Frame)
  <2> SUFFICES ASSUME NEW n \in Nodes PROVE BoxOK(inbox'[n])
    BY DEF BoxOK
  <2>1. BoxOK(inbox[n])
    BY <1>1 DEF BusTypeOK
  <2> QED BY <1>2, <1>5, <2>1, BoxSent
<1>7. nextSeq' \in [Initiators -> SeqNo]
  <2>1. nextSeq[i] \in SeqNo /\ Succ(nextSeq[i]) \in SeqNo
    BY <1>1, SuccValue DEF BusTypeOK
  <2> QED BY <1>1, <1>5, <2>1 DEF BusTypeOK
<1>8. BusTypeOK'
  <2>1. inbox' \in [Nodes -> Seq(Frame)]
    BY <1>5, <1>6
  <2>2. sends' \in Nat
    BY <1>1, <1>5 DEF BusTypeOK
  <2> QED BY <1>1, <1>5, <1>6, <1>7, <2>1, <2>2 DEF BusTypeOK
<1>9. ASSUME NEW n \in Nodes, NEW j \in Initiators
      PROVE  InTurn(inbox[n], j, nextSeq[j], responder[n].run, log[n])'
  <2>1. BoxOK(inbox[n]) /\ InTurn(inbox[n], j, nextSeq[j], responder[n].run, log[n])
    BY <1>1 DEF BusTypeOK, NumbersInTurn
  <2>2. Marks(f, Numbered, {j}) => f.seq = nextSeq[j]
    BY <1>4
  <2>3. InTurn(Append(inbox[n], f), j,
               IF Marks(f, Numbered, {j}) THEN Succ(nextSeq[j]) ELSE nextSeq[j],
               responder[n].run, log[n])
    BY <1>2, <2>1, <2>2, TurnSent
  <2>4. nextSeq'[j] = IF Marks(f, Numbered, {j}) THEN Succ(nextSeq[j]) ELSE nextSeq[j]
    BY <1>1, <1>4, <1>5 DEF BusTypeOK
  <2> QED BY <1>5, <2>3, <2>4
<1>10. ASSUME NEW n \in Nodes PROVE Paid(inbox[n], responder[n].tx_count, sends)'
  <2>1. BoxOK(inbox[n]) /\ Paid(inbox[n], responder[n].tx_count, sends) /\ sends \in Nat
    BY <1>1 DEF BusTypeOK, AnswersPaid
  <2>2. Paid(Append(inbox[n], f), responder[n].tx_count, sends + 1)
    BY <1>2, <1>3, <2>1, PaidSent
  <2> QED BY <1>5, <2>2
<1>11. LogsTrue'
  BY <1>1, <1>5 DEF LogsTrue
<1> QED BY <1>8, <1>9, <1>10, <1>11 DEF TInv, NumbersInTurn, AnswersPaid

\* The frame of the node's own run is one of an initiator, the next of its log.
LEMMA OwnNumber ==
  ASSUME TInv, NEW n \in Nodes, inbox[n] # <<>>, NEW h \in BOOLEAN, IsOfRun(n, Head(inbox[n]))
  PROVE  /\ responder[n].run \in Initiators
         /\ Head(inbox[n]).seq \in SeqNo
         /\ log[n] # <<>> => Head(inbox[n]).seq = (log[n][1].seq + Len(log[n])) % Space
<1> DEFINE f == Head(inbox[n])
           r == responder[n].run
<1>1. BoxOK(inbox[n]) /\ log[n] \in Seq(LogEntry)
  BY DEF TInv, BusTypeOK
<1>2. Sound(f)
  BY <1>1, BoxTaken
<1>3. f.type \in Numbered /\ f.run = r
  BY DEF IsOfRun
<1>4. r \in Initiators /\ f.seq \in SeqNo
  BY <1>2, <1>3 DEF Sound, Frame
<1>5. Marks(f, Numbered, {r})
  BY <1>3 DEF Marks
<1>6. InTurn(inbox[n], r, nextSeq[r], r, log[n])
  BY <1>4 DEF TInv, NumbersInTurn
<1>7. log[n] # <<>> => f.seq = (log[n][1].seq + Len(log[n])) % Space
  BY <1>1, <1>5, <1>6, TurnTaken
<1> QED BY <1>4, <1>7

LEMMA TInvHandle ==
  ASSUME TInv, NEW n \in Nodes, Handle(n)
  PROVE  TInv'
<1> DEFINE r == responder[n]
           f == Head(inbox[n])
           a == OnFrame(r, f)
           l == log[n]
           rest(m) == IF m = n THEN Tail(inbox[n]) ELSE inbox[m]
<1>1. BusTypeOK /\ NumbersInTurn /\ AnswersPaid /\ LogsTrue
  BY DEF TInv
<1>2. /\ r \in ResponderState /\ l \in Seq(LogEntry) /\ swept[n] \in Nat
      /\ missed \in Nat /\ missed < WrapThreshold /\ r.tx_count \in Nat /\ sends \in Nat
      /\ r.sequence \in Tracker
  <2>1. missed < WrapThreshold
    BY <1>1, Kinds, SpaceFacts DEF BusTypeOK
  <2> QED BY <1>1, <2>1 DEF BusTypeOK, ResponderState
<1>3. inbox[n] # <<>> /\ BoxOK(inbox[n]) /\ Sound(f) /\ BoxOK(Tail(inbox[n]))
  BY <1>1, BoxTaken DEF Handle, BusTypeOK
<1>4. Treated(a, r, f)
  BY <1>2, <1>3, OnFrameTreats
<1>5. /\ responder' = [responder EXCEPT ![n] = a.responder]
      /\ inbox' = [m \in Nodes |-> IF Hears(n, m)
                                   THEN [inbox EXCEPT ![n] = Tail(@)][m] \o a.replies
                                   ELSE [inbox EXCEPT ![n] = Tail(@)][m]]
      /\ log' = [log EXCEPT ![n] =
                   IF f.type = "Start" THEN <<>>
                   ELSE IF IsOfRun(n, f) THEN Append(@, [seq |-> f.seq, heard |-> TRUE])
                   ELSE @]
      /\ swept' = [swept EXCEPT ![n] =
                     IF f.type = "Start" THEN 0
                     ELSE IF f.type = "SweepRequest" /\ r.run # None
                     THEN @ + 1 ELSE @]
      /\ nextSeq' = nextSeq /\ sends' = sends /\ missed' = missed
  BY DEF Handle
<1> HIDE DEF a, f
<1>6. ASSUME NEW m \in Nodes
      PROVE  /\ inbox'[m] = rest(m) \/ inbox'[m] = rest(m) \o a.replies
             /\ BoxOK(rest(m)) /\ BoxOK(a.replies)
             /\ \A k \in 1 .. Len(a.replies) : a.replies[k].type \in Replies
             /\ m # n => responder'[m] = responder[m] /\ log'[m] = log[m] /\ swept'[m] = swept[m]
  <2>1. [inbox EXCEPT ![n] = Tail(@)][m] = rest(m)
    BY <1>1 DEF BusTypeOK
  <2>2. inbox'[m] = rest(m) \/ inbox'[m] = rest(m) \o a.replies
    BY <1>5, <2>1
  <2>3. BoxOK(inbox[m])
    BY <1>1 DEF BusTypeOK
  <2>4. BoxOK(rest(m))
    BY <1>3, <2>3
  <2>5. BoxOK(a.replies) /\ \A k \in 1 .. Len(a.replies) : a.replies[k].type \in Replies
    BY <1>4 DEF Treated, BoxOK
  <2>6. m # n => responder'[m] = responder[m] /\ log'[m] = log[m] /\ swept'[m] = swept[m]
    BY <1>1, <1>5 DEF BusTypeOK
  <2> HIDE DEF rest
  <2> QED BY <2>2, <2>4, <2>5, <2>6
<1>7. /\ responder'[n] = a.responder
      /\ log'[n] = (IF f.type = "Start" THEN <<>>
                    ELSE IF IsOfRun(n, f) THEN Append(l, [seq |-> f.seq, heard |-> TRUE])
                    ELSE l)
      /\ swept'[n] = (IF f.type = "Start" THEN 0
                      ELSE IF f.type = "SweepRequest" /\ r.run # None
                      THEN swept[n] + 1 ELSE swept[n])
  BY <1>1, <1>5 DEF BusTypeOK
<1>8. IsOfRun(n, f) => /\ r.run \in Initiators /\ f.seq \in SeqNo
                       /\ l # <<>> => f.seq = (l[1].seq + Len(l)) % Space
                       /\ f.type # "Start" /\ f.type # "SweepRequest"
                       /\ f.type # "Stop" /\ f.type \in Numbered /\ f.run = r.run
  <2> SUFFICES ASSUME IsOfRun(n, f)
               PROVE  /\ r.run \in Initiators /\ f.seq \in SeqNo
                      /\ l # <<>> => f.seq = (l[1].seq + Len(l)) % Space
                      /\ f.type # "Start" /\ f.type # "SweepRequest"
                      /\ f.type # "Stop" /\ f.type \in Numbered /\ f.run = r.run
    OBVIOUS
  <2>1. f.type \in Numbered /\ f.run = r.run
    BY DEF IsOfRun
  <2>2. f.type # "Start" /\ f.type # "SweepRequest" /\ f.type # "Stop"
    BY <2>1 DEF Numbered
  <2>3. /\ r.run \in Initiators /\ f.seq \in SeqNo
        /\ l # <<>> => f.seq = (l[1].seq + Len(l)) % Space
    BY <1>3, OwnNumber DEF f
  <2> QED BY <2>1, <2>2, <2>3
\* What has a number comes from an initiator, so IsOfRun is the responder's test.
<1>9. f.type \in Numbered /\ f.run = r.run <=> IsOfRun(n, f)
  <2>1. f.type \in Numbered => f.run \in Initiators
    BY <1>3 DEF Sound
  <2> QED BY <2>1, Kinds DEF IsOfRun
<1>10. log' \in [Nodes -> Seq(LogEntry)] /\ swept' \in [Nodes -> Nat]
  <2>1. IsOfRun(n, f) => Append(l, [seq |-> f.seq, heard |-> TRUE]) \in Seq(LogEntry)
    <3> SUFFICES ASSUME IsOfRun(n, f) PROVE Append(l, [seq |-> f.seq, heard |-> TRUE]) \in Seq(LogEntry)
      OBVIOUS
    <3>1. [seq |-> f.seq, heard |-> TRUE] \in LogEntry
      BY <1>8 DEF LogEntry
    <3> QED BY <1>2, <3>1, AppendProperties
  <2>2. log'[n] \in Seq(LogEntry) /\ swept'[n] \in Nat
    BY <1>2, <1>7, <2>1
  <2> QED BY <1>1, <1>5, <1>7, <2>2 DEF BusTypeOK
<1>11. BusTypeOK'
  <2>1. responder' \in [Nodes -> ResponderState]
    BY <1>1, <1>4, <1>5 DEF BusTypeOK, Treated
  <2>2. ASSUME NEW m \in Nodes PROVE BoxOK(inbox'[m]) /\ inbox'[m] \in Seq(Frame)
    <3>1. BoxOK(inbox'[m])
      <4> HIDE DEF rest
      <4> QED BY <1>6, BoxAnswered
    <3> QED BY <3>1 DEF BoxOK
  <2>3. inbox' \in [Nodes -> Seq(Frame)]
    BY <1>5, <2>2
  <2> QED BY <1>1, <1>5, <1>10, <2>1, <2>2, <2>3 DEF BusTypeOK
<1>12. ASSUME NEW m \in Nodes, NEW i \in Initiators
       PROVE  InTurn(inbox[m], i, nextSeq[i], responder[m].run, log[m])'
  <2>1. InTurn(rest(m), i, nextSeq[i], responder'[m].run, log'[m])
    <3>1. InTurn(inbox[m], i, nextSeq[i], responder[m].run, log[m])
      BY <1>1 DEF NumbersInTurn
    <3>2. CASE m # n
      BY <1>6, <3>1, <3>2
    <3>3. CASE m = n
      <4> DEFINE run == responder'[n].run
                 own == Marks(f, Numbered, {i}) /\ r.run = i
                 h   == TRUE
      <4>1. run = (IF f.type = "Start" THEN f.arg ELSE IF f.type = "Stop" THEN None ELSE r.run)
        BY <1>4, <1>7 DEF Treated
      <4>2. /\ own => InTurn(Tail(inbox[n]), i, nextSeq[i], r.run,
                             Append(l, [seq |-> f.seq, heard |-> h]))
            /\ ~own => InTurn(Tail(inbox[n]), i, nextSeq[i], r.run, l)
            /\ \A other : InTurn(Tail(inbox[n]), i, nextSeq[i], other, <<>>)
            /\ \A other : other # i => InTurn(Tail(inbox[n]), i, nextSeq[i], other, l)
        <5>1. h \in BOOLEAN
          OBVIOUS
        <5> HIDE DEF h
        <5> QED BY <1>2, <1>3, <3>1, <3>3, <5>1, TurnTaken DEF f
      <4>3. own <=> IsOfRun(n, f) /\ r.run = i
        BY <1>9 DEF Marks
      <4>4. rest(m) = Tail(inbox[n])
        BY <3>3
      <4>5. i # None
        BY Kinds
      <4> HIDE DEF run, own, rest
      <4>6. InTurn(Tail(inbox[n]), i, nextSeq[i], run, log'[n])
        <5>1. CASE f.type = "Start"
          BY <1>7, <4>2, <5>1
        <5>2. CASE f.type = "Stop"
          <6>1. log'[n] = l /\ run = None
            BY <1>7, <1>8, <4>1, <5>2
          <6> QED BY <4>2, <4>5, <6>1
        <5>3. CASE f.type # "Start" /\ f.type # "Stop" /\ own
          <6>1. log'[n] = Append(l, [seq |-> f.seq, heard |-> h]) /\ run = r.run
            BY <1>7, <4>1, <4>3, <5>3
          <6> QED BY <4>2, <5>3, <6>1
        <5>4. CASE f.type # "Start" /\ f.type # "Stop" /\ ~own /\ ~IsOfRun(n, f)
          <6>1. log'[n] = l /\ run = r.run
            BY <1>7, <4>1, <5>4
          <6> QED BY <4>2, <5>4, <6>1
        <5>5. CASE f.type # "Start" /\ f.type # "Stop" /\ ~own /\ IsOfRun(n, f)
          <6>1. run = r.run /\ r.run # i
            BY <4>1, <4>3, <5>5
          <6>2. InTurn(Tail(inbox[n]), i, nextSeq[i], r.run, log'[n])
            BY <4>2, <6>1 DEF InTurn
          <6> QED BY <6>1, <6>2
        <5> QED BY <5>1, <5>2, <5>3, <5>4, <5>5
      <4> QED BY <3>3, <4>4, <4>6 DEF run
    <3> QED BY <3>2, <3>3
  <2> HIDE DEF rest
  <2>2. InTurn(rest(m) \o a.replies, i, nextSeq[i], responder'[m].run, log'[m])
    BY <1>6, <2>1, TurnAnswered
  <2> QED BY <1>5, <1>6, <2>1, <2>2
<1>13. ASSUME NEW m \in Nodes PROVE Paid(inbox[m], responder[m].tx_count, sends)'
  <2>1. /\ BoxOK(inbox[m]) /\ Paid(inbox[m], responder[m].tx_count, sends)
        /\ responder'[m].tx_count \in Nat
    BY <1>1, <1>11 DEF BusTypeOK, AnswersPaid, ResponderState
  <2>2. Paid(rest(m), responder'[m].tx_count, sends)
    <3>1. CASE m # n
      BY <1>6, <2>1, <3>1
    <3>2. CASE m = n
      <4>1. responder'[n].tx_count <= r.tx_count + (IF f.type \in Replies THEN 0 ELSE 4)
        BY <1>4, <1>7 DEF Treated
      <4>2. Paid(Tail(inbox[n]), responder'[n].tx_count, sends)
        BY <1>2, <1>3, <2>1, <3>2, <4>1, PaidTaken DEF f
      <4> QED BY <3>2, <4>2
    <3> QED BY <3>1, <3>2
  <2> HIDE DEF rest
  <2>3. Paid(rest(m) \o a.replies, responder'[m].tx_count, sends)
    BY <1>2, <1>6, <2>2, PaidAnswered
  <2> QED BY <1>5, <1>6, <2>2, <2>3
<1>14. ASSUME NEW m \in Nodes
       PROVE  LogTrue(log[m], responder[m].sequence, swept[m], missed)'
  <2>1. LogTrue(log[m], responder[m].sequence, swept[m], missed)
    BY <1>1 DEF LogsTrue
  <2>2. CASE m # n
    BY <1>5, <1>6, <2>1, <2>2
  <2>3. CASE m = n
    <3> DEFINE t == responder'[n].sequence
    <3>1. t = (IF f.type = "Start" THEN NewTracker
               ELSE IF f.type \in Numbered /\ f.run = r.run THEN Track(r.sequence, f.seq)
               ELSE IF f.type = "SweepRequest" /\ r.run # None
               THEN [r.sequence EXCEPT !.rx_count = @ + 1] ELSE r.sequence)
      BY <1>4, <1>7 DEF Treated
    <3>2. LogTrue(l, r.sequence, swept[n], missed)
      BY <2>1, <2>3
    <3> HIDE DEF t, r, l
    <3>3. LogTrue(log'[n], t, swept'[n], missed)
      <4>1. CASE f.type = "Start"
        <5>1. log'[n] = <<>> /\ swept'[n] = 0 /\ t = NewTracker
          BY <1>7, <3>1, <4>1
        <5> QED BY <5>1, LogStarts
      <4>2. CASE IsOfRun(n, f)
        <5>1. /\ log'[n] = Append(l, [seq |-> f.seq, heard |-> TRUE]) /\ swept'[n] = swept[n]
              /\ t = Track(r.sequence, f.seq)
          BY <1>7, <1>8, <3>1, <4>2
        <5> QED BY <1>2, <1>8, <3>2, <4>2, <5>1, LogHears
      <4>3. CASE f.type # "Start" /\ ~IsOfRun(n, f) /\ f.type = "SweepRequest" /\ r.run # None
        <5>1. log'[n] = l /\ swept'[n] = swept[n] + 1 /\ t = [r.sequence EXCEPT !.rx_count = @ + 1]
          BY <1>7, <1>9, <3>1, <4>3
        <5> QED BY <1>2, <3>2, <5>1, LogSwept
      <4>4. CASE f.type # "Start" /\ ~IsOfRun(n, f) /\ ~(f.type = "SweepRequest" /\ r.run # None)
        <5>1. log'[n] = l /\ swept'[n] = swept[n] /\ t = r.sequence
          BY <1>7, <1>9, <3>1, <4>4
        <5> QED BY <3>2, <5>1
      <4> QED BY <4>1, <4>2, <4>3, <4>4
    <3> QED BY <1>5, <2>3, <3>3 DEF t
  <2> QED BY <2>2, <2>3
<1> QED BY <1>11, <1>12, <1>13, <1>14 DEF TInv, NumbersInTurn, AnswersPaid, LogsTrue

LEMMA TInvMiss ==
  ASSUME TInv, NEW n \in Nodes, Miss(n)
  PROVE  TInv'
<1> DEFINE f == Head(inbox[n])
           l == log[n]
           r == responder[n]
<1>1. BusTypeOK /\ NumbersInTurn /\ AnswersPaid /\ LogsTrue
  BY DEF TInv
<1>2. /\ inbox[n] # <<>> /\ BoxOK(inbox[n]) /\ Sound(f) /\ BoxOK(Tail(inbox[n]))
      /\ l \in Seq(LogEntry)
  BY <1>1, BoxTaken DEF Miss, BusTypeOK
<1>3. /\ responder' = responder /\ nextSeq' = nextSeq /\ sends' = sends /\ swept' = swept
      /\ missed' = missed + 1
      /\ inbox' = [inbox EXCEPT ![n] = Tail(@)]
      /\ log' = [log EXCEPT ![n] = IF IsOfRun(n, f)
                                   THEN Append(@, [seq |-> f.seq, heard |-> FALSE]) ELSE @]
  BY DEF Miss
<1>4. missed \in Nat /\ missed + 1 \in Nat /\ missed <= missed + 1 /\ missed' <= MaxMissed
  BY <1>1, Kinds DEF BusTypeOK, Miss
<1>5. ASSUME NEW m \in Nodes, m # n
      PROVE  inbox'[m] = inbox[m] /\ log'[m] = log[m]
  BY <1>1, <1>3, <1>5 DEF BusTypeOK
<1>6. /\ inbox'[n] = Tail(inbox[n])
      /\ log'[n] = IF IsOfRun(n, f) THEN Append(l, [seq |-> f.seq, heard |-> FALSE]) ELSE l
  BY <1>1, <1>3 DEF BusTypeOK
<1>7. IsOfRun(n, f) => /\ r.run \in Initiators /\ f.seq \in SeqNo
                       /\ l # <<>> => f.seq = (l[1].seq + Len(l)) % Space
  BY <1>2, OwnNumber
\* What has a number comes from an initiator.
<1>8. f.type \in Numbered /\ f.run = r.run <=> IsOfRun(n, f)
  <2>1. f.type \in Numbered => f.run \in Initiators
    BY <1>2 DEF Sound
  <2> QED BY <2>1, Kinds DEF IsOfRun
<1> HIDE DEF f, l
<1>9. BusTypeOK'
  <2>1. log'[n] \in Seq(LogEntry)
    <3>1. CASE IsOfRun(n, f)
      <4>1. [seq |-> f.seq, heard |-> FALSE] \in LogEntry
        BY <1>7, <3>1 DEF LogEntry
      <4> QED BY <1>2, <1>6, <3>1, <4>1, AppendProperties
    <3>2. CASE ~IsOfRun(n, f)
      BY <1>2, <1>6, <3>2
    <3> QED BY <3>1, <3>2
  <2>2. log' \in [Nodes -> Seq(LogEntry)]
    BY <1>1, <1>3, <1>5, <2>1 DEF BusTypeOK
  <2>3. ASSUME NEW m \in Nodes PROVE BoxOK(inbox'[m]) /\ inbox'[m] \in Seq(Frame)
    <3>1. BoxOK(inbox[m])
      BY <1>1 DEF BusTypeOK
    <3>2. BoxOK(inbox'[m])
      BY <1>2, <1>5, <1>6, <3>1
    <3> QED BY <3>2 DEF BoxOK
  <2>4. inbox' \in [Nodes -> Seq(Frame)]
    BY <1>1, <1>3, <2>3 DEF BusTypeOK
  <2> QED BY <1>1, <1>3, <1>4, <2>2, <2>3, <2>4 DEF BusTypeOK
<1>10. ASSUME NEW m \in Nodes, NEW i \in Initiators
       PROVE  InTurn(inbox[m], i, nextSeq[i], responder[m].run, log[m])'
  <2>1. InTurn(inbox[m], i, nextSeq[i], responder[m].run, log[m])
    BY <1>1 DEF NumbersInTurn
  <2>2. CASE m # n
    BY <1>3, <1>5, <2>1, <2>2
  <2>3. CASE m = n
    <3> DEFINE own == Marks(f, Numbered, {i}) /\ r.run = i
               h   == FALSE
    <3>1. /\ own => InTurn(Tail(inbox[n]), i, nextSeq[i], r.run,
                           Append(l, [seq |-> f.seq, heard |-> h]))
          /\ ~own => InTurn(Tail(inbox[n]), i, nextSeq[i], r.run, l)
          /\ \A other : other # i => InTurn(Tail(inbox[n]), i, nextSeq[i], other, l)
      <4>1. h \in BOOLEAN
        OBVIOUS
      <4> HIDE DEF h
      <4> QED BY <1>2, <2>1, <2>3, <4>1, TurnTaken DEF f, l
    <3>2. own <=> IsOfRun(n, f) /\ r.run = i
      BY <1>8 DEF Marks
    <3> HIDE DEF own
    <3>3. InTurn(Tail(inbox[n]), i, nextSeq[i], r.run, log'[n])
      <4>1. CASE own
        <5>1. log'[n] = Append(l, [seq |-> f.seq, heard |-> h])
          BY <1>6, <3>2, <4>1
        <5> QED BY <3>1, <4>1, <5>1
      <4>2. CASE ~own /\ ~IsOfRun(n, f)
        BY <1>6, <3>1, <4>2
      <4>3. CASE ~own /\ IsOfRun(n, f)
        <5>1. r.run # i
          BY <3>2, <4>3
        <5> QED BY <3>1, <5>1 DEF InTurn
      <4> QED BY <4>1, <4>2, <4>3
    <3> QED BY <1>3, <1>6, <2>3, <3>3
  <2> QED BY <2>2, <2>3
<1>11. ASSUME NEW m \in Nodes PROVE Paid(inbox[m], responder[m].tx_count, sends)'
  <2>1. /\ BoxOK(inbox[m]) /\ Paid(inbox[m], responder[m].tx_count, sends)
        /\ responder[m].tx_count \in Nat /\ sends \in Nat
    BY <1>1 DEF BusTypeOK, AnswersPaid, ResponderState
  <2>2. CASE m # n
    BY <1>3, <1>5, <2>1, <2>2
  <2>3. CASE m = n
    <3>1. r.tx_count <= r.tx_count + (IF Head(inbox[n]).type \in Replies THEN 0 ELSE 4)
      BY <2>1, <2>3
    <3>2. Paid(Tail(inbox[n]), r.tx_count, sends)
      BY <1>2, <2>1, <2>3, <3>1, PaidTaken
    <3> QED BY <1>3, <1>6, <2>3, <3>2
  <2> QED BY <2>2, <2>3
<1>12. ASSUME NEW m \in Nodes
       PROVE  LogTrue(log[m], responder[m].sequence, swept[m], missed)'
  <2>1. /\ LogTrue(log[m], responder[m].sequence, swept[m], missed)
        /\ log[m] \in Seq(LogEntry) /\ responder[m].sequence \in Tracker /\ swept[m] \in Nat
    BY <1>1 DEF LogsTrue, BusTypeOK, ResponderState
  <2>2. CASE m = n /\ IsOfRun(n, f)
    <3>1. LogTrue(Append(l, [seq |-> f.seq, heard |-> FALSE]), r.sequence, swept[n], missed + 1)
      BY <1>4, <1>7, <2>1, <2>2, LogMisses DEF l
    <3> QED BY <1>3, <1>6, <2>2, <3>1
  <2>3. CASE ~(m = n /\ IsOfRun(n, f))
    <3>1. log'[m] = log[m]
      BY <1>5, <1>6, <2>3 DEF l
    <3>2. LogTrue(log[m], responder[m].sequence, swept[m], missed + 1)
      BY <1>4, <2>1, LogPatience
    <3> QED BY <1>3, <3>1, <3>2
  <2> QED BY <2>2, <2>3
<1> QED BY <1>9, <1>10, <1>11, <1>12 DEF TInv, NumbersInTurn, AnswersPaid, LogsTrue

LEMMA TInvStep == TInv /\ [BusNext]_busVars => TInv'
<1> SUFFICES ASSUME TInv, [BusNext]_busVars PROVE TInv'
  OBVIOUS
<1>1. ASSUME NEW i \in Initiators, NEW type \in Sends, Send(i, type) PROVE TInv'
  BY <1>1, TInvSend
<1>2. ASSUME NEW n \in Nodes, Handle(n) PROVE TInv'
  BY <1>2, TInvHandle
<1>3. ASSUME NEW n \in Nodes, Miss(n) PROVE TInv'
  BY <1>3, TInvMiss
<1>4. CASE UNCHANGED busVars
  BY <1>4 DEF TInv, NumbersInTurn, AnswersPaid, LogsTrue, BusTypeOK, busVars
<1> QED BY <1>1, <1>2, <1>3, <1>4 DEF BusNext

LEMMA TInvHolds == BusSpec => []TInv
<1>1. BusInit => TInv
  BY TInvStarts
<1>2. TInv /\ [BusNext]_busVars => TInv'
  BY TInvStep
<1> QED BY <1>1, <1>2, PTL DEF BusSpec

-----------------------------------------------------------------------------
(* What the runs check.                                                    *)

\* The drops a responder reports are the frames of its own run it missed
\* between two it heard, whatever other runs, replies and control frames are
\* on the bus, and its counters count what it heard.
THEOREM CountersAreTrue == BusSpec => []CountersTrue
<1>1. TInv => CountersTrue
  <2> SUFFICES ASSUME TInv, NEW n \in Nodes
               PROVE  LET s == responder[n].sequence IN
                      /\ Len(log[n]) <= Space => s.duplicates = 0
                      /\ s.out_of_order = 0
                      /\ Heard(n) = {} => s.drops = 0
                      /\ Heard(n) # {} =>
                           s.drops = Cardinality({k \in 1 .. Len(log[n]) :
                                                    /\ ~log[n][k].heard
                                                    /\ \E a \in Heard(n) : a < k
                                                    /\ \E b \in Heard(n) : k < b})
                      /\ s.rx_count = Cardinality(Heard(n)) + swept[n]
    BY Zenon DEF CountersTrue
  <2>1. log[n] \in Seq(LogEntry) /\ LogTrue(log[n], responder[n].sequence, swept[n], missed)
    BY DEF TInv, BusTypeOK, LogsTrue
  <2>2. Heard(n) = HeardIn(log[n])
    BY DEF Heard, HeardIn
  <2>3. Heard(n) # {} =>
          responder[n].sequence.drops =
            Cardinality({k \in 1 .. Len(log[n]) : /\ ~log[n][k].heard
                                                  /\ \E a \in Heard(n) : a < k
                                                  /\ \E b \in Heard(n) : k < b})
    BY <2>1, <2>2, LogCounts
  <2>4. /\ Len(log[n]) <= Space => responder[n].sequence.duplicates = 0
        /\ responder[n].sequence.out_of_order = 0
        /\ Heard(n) = {} => responder[n].sequence.drops = 0
        /\ responder[n].sequence.rx_count = Cardinality(Heard(n)) + swept[n]
    BY <2>1, <2>2, Zenon DEF LogTrue
  <2> QED BY <2>3, <2>4
<1> QED BY <1>1, TInvHolds, PTL

\* However many nodes share the bus and hear their own frames, a node sends at
\* most four frames for each an initiator sent, and every frame fits the wire.
THEOREM AnswersFit == BusSpec => []RepliesFit
<1>1. TInv => RepliesFit
  <2> SUFFICES ASSUME TInv, NEW n \in Nodes
               PROVE  /\ responder[n].tx_count <= 4 * sends
                      /\ \A k \in 1 .. Len(inbox[n]) : IsFrame(inbox[n][k])
    BY DEF RepliesFit
  <2>1. /\ BoxOK(inbox[n]) /\ responder[n].tx_count \in Nat /\ sends \in Nat
        /\ Paid(inbox[n], responder[n].tx_count, sends)
    BY DEF TInv, BusTypeOK, AnswersPaid, ResponderState
  <2>2. responder[n].tx_count <= 4 * sends
    BY <2>1, PaidBound
  <2>3. ASSUME NEW k \in 1 .. Len(inbox[n]) PROVE IsFrame(inbox[n][k])
    <3>1. Sound(inbox[n][k])
      BY <2>1 DEF BoxOK
    <3> QED BY <3>1 DEF Sound, Frame, IsFrame
  <2> QED BY <2>2, <2>3
<1> QED BY <1>1, TInvHolds, PTL

-----------------------------------------------------------------------------
(* The percentiles of a recording, of any length and with any ties.        *)

\* The samples that come before one.
Before(recorded, i) == {j \in 1 .. Len(recorded) : ComesBefore(recorded, j, i)}

LEMMA BeforeFacts ==
  ASSUME NEW recorded \in Seq(Nat), NEW i \in 1 .. Len(recorded)
  PROVE  /\ Before(recorded, i) \subseteq 1 .. Len(recorded)
         /\ IsFiniteSet(Before(recorded, i)) /\ Cardinality(Before(recorded, i)) \in Nat
         /\ i \notin Before(recorded, i)
         /\ Cardinality(Before(recorded, i) \cup {i}) = Cardinality(Before(recorded, i)) + 1
         /\ SortedPlace(recorded, i) = 1 + Cardinality(Before(recorded, i))
         /\ SortedPlace(recorded, i) \in 1 .. Len(recorded)
<1>1. PICK n \in Nat : n = Len(recorded)
  BY LenProperties
<1>2. IsFiniteSet(1 .. n) /\ Cardinality(1 .. n) = n
  BY FS_Interval
<1>3. Before(recorded, i) \subseteq 1 .. n
  BY <1>1 DEF Before
<1>4. IsFiniteSet(Before(recorded, i)) /\ Cardinality(Before(recorded, i)) \in Nat
  BY <1>2, <1>3, FS_Subset, FS_CardinalityType
<1>5. i \notin Before(recorded, i)
  <2>1. recorded[i] \in Nat
    BY ElementOfSeq
  <2> QED BY <2>1 DEF Before, ComesBefore
<1>6. Cardinality(Before(recorded, i) \cup {i}) = Cardinality(Before(recorded, i)) + 1
  BY <1>4, <1>5, FS_AddElement
<1>7. Before(recorded, i) \cup {i} \subseteq 1 .. n
  BY <1>1, <1>3
<1>8. Cardinality(Before(recorded, i) \cup {i}) <= n
  BY <1>2, <1>7, FS_Subset
<1>9. SortedPlace(recorded, i) = 1 + Cardinality(Before(recorded, i))
  BY DEF SortedPlace, Before
<1>10. SortedPlace(recorded, i) \in 1 .. n
  BY <1>4, <1>6, <1>8, <1>9
<1> QED BY <1>1, <1>3, <1>4, <1>5, <1>6, <1>9, <1>10

LEMMA OrderCarries ==
  \A a, b, c, i, j, k \in Nat :
    (a < b \/ (a = b /\ k > j)) /\ (b < c \/ (b = c /\ j > i)) => a < c \/ (a = c /\ k > i)
OBVIOUS

\* A sample that comes before another has an earlier place.
LEMMA EarlierPlace ==
  ASSUME NEW recorded \in Seq(Nat), NEW i \in 1 .. Len(recorded), NEW j \in 1 .. Len(recorded),
         ComesBefore(recorded, j, i)
  PROVE  SortedPlace(recorded, j) < SortedPlace(recorded, i)
<1>1. Before(recorded, j) \cup {j} \subseteq Before(recorded, i)
  <2> SUFFICES ASSUME NEW k \in Before(recorded, j) \cup {j} PROVE k \in Before(recorded, i)
    OBVIOUS
  <2>1. k \in 1 .. Len(recorded) /\ (k = j \/ ComesBefore(recorded, k, j))
    BY DEF Before
  <2>2. recorded[i] \in Nat /\ recorded[j] \in Nat /\ recorded[k] \in Nat
    BY <2>1, ElementOfSeq
  <2>3. i \in Nat /\ j \in Nat /\ k \in Nat
    BY <2>1, LenProperties
  <2>4. ComesBefore(recorded, k, i)
    <3>1. ComesBefore(recorded, j, i)
      OBVIOUS
    <3>2. CASE k = j
      BY <3>1, <3>2, Zenon
    <3>3. CASE ComesBefore(recorded, k, j)
      <4> PICK a \in Nat, b \in Nat, c \in Nat :
            a = recorded[k] /\ b = recorded[j] /\ c = recorded[i]
        BY <2>2
      <4>1. a < b \/ (a = b /\ k > j)
        BY <3>3 DEF ComesBefore
      <4>2. b < c \/ (b = c /\ j > i)
        BY <3>1 DEF ComesBefore
      <4>3. a < c \/ (a = c /\ k > i)
        BY <2>3, <4>1, <4>2, OrderCarries
      <4> QED BY <4>3 DEF ComesBefore
    <3> QED BY <2>1, <3>2, <3>3, Zenon
  <2> QED BY <2>1, <2>4 DEF Before
<1>2. Cardinality(Before(recorded, j) \cup {j}) <= Cardinality(Before(recorded, i))
  BY <1>1, BeforeFacts, FS_Subset
<1>3. /\ Cardinality(Before(recorded, j)) \in Nat /\ Cardinality(Before(recorded, i)) \in Nat
      /\ Cardinality(Before(recorded, j) \cup {j}) = Cardinality(Before(recorded, j)) + 1
      /\ SortedPlace(recorded, i) = 1 + Cardinality(Before(recorded, i))
      /\ SortedPlace(recorded, j) = 1 + Cardinality(Before(recorded, j))
  BY BeforeFacts
<1> QED BY <1>2, <1>3

\* Every place is taken: the samples are a permutation of the sorted ones.
LEMMA EveryPlaceTaken ==
  ASSUME NEW recorded \in Seq(Nat), NEW k \in 1 .. Len(recorded)
  PROVE  \E i \in 1 .. Len(recorded) : SortedPlace(recorded, i) = k
<1> DEFINE D == 1 .. Len(recorded)
           f == [i \in D |-> SortedPlace(recorded, i)]
<1>1. IsFiniteSet(D)
  BY LenProperties, FS_Interval
<1>2. f \in [D -> D]
  BY BeforeFacts
<1>3. ASSUME NEW i \in D, NEW j \in D, f[i] = f[j] PROVE i = j
  <2>1. recorded[i] \in Nat /\ recorded[j] \in Nat /\ i \in Nat /\ j \in Nat
    BY ElementOfSeq, LenProperties
  <2>2. i # j => ComesBefore(recorded, i, j) \/ ComesBefore(recorded, j, i)
    BY <2>1 DEF ComesBefore
  <2>3. SortedPlace(recorded, i) = SortedPlace(recorded, j)
    BY <1>3
  <2>4. SortedPlace(recorded, i) \in Nat /\ SortedPlace(recorded, j) \in Nat
    <3>1. SortedPlace(recorded, i) \in 1 .. Len(recorded) /\ SortedPlace(recorded, j) \in 1 .. Len(recorded)
      BY BeforeFacts, Zenon
    <3> QED BY <3>1, LenProperties
  <2> QED BY <2>2, <2>3, <2>4, EarlierPlace
<1> HIDE DEF f
<1>4. f \in Injection(D, D)
  BY <1>2, <1>3 DEF Injection, IsInjective
<1>5. f \in Surjection(D, D)
  BY <1>1, <1>4, FS_Injection
<1>6. PICK i \in D : f[i] = k
  BY <1>5 DEF Surjection
<1> QED BY <1>6 DEF f

\* Multiplying out the rank of a percentage.
LEMMA RankIsNearest ==
  ASSUME NEW n \in Nat \ {0}, NEW p \in 1 .. 100
  PROVE  /\ Rank(n, p) \in 1 .. n
         /\ 100 * Rank(n, p) >= p * n /\ 100 * (Rank(n, p) - 1) < p * n
<1>1. PICK x \in Nat : x = n * p
  OBVIOUS
<1>2. x >= 1 /\ x <= 100 * n
  <2>1. n * p >= 1 /\ n * p <= n * 100
    OBVIOUS
  <2> QED BY <1>1, <2>1
<1>3. PICK up \in Nat : up = (x + 99) \div 100
  OBVIOUS
<1>4. 100 * up >= x /\ 100 * (up - 1) < x
  BY <1>3
<1>5. up >= 1 /\ up <= n
  BY <1>2, <1>4
<1>6. Rank(n, p) = up
  BY <1>1, <1>3, <1>5 DEF Rank
<1>7. p * n = x
  BY <1>1
<1> QED BY <1>4, <1>5, <1>6, <1>7

\* The p-th percentile stats reports of any recording is a sample of it that
\* at least p percent of the samples do not exceed and fewer are below.
THEOREM PercentilesAreNearest ==
  ASSUME NEW recorded \in Seq(Nat), recorded # <<>>, NEW p \in Percents
  PROVE  LET t == Stats(recorded).percent[p]
             n == Len(recorded)
         IN  /\ \E i \in 1 .. n : t = recorded[i]
             /\ 100 * Cardinality({i \in 1 .. n : recorded[i] <= t}) >= p * n
             /\ 100 * Cardinality({i \in 1 .. n : recorded[i] < t}) < p * n
<1>1. PICK n \in Nat \ {0} : n = Len(recorded)
  BY EmptySeq, LenProperties
<1>2. p \in 1 .. 100
  BY DEF Percents
<1>3. PICK r \in 1 .. n : /\ r = Rank(n, p)
                          /\ 100 * r >= p * n /\ 100 * (r - 1) < p * n
  BY <1>2, RankIsNearest
<1>4. PICK c \in 1 .. n : /\ c = CHOOSE i \in 1 .. n : SortedPlace(recorded, i) = r
                          /\ SortedPlace(recorded, c) = r
  BY <1>1, EveryPlaceTaken
<1>5. PICK t \in Nat : t = recorded[c]
  BY <1>1, ElementOfSeq
<1>6. Stats(recorded).percent[p] = t
  <2>1. Sorted(recorded)[r] = recorded[CHOOSE i \in 1 .. n : SortedPlace(recorded, i) = r]
    BY <1>1 DEF Sorted
  <2>2. Stats(recorded).percent[p] = Sorted(recorded)[Rank(n, p)]
    BY <1>1 DEF Stats
  <2> QED BY <1>3, <1>4, <1>5, <2>1, <2>2
<1>7. /\ Cardinality(Before(recorded, c)) = r - 1
      /\ Cardinality(Before(recorded, c) \cup {c}) = r
      /\ IsFiniteSet(Before(recorded, c))
  <2>1. /\ SortedPlace(recorded, c) = 1 + Cardinality(Before(recorded, c))
        /\ Cardinality(Before(recorded, c)) \in Nat
        /\ Cardinality(Before(recorded, c) \cup {c}) = Cardinality(Before(recorded, c)) + 1
        /\ IsFiniteSet(Before(recorded, c))
    BY <1>1, BeforeFacts
  <2> QED BY <1>4, <2>1
<1> DEFINE Most == {i \in 1 .. n : recorded[i] <= t}
           Less == {i \in 1 .. n : recorded[i] < t}
<1>8. IsFiniteSet(1 .. n)
  BY FS_Interval
<1>9. Cardinality(Most) \in Nat /\ Cardinality(Most) >= r
  <2>1. IsFiniteSet(Most) /\ Cardinality(Most) \in Nat
    BY <1>8, FS_Subset, FS_CardinalityType
  <2>2. Before(recorded, c) \cup {c} \subseteq Most
    <3> SUFFICES ASSUME NEW k \in Before(recorded, c) \cup {c} PROVE k \in Most
      OBVIOUS
    <3>1. k \in 1 .. n /\ (k = c \/ ComesBefore(recorded, k, c))
      BY <1>1 DEF Before
    <3>2. recorded[k] \in Nat
      BY <1>1, <3>1, ElementOfSeq
    <3> QED BY <1>5, <3>1, <3>2 DEF ComesBefore
  <2> QED BY <1>7, <2>1, <2>2, FS_Subset
<1>10. Cardinality(Less) \in Nat /\ Cardinality(Less) <= r - 1
  <2>1. Less \subseteq Before(recorded, c)
    BY <1>1, <1>5 DEF Before, ComesBefore
  <2> QED BY <1>7, <2>1, FS_Subset, FS_CardinalityType
<1>11. 100 * Cardinality(Most) >= p * n /\ 100 * Cardinality(Less) < p * n
  <2> PICK most \in Nat : most = Cardinality(Most)
    BY <1>9
  <2> PICK less \in Nat : less = Cardinality(Less)
    BY <1>10
  <2> PICK x \in Nat : x = p * n
    BY <1>2
  <2> HIDE DEF Most, Less
  <2>1. 100 * r >= x /\ 100 * (r - 1) < x
    BY <1>3, Zenon
  <2>2. most >= r /\ less <= r - 1
    BY <1>9, <1>10, Zenon
  <2>3. 100 * most >= x /\ 100 * less < x
    BY <2>1, <2>2
  <2> QED BY <2>3
<1> QED BY <1>1, <1>5, <1>6, <1>11, Zenon

\* Whatever is recorded, the percentiles of the run are nearest ranks.
THEOREM PercentilesHold == LatencySpec => []NearestRank
<1> DEFINE TypeOK == samples \in Seq(Nat)
<1>1. LatencyInit => TypeOK
  BY DEF LatencyInit
<1>2. TypeOK /\ [LatencyNext]_samples => TypeOK'
  <2> SUFFICES ASSUME TypeOK, [LatencyNext]_samples PROVE TypeOK'
    OBVIOUS
  <2>1. CASE LatencyNext
    BY <2>1, LatencyBounds, AppendProperties DEF LatencyNext, record
  <2>2. CASE UNCHANGED samples
    BY <2>2
  <2> QED BY <2>1, <2>2
<1>3. TypeOK => NearestRank
  <2> SUFFICES ASSUME TypeOK, samples # <<>>, NEW p \in Percents
               PROVE  LET t == Stats(samples).percent[p] IN
                      /\ t \in ToSet(samples)
                      /\ 100 * AtMost(t) >= p * Len(samples)
                      /\ 100 * Below(t) < p * Len(samples)
    BY Zenon DEF NearestRank
  <2> PICK t : t = Stats(samples).percent[p]
    OBVIOUS
  <2>1. /\ \E i \in 1 .. Len(samples) : t = samples[i]
        /\ 100 * Cardinality({i \in 1 .. Len(samples) : samples[i] <= t}) >= p * Len(samples)
        /\ 100 * Cardinality({i \in 1 .. Len(samples) : samples[i] < t}) < p * Len(samples)
    BY PercentilesAreNearest, Zenon
  <2>2. t \in ToSet(samples)
    BY <2>1, LenProperties DEF ToSet
  <2> QED BY <2>1, <2>2, Zenon DEF AtMost, Below
<1> HIDE DEF TypeOK
<1> QED BY <1>1, <1>2, <1>3, PTL DEF LatencySpec
=============================================================================
