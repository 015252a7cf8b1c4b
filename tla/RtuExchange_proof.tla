-------------------------- MODULE RtuExchange_proof --------------------------
(***************************************************************************)
(* Proofs about a listener to a master and a device, for every set of      *)
(* transactions, every way of cutting messages into frames and everything  *)
(* that may be missed: a message is told from the side that sent it, and a *)
(* response is paired with the request it answers.                         *)
(***************************************************************************)
EXTENDS RtuExchange, ModbusRtuStream_proof

-----------------------------------------------------------------------------
(* What is true of every state.                                            *)

\* Message i of what came out is the message it is taken for.
Recognised(i) ==
  /\ truth[i] \in Facts
  /\ out[i].raw = BytesOf(truth[i])
  /\ out[i].function = out[i].raw[2]
  /\ out[i].function \notin WriteSingle => out[i].direction = ReportedSide(truth[i])
  /\ truth[i].side = "Request" =>
       out[i].start = AskedStart(truth[i].of) /\ out[i].quantity = AskedQuantity(truth[i].of)

Told ==
  /\ Len(truth) = Len(out)
  /\ \A i \in 1 .. Len(out) : truth[i] = Accident \/ Recognised(i)

\* Message j left the outstanding request behind, and only the answers that do
\* not use it up came after.
Asker(j) ==
  /\ out[j].direction = "Request" /\ out[j].function = lastReq.function
  /\ \A k \in j + 1 .. Len(out) : out[k].direction = "Response" /\ out[k].function \in WriteMany

Remembered ==
  /\ Len(out) > 0 /\ out[Len(out)].direction = "Request" =>
       /\ lastReq = [function |-> out[Len(out)].function, start |-> out[Len(out)].start,
                     quantity |-> out[Len(out)].quantity]
       /\ lastReq # None
  /\ lastReq # None => \E j \in 1 .. Len(out) : Asker(j)

\* A message whose side is mistaken is a write of one register, and if it was a
\* request then another message of its function was the last thing asked.
SideClear(i) ==
  truth[i] # Accident /\ out[i].direction # ReportedSide(truth[i]) =>
    /\ out[i].function \in WriteSingle
    /\ truth[i].side = "Request" =>
         \E j \in 1 .. i - 1 :
           /\ out[j].function = out[i].function
           /\ \A k \in j + 1 .. i - 1 : truth[k].side # "Request"

PairedAt(i) ==
  Answers(i) /\ truth[i].of.request[2] \notin WriteSingle /\ ~Collides(out[i].raw)
    => ResponsePaired(i)

Reported ==
  /\ truth \in Seq(Facts \cup {Accident})
  /\ Told /\ Remembered
  /\ \A i \in 1 .. Len(out) : SideClear(i)
  /\ \A i \in 2 .. Len(out) : PairedAt(i)

\* What is on the wire, and what was.
OnTheWire ==
  /\ asked \in Transactions \cup {None}
  /\ coming \in Facts \cup {None}
  /\ coming # None => gone \in 0 .. Len(BytesOf(coming)) - 1
  /\ coming = None => gone = 0
  /\ pushed \in Nat
  /\ \A n \in DOMAIN ends : ends[n] \in Facts
  /\ missed \in Nat

\* A listener that missed nothing is where the exchange is: what is outstanding
\* is what was asked, ...
Idle == lastReq = None \/ lastReq.function \notin WriteSingle
Expecting(t) == lastReq # None /\ lastReq.function = t.request[2]
Due(fact) == IF fact.side = "Request" THEN Idle ELSE Expecting(fact.of)
Left(fact) == IF fact.side = "Request" THEN Expecting(fact.of) ELSE Idle

HeardAt(i) == out[i].direction = ReportedSide(truth[i]) /\ out[i].frame_count = truth[i].frames

\* ... its buffer holds the frames so far of the message on the wire, or the
\* whole of the one that has just gone by, and nothing else.
Arriving ==
  /\ buf = Prefix(BytesOf(coming), gone)
  /\ pending = coming.frames
  /\ Due(coming)
  /\ asked = IF coming.side = "Request" THEN coming.of ELSE None

Nothing ==
  /\ buf = <<>> /\ pending = 0
  /\ IF asked = None THEN Idle ELSE Expecting(asked)

Complete ==
  /\ call = "push" /\ pushed \in DOMAIN ends
  /\ buf = BytesOf(ends[pushed])
  /\ pending = ends[pushed].frames /\ pending > 0
  /\ Due(ends[pushed])
  /\ asked = IF ends[pushed].side = "Request" THEN ends[pushed].of ELSE None

Following ==
  /\ call \in {"none", "push"}
  /\ IF coming # None THEN Arriving ELSE Nothing \/ Complete

AllHeard == Following /\ \A i \in 1 .. Len(out) : HeardAt(i)

XInv == IInv /\ Reported /\ OnTheWire /\ (missed = 0 => AllHeard)
-----------------------------------------------------------------------------
(* Byte strings cut at their ends.                                         *)

LEMMA CutAtEnds ==
  ASSUME NEW b \in Seq(Byte)
  PROVE  /\ Prefix(b, 0) = <<>> /\ Prefix(b, Len(b)) = b
         /\ Drop(b, Len(b)) = <<>> /\ Drop(b, 0) = b
<1> PICK n \in Nat : n = Len(b)
  BY LenProperties
<1>1. n \in 0 .. Len(b) /\ 0 \in 0 .. Len(b) /\ n - n = 0 /\ n - 0 = n
  OBVIOUS
<1>2. Prefix(b, 0) = <<>>
  <2>1. Prefix(b, 0) \in Seq(Byte) /\ Len(Prefix(b, 0)) = 0
    BY <1>1, Cutting
  <2> QED
    BY <2>1, EmptySeq
<1>3. Drop(b, n) = <<>>
  <2>1. Drop(b, n) \in Seq(Byte) /\ Len(Drop(b, n)) = 0
    BY <1>1, Cutting
  <2> QED
    BY <2>1, EmptySeq
<1>4. Prefix(b, n) = b
  <2>1. /\ Prefix(b, n) \in Seq(Byte) /\ Len(Prefix(b, n)) = n
        /\ \A i \in 1 .. n : Prefix(b, n)[i] = b[i]
    BY <1>1, Cutting
  <2> QED
    BY <2>1, SeqEqual
<1>5. Drop(b, 0) = Prefix(b, n)
  BY DEF Drop, Prefix
<1> QED
  BY <1>2, <1>3, <1>4, <1>5

\* What stands before a place and what stands after it, put together.
LEMMA Rejoin ==
  ASSUME NEW b \in Seq(Byte), NEW g \in Nat, NEW n \in Nat, g <= n, n <= Len(b)
  PROVE  Prefix(b, g) \o SubSeq(b, g + 1, n) = Prefix(b, n)
<1> DEFINE a == Prefix(b, g)
           chunk == SubSeq(b, g + 1, n)
           d == n - g
<1>0. Len(b) \in Nat
  BY LenProperties
<1>1. g \in 0 .. Len(b) /\ n \in 0 .. Len(b) /\ d \in Nat /\ g + d = n
  BY <1>0
<1>2. a \in Seq(Byte) /\ Len(a) = g /\ \A i \in 1 .. g : a[i] = b[i]
  BY <1>1, Cutting
<1>3. chunk \in Seq(Byte) /\ Len(chunk) = d /\ \A i \in 1 .. d : chunk[i] = b[g + i]
  BY Stretches
<1>4. /\ Prefix(b, n) \in Seq(Byte) /\ Len(Prefix(b, n)) = n
      /\ \A i \in 1 .. n : Prefix(b, n)[i] = b[i]
  BY <1>1, Cutting
<1> HIDE DEF a, chunk, d
<1>5. /\ a \o chunk \in Seq(Byte) /\ Len(a \o chunk) = Len(a) + Len(chunk)
      /\ \A i \in 1 .. Len(a) + Len(chunk) :
           (a \o chunk)[i] = IF i <= Len(a) THEN a[i] ELSE chunk[i - Len(a)]
  BY <1>2, <1>3, ConcatProperties
<1>6. Len(a \o chunk) = n
  BY <1>1, <1>2, <1>3, <1>5
<1>7. ASSUME NEW i \in 1 .. n PROVE (a \o chunk)[i] = b[i]
  <2>1. (a \o chunk)[i] = IF i <= g THEN a[i] ELSE chunk[i - g]
    BY <1>1, <1>2, <1>3, <1>5
  <2>2. CASE i <= g
    <3>1. i \in 1 .. g
      BY <2>2
    <3> QED
      BY <1>2, <2>1, <2>2, <3>1
  <2>3. CASE ~(i <= g)
    <3>1. PICK j \in 1 .. d : j = i - g /\ g + j = i
      BY <1>1, <2>3
    <3> QED
      BY <1>3, <2>1, <2>3, <3>1
  <2> QED
    BY <2>2, <2>3
<1>8. a \o chunk = Prefix(b, n)
  BY <1>4, <1>5, <1>6, <1>7, SeqEqual
<1> QED
  BY <1>8 DEF a, chunk

-----------------------------------------------------------------------------
(* Messages of the exchange.                                               *)

\* The bytes of a message, of either side.
LEMMA MessageBytes ==
  ASSUME NEW x \in Facts
  PROVE  LET raw == BytesOf(x) IN
         /\ Transaction(x.of) /\ x.side \in Sides /\ x.frames \in Nat
         /\ x.of \in Transactions
         /\ x # None /\ x # Accident /\ x.of # None
         /\ raw \in Seq(Byte) /\ Len(raw) \in Nat /\ Len(raw) >= 4 /\ Len(raw) < 5 + MAX_DATA_BYTES + 1
         /\ Sound(raw)
<1> DEFINE raw == BytesOf(x)
<1>1. /\ x.side \in Sides /\ x.of \in Transactions /\ x.frames \in Nat
  BY DEF Facts
<1>2. Transaction(x.of) /\ x # None /\ x.of # None
  BY <1>1, ExchangeAssumption
<1>3. x # Accident
  <2>1. Accident.of = None
    BY DEF Accident
  <2> QED
    BY <1>2, <2>1
<1>4. Sound(raw)
  BY <1>2 DEF Transaction, BytesOf
<1> HIDE DEF raw
<1>5. raw \in Seq(Byte) /\ Len(raw) >= 4 /\ Len(raw) \in Nat
  BY <1>4, StreamAssumption, LenProperties DEF Sound
<1>6. PICK c \in Candidates(raw) : Plausible(raw, c) /\ c.len = Len(raw)
  BY <1>4 DEF Sound
<1>7. c.len <= 5 + MAX_DATA_BYTES
  BY <1>5, <1>6, PlausibleIsShort, Zenon
<1>8. Len(raw) < 5 + MAX_DATA_BYTES + 1
  BY <1>5, <1>6, <1>7 DEF MAX_DATA_BYTES
<1> QED
  BY <1>1, <1>2, <1>3, <1>4, <1>5, <1>8, Zenon DEF raw

\* The functions of requests and answers.
LEMMA MessageFunctions ==
  ASSUME NEW x \in Facts
  PROVE  LET raw == BytesOf(x)
             f   == x.of.request[2]
         IN  /\ f \in Byte /\ raw[2] \in Byte
             /\ x.side = "Request" => raw = x.of.request
             /\ x.side = "Response" => raw = x.of.response /\ raw[2] \in {f, f + 128}
             /\ x.side = "Response" /\ raw[2] \in WriteSingle \cup WriteMany => raw[2] = f
             /\ x.side = "Response" /\ raw[2] \in WriteSingle => f \in WriteSingle
<1> DEFINE raw == BytesOf(x)
           q == Fact(x.of, "Request", 0)
           f == x.of.request[2]
<1>1. Transaction(x.of) /\ x.side \in Sides /\ x.of \in Transactions
  BY MessageBytes
<1>2. q \in Facts /\ BytesOf(q) = x.of.request
  BY <1>1 DEF Fact, Facts, Sides, BytesOf
<1>3. /\ x.of.request \in Seq(Byte) /\ Len(x.of.request) >= 4 /\ Len(x.of.request) \in Nat
      /\ raw \in Seq(Byte) /\ Len(raw) >= 4 /\ Len(raw) \in Nat
  <2>1. raw \in Seq(Byte) /\ Len(raw) >= 4 /\ Len(raw) \in Nat
    BY MessageBytes
  <2> HIDE DEF q
  <2>2. BytesOf(q) \in Seq(Byte) /\ Len(BytesOf(q)) >= 4 /\ Len(BytesOf(q)) \in Nat
    BY <1>2, MessageBytes
  <2> QED
    BY <1>2, <2>1, <2>2
<1>4. f \in Byte /\ raw[2] \in Byte
  <2>1. 2 \in 1 .. Len(raw) /\ 2 \in 1 .. Len(x.of.request)
    BY <1>3
  <2> QED
    BY <1>3, <2>1, ElementOfSeq, Zenon
<1>5. /\ x.side = "Request" => raw = x.of.request
      /\ x.side = "Response" => raw = x.of.response
  BY DEF BytesOf
<1>6. x.side = "Response" => raw[2] \in {f, f + 128}
  BY <1>1, <1>5, Zenon DEF Transaction
<1> HIDE DEF raw, f
<1>7. x.side = "Response" /\ raw[2] \in WriteSingle \cup WriteMany => raw[2] = f
  BY <1>4, <1>6 DEF WriteSingle, WriteMany, Byte
<1>8. x.side = "Response" /\ raw[2] \in WriteSingle => f \in WriteSingle
  BY <1>7
<1> QED
  BY <1>4, <1>5, <1>6, <1>7, <1>8, Zenon DEF raw, f

\* The layout taken for a message is that of the side it is reported from.
LEMMA FirstIsReported ==
  ASSUME NEW x \in Facts,
         NEW c, IsFirst(c, {d \in Candidates(BytesOf(x)) : d.len = Len(BytesOf(x))})
  PROVE  /\ BytesOf(x)[2] \notin WriteSingle => c.direction = ReportedSide(x)
         /\ x.side = "Request" => CarriesAddress(BytesOf(x)[2], c.direction)
<1> DEFINE raw == BytesOf(x)
           f == raw[2]
<1>1. /\ raw \in Seq(Byte) /\ Len(raw) >= 2 /\ Len(raw) \in Nat
      /\ Transaction(x.of) /\ x.side \in Sides
  BY MessageBytes
<1>2. /\ x.side = "Request" => raw = x.of.request
      /\ x.side = "Response" => raw = x.of.response
  BY MessageFunctions, Zenon
<1>3. ReportedSide(x) = IF x.side = "Response" /\ f \in Reads /\ Len(raw) = 8
                        THEN "Request" ELSE x.side
  BY Zenon DEF ReportedSide, Collides
<1>4. f \notin WriteSingle \/ x.side = "Request" => LaidOutAs(raw, x.side)
  BY <1>1, <1>2 DEF Transaction, Sides
<1> HIDE DEF raw
<1>5. /\ c \in Candidates(raw) /\ c.len = Len(raw)
      /\ \A d \in Candidates(raw) : d.len = Len(raw) => c.len > d.len \/ d.counted \/ d = c
  BY DEF IsFirst, raw
<1>6. c.len = Len(raw) /\ \A d \in Candidates(raw) : d.len = Len(raw) => d.counted \/ d = c
  BY <1>1, <1>5
<1>7. \A d \in Candidates(raw) :
        \/ IsException(f) /\ d = Fixed(5, "Response")
        \/ f \in Reads /\ d = Fixed(8, "Request")
        \/ f \in Reads /\ d = Counted(5 + raw[3], "Response")
        \/ f \in WriteSingle /\ d = Fixed(8, "Request")
        \/ f \in WriteMany /\ d = Fixed(8, "Response")
        \/ f \in WriteMany /\ d = Counted(9 + raw[7], "Request") /\ d.len >= 9
  <2> SUFFICES ASSUME NEW d \in Candidates(raw), f \in WriteMany, Len(raw) >= 7,
                      d = Counted(9 + raw[7], "Request")
               PROVE  d.len >= 9
    BY <1>1, CandidateCases, Zenon
  <2>1. 7 \in 1 .. Len(raw)
    BY <1>1
  <2>2. raw[7] \in Byte
    BY <1>1, <2>1, ElementOfSeq, Zenon
  <2> QED
    <3>1. d.len = 9 + raw[7]
      BY DEF Counted
    <3>2. \A n \in Byte : 9 + n >= 9
      BY DEF Byte
    <3> QED
      BY <2>2, <3>1, <3>2
<1>8. /\ f \in Reads => f \notin WriteSingle /\ f \notin WriteMany /\ ~IsException(f)
      /\ f \in WriteSingle => f \notin WriteMany /\ ~IsException(f)
      /\ f \in WriteMany => ~IsException(f)
  BY DEF Reads, WriteSingle, WriteMany, IsException
<1>9. /\ \A n, s : Fixed(n, s).len = n /\ Fixed(n, s).direction = s /\ ~Fixed(n, s).counted
      /\ \A n, s : Counted(n, s).len = n /\ Counted(n, s).direction = s /\ Counted(n, s).counted
  BY DEF Fixed, Counted
<1>10. CASE IsException(f)
  <2>1. c.direction = "Response" /\ f \notin Reads
    BY <1>6, <1>7, <1>8, <1>9, <1>10, <1>5
  <2>2. x.side = "Response"
    <3> SUFFICES ASSUME x.side = "Request" PROVE FALSE
      BY <1>1 DEF Sides
    <3>1. PICK d \in Candidates(raw) : d.direction = "Request"
      BY <1>4, Zenon DEF LaidOutAs
    <3>2. d = Fixed(5, "Response")
      BY <1>7, <1>8, <1>10, Zenon
    <3> QED
      BY <1>9, <3>1, <3>2
  <2> QED
    BY <1>3, <2>1, <2>2 DEF raw
<1>11. CASE f \in Reads
  <2>1. Fixed(8, "Request") \in Candidates(raw)
    <3>1. FixedLayouts(raw) = {Fixed(8, "Request")}
      BY <1>8, <1>11, Zenon DEF FixedLayouts
    <3> QED
      BY <3>1 DEF Candidates
  <2>2. Len(raw) = 8 => c = Fixed(8, "Request")
    BY <1>6, <1>9, <2>1
  <2>3. Len(raw) # 8 => c.direction = "Response"
    <3>1. c = Fixed(8, "Request") \/ c = Counted(5 + raw[3], "Response")
      BY <1>5, <1>7, <1>8, <1>11, Zenon
    <3>2. c = Fixed(8, "Request") => Len(raw) = 8
      BY <1>6 DEF Fixed
    <3>3. c = Counted(5 + raw[3], "Response") => c.direction = "Response"
      BY DEF Counted
    <3> QED
      BY <3>1, <3>2, <3>3
  <2>4. Len(raw) # 8 => x.side = "Response"
    <3> SUFFICES ASSUME Len(raw) # 8, x.side = "Request" PROVE FALSE
      BY <1>1 DEF Sides
    <3>1. PICK d \in Candidates(raw) : d.direction = "Request" /\ d.len = Len(raw)
      BY <1>4, Zenon DEF LaidOutAs
    <3>2. d = Fixed(8, "Request") \/ d = Counted(5 + raw[3], "Response")
      BY <1>7, <1>8, <1>11, Zenon
    <3>3. d = Fixed(8, "Request") => Len(raw) = 8
      BY <3>1 DEF Fixed
    <3>4. d = Counted(5 + raw[3], "Response") => d.direction = "Response"
      BY DEF Counted
    <3> QED
      BY <3>1, <3>2, <3>3, <3>4
  <2>5. c.direction = ReportedSide(x)
    BY <1>1, <1>3, <1>9, <1>11, <2>2, <2>3, <2>4 DEF Sides
  <2>6. x.side = "Request" => c.direction = "Request"
    BY <1>9, <2>2, <2>4
  <2> QED
    BY <1>11, <2>5, <2>6 DEF raw, CarriesAddress
<1>12. CASE f \in WriteSingle
  BY <1>12 DEF raw, CarriesAddress
<1>13. CASE f \in WriteMany
  <2>1. PICK d \in Candidates(raw) : d.len = Len(raw) /\ d.direction = x.side
    BY <1>4, <1>8, <1>13 DEF LaidOutAs
  <2>2. c = d
    BY <1>5, <1>6, <1>7, <1>8, <1>9, <1>13, <2>1
  <2>3. f \notin Reads
    BY <1>8, <1>13
  <2>4. c.direction = ReportedSide(x)
    BY <1>3, <2>1, <2>2, <2>3
  <2> QED
    BY <1>13, <2>4 DEF raw, CarriesAddress
<1> QED
  BY <1>5, <1>7, <1>10, <1>11, <1>12, <1>13

-----------------------------------------------------------------------------
(* A message is told.                                                      *)

\* The fields of what build returns.
LEMMA BuildFields ==
  ASSUME NEW raw, NEW layout, NEW v
  PROVE  LET m == Build(raw, layout, v)
             f == raw[2]
         IN  /\ m.raw = raw /\ m.function = f
             /\ m.frame_count = FramesReported
             /\ m.direction = Resolved(f, layout)
             /\ f \notin WriteSingle => m.direction = layout
             /\ CarriesAddress(f, layout) =>
                  m.start = Be(raw, 3) /\ m.quantity = IF f \in WriteSingle THEN 1 ELSE Be(raw, 5)
             /\ ~CarriesAddress(f, layout) /\ m.direction = "Response" /\ lastReq # None =>
                  m.start = lastReq.start /\ m.quantity = lastReq.quantity
<1> DEFINE m == Build(raw, layout, v)
           f == raw[2]
<1>1. /\ m.raw = raw /\ m.function = f
      /\ m.frame_count = FramesReported
      /\ m.direction = Resolved(f, layout)
  BY DEF Build
<1>2. f \notin WriteSingle => m.direction = layout
  BY <1>1 DEF Resolved
<1>3. CarriesAddress(f, layout) =>
        m.start = Be(raw, 3) /\ m.quantity = IF f \in WriteSingle THEN 1 ELSE Be(raw, 5)
  BY DEF Build
<1>4. ~CarriesAddress(f, layout) /\ m.direction = "Response" /\ lastReq # None =>
        m.start = lastReq.start /\ m.quantity = lastReq.quantity
  BY DEF Build
<1> QED
  BY <1>1, <1>2, <1>3, <1>4, Zenon

\* What is known of a message just told: x is what it really was.
Hears(raw, c, x) ==
  /\ raw \in Seq(Byte) /\ Len(raw) >= 4
  /\ c \in Candidates(raw) /\ c.len = Len(raw)
  /\ \/ x = Accident
     \/ /\ x \in Facts /\ BytesOf(x) = raw
        /\ IsFirst(c, {d \in Candidates(raw) : d.len = Len(raw)})

LEMMA ToldAt ==
  ASSUME NEW raw, NEW c, NEW x \in Facts, Hears(raw, c, x), NEW v
  PROVE  LET m == Build(raw, c.direction, v) IN
         /\ m.raw = BytesOf(x) /\ m.function = m.raw[2]
         /\ m.function \notin WriteSingle => m.direction = ReportedSide(x)
         /\ x.side = "Request" =>
              m.start = AskedStart(x.of) /\ m.quantity = AskedQuantity(x.of)
<1> DEFINE m == Build(raw, c.direction, v)
           f == raw[2]
<1>1. /\ BytesOf(x) = raw
      /\ IsFirst(c, {d \in Candidates(BytesOf(x)) : d.len = Len(BytesOf(x))})
  BY MessageBytes, Zenon DEF Hears
<1>2. /\ f \notin WriteSingle => c.direction = ReportedSide(x)
      /\ x.side = "Request" => CarriesAddress(f, c.direction)
  BY <1>1, FirstIsReported, Zenon
<1>3. /\ m.raw = raw /\ m.function = f
      /\ f \notin WriteSingle => m.direction = c.direction
      /\ CarriesAddress(f, c.direction) =>
           m.start = Be(raw, 3) /\ m.quantity = IF f \in WriteSingle THEN 1 ELSE Be(raw, 5)
  <2> HIDE DEF m
  <2>1. m = Build(raw, c.direction, v)
    BY DEF m
  <2> QED
    BY <2>1, BuildFields
<1>4. x.side = "Request" => raw = x.of.request
  BY <1>1, MessageFunctions, Zenon
<1> HIDE DEF m
<1>5. x.side = "Request" => m.start = AskedStart(x.of) /\ m.quantity = AskedQuantity(x.of)
  BY <1>2, <1>3, <1>4, Zenon DEF AskedStart, AskedQuantity
<1> QED
  BY <1>1, <1>2, <1>3, <1>5, Zenon DEF m

\* What is outstanding after a message was told.
LEMMA RememberedAfter ==
  ASSUME Remembered, out \in Seq(Message), NEW m \in Message, Emit(m),
         m.direction = "Request" => Outstanding(m) # None
  PROVE  Remembered'
<1>1. /\ out' = Append(out, m) /\ lastReq' = Outstanding(m)
  BY DEF Emit
<1>2. /\ Len(out) \in Nat /\ Len(out') = Len(out) + 1 /\ out'[Len(out) + 1] = m
      /\ \A i \in 1 .. Len(out) : out'[i] = out[i]
  BY <1>1, LenProperties, AppendProperties
<1>3. m.direction = "Request" \/ m.direction = "Response"
  BY DEF Message, Direction
<1>4. CASE m.direction = "Request"
  <2>1. lastReq' = [function |-> m.function, start |-> m.start, quantity |-> m.quantity]
    BY <1>1, <1>4, Zenon DEF Outstanding
  <2>0. lastReq' # None
    BY <1>1, <1>4
  <2>2. Len(out') \in 1 .. Len(out') /\ out'[Len(out')] = m
    BY <1>2
  <2>3. lastReq'.function = m.function
    BY <2>1
  <2>4. \A k \in Len(out') + 1 .. Len(out') : FALSE
    BY <1>2
  <2> PICK n \in Nat : n = Len(out')
    BY <1>2
  <2>5. Asker(n)'
    BY <1>4, <2>2, <2>3, <2>4, Zenon DEF Asker
  <2> QED
    BY <2>0, <2>1, <2>2, <2>5, Zenon DEF Remembered
<1>5. CASE m.direction = "Response"
  <2>1. lastReq' = IF m.function \in WriteMany THEN lastReq ELSE None
    BY <1>1, <1>5 DEF Outstanding
  <2>2. out'[Len(out')].direction # "Request"
    BY <1>2, <1>5
  <2>3. lastReq' # None => \E j \in 1 .. Len(out') : Asker(j)'
    <3> SUFFICES ASSUME lastReq' # None PROVE \E j \in 1 .. Len(out') : Asker(j)'
      OBVIOUS
    <3>1. lastReq' = lastReq /\ m.function \in WriteMany
      BY <2>1
    <3>2. PICK j \in 1 .. Len(out) : Asker(j)
      BY <3>1, Zenon DEF Remembered
    <3>3. j \in 1 .. Len(out') /\ out'[j] = out[j]
      BY <1>2
    <3>4. ASSUME NEW k \in j + 1 .. Len(out')
          PROVE  out'[k].direction = "Response" /\ out'[k].function \in WriteMany
      <4>1. CASE k = Len(out) + 1
        BY <1>2, <1>5, <3>1, <4>1
      <4>2. CASE k # Len(out) + 1
        <5>1. k \in 1 .. Len(out) /\ k \in j + 1 .. Len(out)
          BY <1>2, <4>2
        <5> QED
          BY <1>2, <3>2, <5>1 DEF Asker
      <4> QED
        BY <4>1, <4>2
    <3>5. Asker(j)'
      BY <3>1, <3>2, <3>3, <3>4, Zenon DEF Asker
    <3> QED
      BY <3>3, <3>5
  <2> QED
    BY <2>2, <2>3, Zenon DEF Remembered
<1> QED
  BY <1>3, <1>4, <1>5

\* Telling a message keeps what was told true of what was sent.
LEMMA EmitReported ==
  ASSUME TypeOK, Reported, NEW raw, NEW c, NEW x \in Facts \cup {Accident}, Hears(raw, c, x),
         NEW v \in BOOLEAN, Emit(Build(raw, c.direction, v)), truth' = Append(truth, x)
  PROVE  Reported'
<1> DEFINE m == Build(raw, c.direction, v)
           f == raw[2]
<1>1. /\ out \in Seq(Message) /\ truth \in Seq(Facts \cup {Accident}) /\ Len(truth) = Len(out)
      /\ Len(out) \in Nat
      /\ \A i \in 1 .. Len(out) : truth[i] = Accident \/ Recognised(i)
      /\ Remembered
  BY LenProperties DEF TypeOK, Reported, Told
<1> PICK n \in Nat : n = Len(out) + 1
  BY <1>1
<1>2. /\ m \in Message /\ out' = Append(out, m)
      /\ m.direction = "Request" => Outstanding(m) # None
  <2>1. raw \in Seq(Byte) /\ Len(raw) >= 4 /\ c \in Candidates(raw) /\ c.len = Len(raw)
    BY DEF Hears
  <2>2. m \in Message /\ (m.direction = "Request" => Outstanding(m) \in OutstandingRequest)
    BY <2>1, BuildTyped, Zenon
  <2>3. None \notin OutstandingRequest
    BY StreamAssumption DEF OutstandingRequest
  <2> QED
    BY <2>2, <2>3 DEF Emit
<1>3. /\ x # Accident => x \in Facts
      /\ x # Accident =>
           /\ m.raw = BytesOf(x) /\ m.function = m.raw[2]
           /\ m.function \notin WriteSingle => m.direction = ReportedSide(x)
           /\ x.side = "Request" =>
                m.start = AskedStart(x.of) /\ m.quantity = AskedQuantity(x.of)
  <2> HIDE DEF m
  <2>1. m = Build(raw, c.direction, v)
    BY DEF m
  <2>2. x # Accident => x \in Facts
    OBVIOUS
  <2>3. x \in Facts =>
          /\ m.raw = BytesOf(x) /\ m.function = m.raw[2]
          /\ m.function \notin WriteSingle => m.direction = ReportedSide(x)
          /\ x.side = "Request" =>
               m.start = AskedStart(x.of) /\ m.quantity = AskedQuantity(x.of)
    BY <2>1, ToldAt
  <2> QED
    BY <2>2, <2>3
<1>4. /\ m.raw = raw /\ m.function = f /\ m.direction = Resolved(f, c.direction)
      /\ f \notin WriteSingle => m.direction = c.direction
      /\ CarriesAddress(f, c.direction) =>
           m.start = Be(raw, 3) /\ m.quantity = IF f \in WriteSingle THEN 1 ELSE Be(raw, 5)
      /\ ~CarriesAddress(f, c.direction) /\ m.direction = "Response" /\ lastReq # None =>
           m.start = lastReq.start /\ m.quantity = lastReq.quantity
  <2> HIDE DEF m
  <2>1. m = Build(raw, c.direction, v)
    BY DEF m
  <2> QED
    BY <2>1, BuildFields
<1>5. Emit(m)
  OBVIOUS
<1> HIDE DEF m
<1>6. /\ Len(out') = n /\ out'[n] = m /\ \A i \in 1 .. Len(out) : out'[i] = out[i]
      /\ Len(truth') = n /\ truth'[n] = x /\ \A i \in 1 .. Len(out) : truth'[i] = truth[i]
      /\ truth' \in Seq(Facts \cup {Accident})
      /\ n \in Nat /\ n \in 1 .. n
  BY <1>1, <1>2, AppendProperties
<1>7. \A i \in 1 .. n : i \in 1 .. Len(out) \/ i = n
  BY <1>1
<1>8. Told'
  <2>1. ASSUME NEW i \in 1 .. n
        PROVE  (truth[i] = Accident \/ Recognised(i))'
    <3>1. CASE i \in 1 .. Len(out)
      <4>1. truth[i] = Accident \/ Recognised(i)
        BY <1>1, <3>1
      <4>2. truth'[i] = truth[i] /\ out'[i] = out[i]
        BY <1>6, <3>1
      <4> QED
        BY <4>1, <4>2, Zenon DEF Recognised
    <3>2. CASE i = n
      <4>1. truth'[i] = x /\ out'[i] = m
        BY <1>6, <3>2, Zenon
      <4> QED
        BY <1>3, <4>1, Zenon DEF Recognised
    <3> QED
      BY <1>7, <3>1, <3>2
  <2>2. Len(truth') = n /\ Len(out') = n
    BY <1>6
  <2> QED
    BY <2>1, <2>2, Zenon DEF Told
<1>9. Remembered'
  BY <1>1, <1>2, <1>5, RememberedAfter, Zenon
<1>10. SideClear(n)'
  <2> SUFFICES ASSUME x # Accident, m.direction # ReportedSide(x)
               PROVE  /\ m.function \in WriteSingle
                      /\ x.side = "Request" =>
                           \E j \in 1 .. n - 1 :
                             /\ out'[j].function = m.function
                             /\ \A k \in j + 1 .. n - 1 : truth'[k].side # "Request"
    BY <1>6, Zenon DEF SideClear
  <2>1. m.function \in WriteSingle
    BY <1>3
  <2> SUFFICES ASSUME x.side = "Request"
               PROVE  \E j \in 1 .. n - 1 :
                        /\ out'[j].function = m.function
                        /\ \A k \in j + 1 .. n - 1 : truth'[k].side # "Request"
    BY <2>1
  <2>2. ReportedSide(x) = "Request"
    BY DEF ReportedSide
  <2>3. lastReq # None /\ lastReq.function = f
    BY <1>4, <2>1, <2>2 DEF Resolved
  <2>4. PICK j \in 1 .. Len(out) : Asker(j)
    BY <1>1, <2>3, Zenon DEF Remembered
  <2>5. j \in 1 .. n - 1 /\ out'[j].function = m.function
    BY <1>1, <1>4, <1>6, <2>3, <2>4 DEF Asker
  <2>6. ASSUME NEW k \in j + 1 .. n - 1, truth'[k].side = "Request"
        PROVE  FALSE
    <3>1. k \in 1 .. Len(out) /\ k \in j + 1 .. Len(out)
      BY <1>1
    <3>2. out[k].direction = "Response" /\ out[k].function \in WriteMany
      BY <2>4, <3>1 DEF Asker
    <3>3. truth[k].side = "Request" /\ truth[k] # Accident
      BY <1>6, <2>6, <3>1 DEF Accident
    <3>4. out[k].function \notin WriteSingle
      BY <3>2 DEF WriteSingle, WriteMany
    <3>5. out[k].direction = ReportedSide(truth[k])
      BY <1>1, <3>1, <3>3, <3>4, Zenon DEF Recognised
    <3>6. ReportedSide(truth[k]) = "Request"
      BY <3>3 DEF ReportedSide
    <3> QED
      BY <3>2, <3>5, <3>6
  <2> QED
    BY <2>5, <2>6
<1>11. ASSUME n \in 2 .. n PROVE PairedAt(n)'
  <2> DEFINE p == n - 1
  <2>1. p \in 1 .. Len(out) /\ out'[p] = out[p] /\ truth'[p] = truth[p] /\ p = Len(out)
    BY <1>1, <1>6, <1>11
  <2>2. out'[n] = m /\ truth'[n] = x
    BY <1>6
  <2> DEFINE q == x.of.request[2]
  <2> SUFFICES ASSUME x.side = "Response", truth[p].side = "Request", x.of = truth[p].of,
                      q \notin WriteSingle, ~Collides(m.raw)
               PROVE  /\ m.direction = "Response"
                      /\ m.start = AskedStart(x.of)
                      /\ m.quantity = AskedQuantity(x.of)
    BY <2>1, <2>2, Zenon DEF PairedAt, Answers, ResponsePaired
  <2> HIDE DEF p
  <2>3. x # Accident /\ truth[p] # Accident
    BY DEF Accident
  <2>4. x \in Facts /\ truth[p] \in Facts /\ Recognised(p)
    BY <1>1, <1>3, <2>1, <2>3, Zenon DEF Recognised
  <2>5. /\ raw = BytesOf(x) /\ raw = x.of.response /\ f \in {q, q + 128}
        /\ f \in WriteSingle \cup WriteMany => f = q
    BY <1>3, <1>4, <2>3, <2>4, MessageFunctions
  <2>6. f \notin WriteSingle
    BY <2>5
  <2>7. m.direction = "Response" /\ c.direction = "Response"
    <3>1. ReportedSide(x) = x.side
      BY <1>3, <2>3 DEF ReportedSide
    <3> QED
      BY <1>3, <1>4, <2>3, <2>6, <3>1
  <2>8. /\ out[p].direction = "Request"
        /\ out[p].start = AskedStart(x.of) /\ out[p].quantity = AskedQuantity(x.of)
    <3>1. BytesOf(truth[p]) = x.of.request
      BY <2>4, MessageFunctions, Zenon
    <3>2. out[p].function = q
      BY <2>4, <3>1, Zenon DEF Recognised
    <3>3. ReportedSide(truth[p]) = "Request"
      BY DEF ReportedSide
    <3> QED
      BY <2>4, <3>2, <3>3, Zenon DEF Recognised
  <2>9. lastReq # None /\ lastReq.start = AskedStart(x.of) /\ lastReq.quantity = AskedQuantity(x.of)
    <3>1. Len(out) > 0
      BY <1>1, <2>1
    <3>2. lastReq = [function |-> out[p].function, start |-> out[p].start,
                     quantity |-> out[p].quantity] /\ lastReq # None
      BY <1>1, <2>1, <2>8, <3>1, Zenon DEF Remembered
    <3>3. lastReq.start = out[p].start /\ lastReq.quantity = out[p].quantity
      BY <3>2
    <3> QED
      BY <2>8, <3>2, <3>3
  <2>10. CASE f \in WriteMany
    <3>1. CarriesAddress(f, c.direction)
      BY <2>10 DEF CarriesAddress
    <3>2. Transaction(x.of)
      BY <2>4, MessageBytes, Zenon
    <3>3. Be(raw, 3) = Be(x.of.request, 3) /\ Be(raw, 5) = Be(x.of.request, 5)
      BY <2>5, <2>10, <3>2 DEF Transaction
    <3> QED
      BY <1>4, <2>6, <2>7, <3>1, <3>3 DEF AskedStart, AskedQuantity
  <2>11. CASE f \notin WriteMany
    <3>1. ~CarriesAddress(f, c.direction)
      BY <2>6, <2>7, <2>11 DEF CarriesAddress
    <3> QED
      BY <1>4, <2>7, <2>9, <3>1
  <2> QED
    BY <2>10, <2>11
<1>12. \A i \in 1 .. Len(out') : SideClear(i)'
  <2>1. ASSUME NEW i \in 1 .. Len(out) PROVE SideClear(i)'
    <3>1. SideClear(i) /\ out'[i] = out[i] /\ truth'[i] = truth[i]
      BY <1>6 DEF Reported
    <3>2. \A j \in 1 .. i - 1 : out'[j] = out[j]
      BY <1>1, <1>6
    <3>3. \A j \in 1 .. i - 1 : \A k \in j + 1 .. i - 1 : truth'[k] = truth[k]
      BY <1>1, <1>6
    <3> QED
      BY <3>1, <3>2, <3>3, Zenon DEF SideClear
  <2>2. \A i \in 1 .. Len(out') : i \in 1 .. Len(out) \/ i = n
    BY <1>6, <1>7
  <2> QED
    BY <1>10, <2>1, <2>2, Zenon
<1>13. \A i \in 2 .. Len(out') : PairedAt(i)'
  <2>1. ASSUME NEW i \in 2 .. Len(out) PROVE PairedAt(i)'
    <3>1. /\ i \in 1 .. Len(out) /\ i - 1 \in 1 .. Len(out)
      BY <1>1
    <3>2. /\ PairedAt(i) /\ out'[i] = out[i] /\ truth'[i] = truth[i]
          /\ truth'[i - 1] = truth[i - 1]
      BY <1>6, <3>1, Zenon DEF Reported
    <3> QED
      BY <3>2, Zenon DEF PairedAt, Answers, ResponsePaired
  <2>2. \A i \in 2 .. Len(out') : i \in 2 .. Len(out) \/ (i = n /\ n \in 2 .. n)
    BY <1>1, <1>6
  <2> QED
    BY <1>11, <2>1, <2>2, Zenon
<1> QED
  BY <1>6, <1>8, <1>9, <1>12, <1>13, Zenon DEF Reported

\* A step that tells nothing.
LEMMA SilentReported ==
  ASSUME Reported, UNCHANGED <<out, lastReq, truth>>
  PROVE  Reported'
<1>1. Told'
  BY Zenon DEF Reported, Told, Recognised
<1>2. Remembered'
  BY Zenon DEF Reported, Remembered, Asker
<1>3. \A i \in 1 .. Len(out') : SideClear(i)'
  BY Zenon DEF Reported, SideClear
<1>4. \A i \in 2 .. Len(out') : PairedAt(i)'
  BY Zenon DEF Reported, PairedAt, Answers, ResponsePaired
<1>5. truth' \in Seq(Facts \cup {Accident})
  BY Zenon DEF Reported
<1> QED
  BY <1>1, <1>2, <1>3, <1>4, <1>5, Zenon DEF Reported

\* A message somebody else framed.
LEMMA InterpretTells ==
  ASSUME NEW x \in Facts, Interpret(BytesOf(x))
  PROVE  \E c : /\ Hears(BytesOf(x), c, x)
                /\ Emit(Build(BytesOf(x), c.direction, BytesOf(x) \in CrcValid))
<1> DEFINE raw == BytesOf(x)
<1>1. raw \in Seq(Byte) /\ Len(raw) >= 4
  BY MessageBytes
<1> HIDE DEF raw
<1>2. PICK c \in Candidates(raw) :
        /\ IsFirst(c, {d \in Candidates(raw) : d.len = Len(raw)})
        /\ Emit(Build(raw, c.direction, raw \in CrcValid))
  BY Zenon DEF Interpret, raw
<1>3. c.len = Len(raw)
  BY <1>2 DEF IsFirst
<1> QED
  BY <1>1, <1>2, <1>3, Zenon DEF Hears, raw

\* The first layout that fits and has a good checksum is the first of its own
\* bytes.
LEMMA TakenIsFirst ==
  ASSUME NEW b \in Seq(Byte), Len(b) >= 4, NEW c \in Valid(b), IsFirst(c, Valid(b))
  PROVE  LET raw == Prefix(b, c.len) IN
         /\ raw \in Seq(Byte) /\ Len(raw) >= 4
         /\ c \in Candidates(raw) /\ c.len = Len(raw)
         /\ IsFirst(c, {d \in Candidates(raw) : d.len = Len(raw)})
<1>1. PICK n \in Nat : n = c.len
  <2>1. Len(b) \in Nat /\ Len(b) >= 2 /\ c \in Candidates(b)
    BY LenProperties DEF Valid, Fits
  <2> QED
    BY <2>1, CandidateCases DEF Candidate
<1> DEFINE raw == Prefix(b, n)
<1>2. Len(b) \in Nat /\ Len(b) >= 2 /\ c \in Candidates(b) /\ n <= Len(b) /\ raw \in CrcValid
  BY <1>1, LenProperties DEF Valid, Fits
<1>3. n >= 5 /\ n \in 2 .. Len(b) /\ n \in 0 .. Len(b)
  BY <1>1, <1>2, CandidateCases
<1>4. raw \in Seq(Byte) /\ Len(raw) = n
  BY <1>3, Cutting
<1>5. c \in Candidates(raw)
  BY <1>1, <1>2, PrefixLayout
<1>6. ASSUME NEW d \in Candidates(raw), d.len = n
      PROVE  c.len > d.len \/ (c.len = d.len /\ (d.counted \/ d = c))
  <2>1. d \in Candidates(b)
    BY <1>3, LayoutsGrow, Zenon
  <2>2. d \in Valid(b)
    BY <1>2, <1>6, <2>1 DEF Valid, Fits
  <2> QED
    BY <2>2 DEF IsFirst
<1>7. IsFirst(c, {d \in Candidates(raw) : d.len = n})
  BY <1>1, <1>5, <1>6 DEF IsFirst
<1> HIDE DEF raw
<1>8. Len(raw) >= 4
  BY <1>3, <1>4
<1> QED
  BY <1>1, <1>4, <1>5, <1>7, <1>8 DEF raw

\* A pass of the loop hands back a message as what it was, or nothing.
LEMMA DrainTells ==
  ASSUME TypeOK, OnTheWire, Drain
  PROVE  \/ UNCHANGED <<out, lastReq, truth>>
         \/ \E raw, c : \E x \in Facts \cup {Accident} :
              /\ Hears(raw, c, x)
              /\ Emit(Build(raw, c.direction, TRUE))
              /\ truth' = Append(truth, x)
<1>1. PICK k \in 0 .. Len(buf) : Pass(Drop(buf, k))
  BY DEF Drain, DrainPass
<1> DEFINE b == Drop(buf, k)
<1>2. b \in Seq(Byte)
  BY Cutting DEF TypeOK
<1> HIDE DEF b
<1>3. Pass(b)
  BY <1>1 DEF b
<1>4. out \in Seq(Message) /\ Len(out) \in Nat
  BY LenProperties DEF TypeOK
<1>5. CASE TakeValid(b)
  <2>1. PICK c \in Valid(b) : IsFirst(c, Valid(b)) /\ Take(b, c, TRUE) /\ Len(b) >= 4
    BY <1>5, Zenon DEF TakeValid
  <2> DEFINE raw == Prefix(b, c.len)
             m == Build(raw, c.direction, TRUE)
             x == TruthOf(raw, pushed - Len(buf'))
  <2>2. Emit(m) /\ out' = Append(out, m) /\ m.raw = raw
    <3>1. Emit(m) /\ out' = Append(out, m)
      BY <2>1 DEF Take, Emit
    <3>2. m.raw = raw
      BY DEF Build
    <3> QED
      BY <3>1, <3>2
  <2>3. out' # out /\ out'[Len(out')].raw = raw
    <3> HIDE DEF m
    <3>1. Len(out') = Len(out) + 1 /\ out'[Len(out) + 1] = m
      <4>1. out \in Seq(Message \cup {m}) /\ m \in Message \cup {m}
        BY <1>4
      <4> QED
        BY <2>2, <4>1, AppendProperties
    <3> QED
      BY <1>4, <2>2, <3>1
  <2>4. truth' = Append(truth, x)
    BY <2>3, Zenon DEF Drain
  <2>5. /\ x \in Facts \cup {Accident}
        /\ x = Accident \/ (x \in Facts /\ BytesOf(x) = raw)
    <3> HIDE DEF raw
    <3>1. ASSUME NEW n
          PROVE  LET y == TruthOf(raw, n) IN
                 y = Accident \/ (y \in Facts /\ BytesOf(y) = raw)
      <4>1. CASE n \in DOMAIN ends /\ BytesOf(ends[n]) = raw
        BY <4>1 DEF TruthOf, OnTheWire
      <4>2. CASE ~(n \in DOMAIN ends /\ BytesOf(ends[n]) = raw)
        BY <4>2, Zenon DEF TruthOf
      <4> QED
        BY <4>1, <4>2
    <3>2. x = Accident \/ (x \in Facts /\ BytesOf(x) = raw)
      BY <3>1, Zenon
    <3> QED
      BY <3>2
  <2>6. /\ raw \in Seq(Byte) /\ Len(raw) >= 4
        /\ c \in Candidates(raw) /\ c.len = Len(raw)
        /\ IsFirst(c, {d \in Candidates(raw) : d.len = Len(raw)})
    BY <1>2, <2>1, TakenIsFirst
  <2> HIDE DEF raw, x
  <2>7. Hears(raw, c, x)
    BY <2>5, <2>6, Zenon DEF Hears
  <2> QED
    BY <2>2, <2>4, <2>5, <2>7, Zenon
<1>6. CASE TakeGuess(b)
  <2>1. Guesses(b) = {}
    BY ExchangeAssumption DEF Guesses
  <2> QED
    BY <1>6, <2>1 DEF TakeGuess
<1>7. CASE DropByte(b) \/ ReturnFromPush(b) \/ ReturnFromFinish(b)
  <2>1. UNCHANGED <<out, lastReq>>
    BY <1>7, Zenon DEF DropByte, ReturnFromPush, ReturnFromFinish
  <2>2. truth' = truth
    BY <2>1, Zenon DEF Drain
  <2> QED
    BY <2>1, <2>2
<1> QED
  BY <1>3, <1>5, <1>6, <1>7, Zenon DEF Pass

-----------------------------------------------------------------------------
(* A listener that missed nothing.                                         *)

\* With the right request outstanding, or none that could be confused with it,
\* a message is told from its side and leaves the right one outstanding.
LEMMA ListenerFollows ==
  ASSUME TypeOK, NEW x \in Facts, NEW raw, NEW c, Hears(raw, c, x), NEW v \in BOOLEAN,
         Due(x), Emit(Build(raw, c.direction, v))
  PROVE  Build(raw, c.direction, v).direction = ReportedSide(x) /\ Left(x)'
<1> DEFINE m == Build(raw, c.direction, v)
           f == raw[2]
           q == x.of.request[2]
<1>1. /\ raw = BytesOf(x) /\ f \in Byte /\ q \in Byte /\ x.side \in Sides
      /\ x.side = "Request" => f = q
      /\ x.side = "Response" => f \in {q, q + 128}
      /\ x.side = "Response" /\ f \in WriteSingle \cup WriteMany => f = q
  <2>1. raw = BytesOf(x)
    BY MessageBytes, Zenon DEF Hears
  <2> QED
    BY <2>1, MessageBytes, MessageFunctions
<1>2. /\ m.function = f
      /\ f \notin WriteSingle => m.direction = ReportedSide(x)
  <2>1. m.raw = BytesOf(x) /\ m.function = m.raw[2]
        /\ (m.function \notin WriteSingle => m.direction = ReportedSide(x))
    <3> HIDE DEF m
    <3>1. m = Build(raw, c.direction, v)
      BY DEF m
    <3> QED
      BY <3>1, ToldAt
  <2> QED
    BY <1>1, <2>1, Zenon
<1>3. /\ m.direction = Resolved(f, c.direction) /\ lastReq' = Outstanding(m)
      /\ m.direction = "Request" => Outstanding(m) # None
  <2>1. m.direction = Resolved(f, c.direction) /\ lastReq' = Outstanding(m)
    BY DEF Build, Emit
  <2>2. raw \in Seq(Byte) /\ Len(raw) >= 4 /\ c \in Candidates(raw) /\ c.len = Len(raw)
    BY DEF Hears
  <2>3. m.direction = "Request" => Outstanding(m) \in OutstandingRequest
    BY <2>2, BuildTyped, Zenon
  <2> QED
    BY <2>1, <2>3, StreamAssumption DEF OutstandingRequest
<1>4. /\ f \in Reads => f \notin WriteSingle /\ f \notin WriteMany
      /\ f \in WriteSingle => f \notin WriteMany
      /\ \A g \in WriteMany : g \notin WriteSingle
  BY DEF Reads, WriteSingle, WriteMany
<1>5. m.direction = ReportedSide(x)
  <2> SUFFICES ASSUME f \in WriteSingle PROVE m.direction = ReportedSide(x)
    BY <1>2
  <2>1. ReportedSide(x) = x.side
    BY <1>1, <1>4 DEF ReportedSide, Collides
  <2>2. CASE x.side = "Request"
    BY <1>1, <1>3, <2>1, <2>2 DEF Resolved, Due, Idle
  <2>3. CASE x.side = "Response"
    BY <1>1, <1>3, <2>1, <2>3 DEF Resolved, Due, Expecting
  <2> QED
    BY <1>1, <2>2, <2>3 DEF Sides
<1> HIDE DEF m, f
<1>6. m.direction = "Request" => lastReq' # None /\ lastReq'.function = f
  BY <1>2, <1>3 DEF Outstanding
<1>7. m.direction # "Request" => lastReq' = IF f \in WriteMany THEN lastReq ELSE None
  BY <1>2, <1>3 DEF Outstanding
<1>8. CASE x.side = "Request"
  <2>1. m.direction = "Request"
    BY <1>5, <1>8 DEF ReportedSide
  <2> QED
    BY <1>1, <1>5, <1>6, <1>8, <2>1 DEF Left, Expecting, m
<1>9. CASE x.side = "Response"
  <2>1. CASE m.direction = "Request"
    <3>1. f \in Reads
      BY <1>1, <1>5, <1>9, <2>1 DEF ReportedSide, Collides, f
    <3> QED
      BY <1>4, <1>5, <1>6, <1>9, <2>1, <3>1 DEF Left, Idle, m
  <2>2. CASE m.direction # "Request" /\ f \in WriteMany
    <3>1. lastReq' = lastReq /\ lastReq.function = f
      BY <1>1, <1>7, <1>9, <2>2 DEF Due, Expecting
    <3> QED
      BY <1>4, <1>5, <1>9, <2>2, <3>1 DEF Left, Idle, m
  <2>3. CASE m.direction # "Request" /\ f \notin WriteMany
    BY <1>5, <1>7, <1>9, <2>3 DEF Left, Idle, m
  <2> QED
    BY <2>1, <2>2, <2>3
<1> QED
  BY <1>1, <1>8, <1>9 DEF Sides

LEMMA HeardAfter ==
  ASSUME out \in Seq(Message), truth \in Seq(Facts \cup {Accident}), Len(truth) = Len(out),
         \A i \in 1 .. Len(out) : HeardAt(i),
         NEW m \in Message, NEW x \in Facts,
         out' = Append(out, m), truth' = Append(truth, x),
         m.direction = ReportedSide(x), m.frame_count = x.frames
  PROVE  \A i \in 1 .. Len(out') : HeardAt(i)'
<1>1. Len(out) \in Nat
  BY LenProperties
<1>2. /\ Len(out') = Len(out) + 1 /\ out'[Len(out) + 1] = m
      /\ \A i \in 1 .. Len(out) : out'[i] = out[i]
      /\ truth'[Len(out) + 1] = x
      /\ \A i \in 1 .. Len(out) : truth'[i] = truth[i]
  BY AppendProperties
<1> SUFFICES ASSUME NEW i \in 1 .. Len(out') PROVE HeardAt(i)'
  OBVIOUS
<1>3. CASE i \in 1 .. Len(out)
  BY <1>2, <1>3, Zenon DEF HeardAt
<1>4. CASE i = Len(out) + 1
  BY <1>2, <1>4, Zenon DEF HeardAt
<1> QED
  BY <1>1, <1>2, <1>3, <1>4

\* Nothing is skipped before the first byte of a message.
LEMMA NothingSkipped ==
  ASSUME NEW x \in Facts, NEW g \in 1 .. Len(BytesOf(x)), buf = Prefix(BytesOf(x), g),
         NEW k \in 0 .. Len(buf), IsSkip(k)
  PROVE  k = 0 /\ Drop(buf, 0) = buf
<1> DEFINE raw == BytesOf(x)
<1>1. raw \in Seq(Byte) /\ Len(raw) \in Nat /\ Sound(raw)
  BY MessageBytes
<1> HIDE DEF raw
<1>2. g \in 0 .. Len(raw) /\ g \in Nat /\ g >= 1
  BY DEF raw
<1>3. buf \in Seq(Byte) /\ Len(buf) = g /\ buf[1] = raw[1]
  <2>1. buf = Prefix(raw, g)
    BY DEF raw
  <2>2. Prefix(raw, g) \in Seq(Byte) /\ Len(Prefix(raw, g)) = g
        /\ \A i \in 1 .. g : Prefix(raw, g)[i] = raw[i]
    BY <1>1, <1>2, Cutting
  <2>3. 1 \in 1 .. g
    BY <1>2
  <2>4. Prefix(raw, g)[1] = raw[1]
    BY <2>2, <2>3
  <2> HIDE DEF raw
  <2> QED
    BY <2>1, <2>2, <2>4
<1>4. AddressMatches(buf[1])
  BY <1>1, <1>3 DEF Sound
<1>5. k = 0
  BY <1>2, <1>3, <1>4 DEF IsSkip
<1>6. Drop(buf, 0) = buf
  BY <1>3, CutAtEnds
<1> QED
  BY <1>5, <1>6

\* Part of a message is waited on.
LEMMA PartWaits ==
  ASSUME call = "push", NEW x \in Facts, NEW g \in 0 .. Len(BytesOf(x)) - 1,
         buf = Prefix(BytesOf(x), g), DrainPass
  PROVE  buf' = buf /\ call' = "none" /\ UNCHANGED <<pending, lastReq, out>>
<1> DEFINE raw == BytesOf(x)
<1>1. raw \in Seq(Byte) /\ Len(raw) \in Nat /\ Sound(raw) /\ Len(raw) < 5 + MAX_DATA_BYTES + 1
  BY MessageBytes
<1> HIDE DEF raw
<1>2. g \in 0 .. Len(raw) /\ g \in Nat /\ g < Len(raw)
  BY <1>1 DEF raw
<1>3. buf \in Seq(Byte) /\ Len(buf) = g
  BY <1>1, <1>2, Cutting DEF raw
<1>4. PICK k \in 0 .. Len(buf) : IsSkip(k) /\ Pass(Drop(buf, k))
  BY DEF DrainPass
<1>5. Drop(buf, k) = buf
  <2>1. CASE g = 0
    <3>1. k = 0
      BY <1>3, <2>1
    <3> QED
      BY <1>3, <3>1, CutAtEnds
  <2>2. CASE g # 0
    <3>1. g \in 1 .. Len(BytesOf(x))
      BY <1>2, <2>2 DEF raw
    <3> QED
      BY <1>4, <3>1, NothingSkipped
  <2> QED
    BY <2>1, <2>2
<1>6. Len(buf) >= 4 => Valid(buf) = {} /\ Awaited(buf)
  <2> SUFFICES ASSUME Len(buf) >= 4 PROVE Valid(buf) = {} /\ Awaited(buf)
    OBVIOUS
  <2>0. buf = Prefix(raw, g) /\ g >= 4 /\ g \in 4 .. Len(raw) /\ g \in 2 .. Len(raw)
    BY <1>2, <1>3 DEF raw
  <2>1. ASSUME NEW c \in Valid(buf) PROVE FALSE
    <3>1. c \in Candidates(buf) /\ c.len <= g /\ Prefix(buf, c.len) \in CrcValid
      BY <1>3 DEF Valid, Fits
    <3>2. PICK n \in Nat : n = c.len /\ n >= 5
      <4>1. Len(buf) >= 2
        BY <1>2, <1>3
      <4> QED
        BY <1>3, <3>1, <4>1, CandidateCases DEF Candidate
    <3>3. c \in Candidates(raw)
      BY <1>1, <2>0, <3>1, LayoutsGrow
    <3>4. Prefix(buf, n) = Prefix(raw, n)
      <4>1. n \in 0 .. g /\ n \in 0 .. Len(raw)
        BY <1>2, <3>1, <3>2
      <4>2. /\ Prefix(buf, n) \in Seq(Byte) /\ Len(Prefix(buf, n)) = n
            /\ \A i \in 1 .. n : Prefix(buf, n)[i] = buf[i]
        BY <1>3, <4>1, Cutting
      <4>3. /\ Prefix(raw, n) \in Seq(Byte) /\ Len(Prefix(raw, n)) = n
            /\ \A i \in 1 .. n : Prefix(raw, n)[i] = raw[i]
        BY <1>1, <4>1, Cutting
      <4>4. \A i \in 1 .. g : buf[i] = raw[i]
        BY <1>1, <1>2, <2>0, Cutting
      <4>5. \A i \in 1 .. n : i \in 1 .. g
        BY <4>1
      <4>6. \A i \in 1 .. n : Prefix(buf, n)[i] = Prefix(raw, n)[i]
        BY <4>2, <4>3, <4>4, <4>5, Zenon
      <4> QED
        BY <4>2, <4>3, <4>6, SeqEqual
    <3>5. c.len <= Len(raw)
      BY <1>2, <3>1, <3>2
    <3>6. c \in Valid(raw)
      BY <3>1, <3>2, <3>3, <3>4, <3>5 DEF Valid, Fits
    <3>7. c.len = Len(raw)
      BY <1>1, <3>6 DEF Sound
    <3> QED
      BY <1>2, <3>1, <3>2, <3>7
  <2>2. PICK c \in Candidates(raw) : Plausible(raw, c) /\ c.len = Len(raw)
    BY <1>1 DEF Sound
  <2>3. Awaited(Prefix(raw, g))
    BY <1>1, <1>2, <2>0, <2>2, MessageAwaited
  <2> QED
    BY <2>0, <2>1, <2>3
<1>7. NeedMore(buf)
  BY <1>6, Zenon DEF NeedMore
<1>8. ReturnFromPush(buf)
  <2>1. ~TakeValid(buf)
    BY <1>6 DEF TakeValid
  <2>2. ~TakeGuess(buf) /\ ~DropByte(buf) /\ ~ReturnFromFinish(buf)
    BY <1>7 DEF TakeGuess, DropByte, ReturnFromFinish, NoMessage
  <2> QED
    BY <1>4, <1>5, <2>1, <2>2, Zenon DEF Pass
<1>9. buf' = buf
  BY <1>1, <1>2, <1>3, <1>8 DEF ReturnFromPush, MAX_BUFFER, MAX_RTU_LEN, MAX_DATA_BYTES
<1> QED
  BY <1>8, <1>9 DEF ReturnFromPush

\* A whole message is told at once, and nothing of it is left.
LEMMA WholeTold ==
  ASSUME TypeOK, call = "push", NEW x \in Facts, buf = BytesOf(x), DrainPass
  PROVE  /\ \E c : /\ Hears(BytesOf(x), c, x)
                   /\ Emit(Build(BytesOf(x), c.direction, TRUE))
         /\ buf' = <<>> /\ pending' = 0 /\ call' = call
<1> DEFINE raw == BytesOf(x)
<1>1. /\ raw \in Seq(Byte) /\ Len(raw) \in Nat /\ Len(raw) >= 4 /\ Len(raw) >= 2 /\ Sound(raw)
  BY MessageBytes
<1> HIDE DEF raw
<1>2. Len(raw) \in 1 .. Len(raw) /\ Len(raw) \in 0 .. Len(raw) /\ buf = raw
  BY <1>1 DEF raw
<1>3. Prefix(raw, Len(raw)) = raw /\ Drop(raw, Len(raw)) = <<>>
  BY <1>1, CutAtEnds
<1>4. PICK k \in 0 .. Len(buf) : IsSkip(k) /\ Pass(Drop(buf, k))
  BY DEF DrainPass
<1>5. Pass(raw)
  <2>1. k = 0 /\ Drop(buf, 0) = buf
    <3>1. Len(BytesOf(x)) \in 1 .. Len(BytesOf(x)) /\ buf = Prefix(BytesOf(x), Len(BytesOf(x)))
      BY <1>2, <1>3 DEF raw
    <3> QED
      BY <1>4, <3>1, NothingSkipped
  <2> QED
    BY <1>2, <1>4, <2>1
<1>6. PICK e \in Candidates(raw) : e.len = Len(raw)
  BY <1>1 DEF Sound
<1>7. e \in Valid(raw)
  BY <1>1, <1>3, <1>6 DEF Valid, Fits, Sound
<1>8. TakeValid(raw)
  <2>1. ~NeedMore(raw)
    BY <1>1, <1>7 DEF NeedMore
  <2>2. ~TakeGuess(raw) /\ ~DropByte(raw) /\ ~ReturnFromPush(raw) /\ ~ReturnFromFinish(raw)
    BY <1>7, <2>1 DEF TakeGuess, DropByte, ReturnFromPush, ReturnFromFinish, NoMessage
  <2> QED
    BY <1>5, <2>2, Zenon DEF Pass
<1>9. PICK c \in Valid(raw) : IsFirst(c, Valid(raw)) /\ Take(raw, c, TRUE)
  BY <1>8, Zenon DEF TakeValid
<1>10. c.len = Len(raw)
  BY <1>1 DEF Sound
<1>11. Hears(raw, c, x)
  <2>1. /\ Prefix(raw, c.len) \in Seq(Byte) /\ Len(Prefix(raw, c.len)) >= 4
        /\ c \in Candidates(Prefix(raw, c.len)) /\ c.len = Len(Prefix(raw, c.len))
        /\ IsFirst(c, {d \in Candidates(Prefix(raw, c.len)) : d.len = Len(Prefix(raw, c.len))})
    BY <1>1, <1>9, TakenIsFirst
  <2>2. Prefix(raw, c.len) = raw
    BY <1>3, <1>10
  <2> QED
    BY <2>1, <2>2 DEF Hears, raw
<1>12. /\ Emit(Build(raw, c.direction, TRUE))
       /\ buf' = <<>> /\ pending' = 0 /\ call' = call
  BY <1>3, <1>9, <1>10 DEF Take, FramesLeft
<1> QED
  BY <1>11, <1>12, Zenon DEF raw

\* The bytes of a message up to the end of its next frame.
LEMMA NextFrame ==
  ASSUME coming \in Facts, gone \in 0 .. Len(BytesOf(coming)) - 1
  PROVE  LET raw == BytesOf(coming)
             chunk == SubSeq(raw, gone + 1, NextGone)
         IN  /\ NextGone \in 1 .. Len(raw) /\ NextGone > gone
             /\ chunk \in Seq(Byte)
             /\ Prefix(raw, gone) \o chunk = Prefix(raw, NextGone)
             /\ Prefix(raw, 0) = <<>> /\ Prefix(raw, Len(raw)) = raw
<1> DEFINE raw == BytesOf(coming)
<1>1. raw \in Seq(Byte) /\ Len(raw) \in Nat
  BY MessageBytes
<1>2. gone \in Nat /\ gone < Len(raw)
  BY <1>1
<1>3. NextGone \in 1 .. Len(raw) /\ NextGone > gone
  BY <1>1, <1>2, ExchangeAssumption DEF NextGone
<1> HIDE DEF raw
<1> PICK n \in Nat : n = NextGone
  BY <1>3
<1> PICK g \in Nat : g = gone
  BY <1>2
<1>4. n \in 1 .. Len(raw) /\ n \in 0 .. Len(raw) /\ g \in 0 .. Len(raw) /\ g < n /\ g <= n /\ n <= Len(raw)
  BY <1>1, <1>2, <1>3
<1>5. SubSeq(raw, g + 1, n) \in Seq(Byte)
  BY <1>1, <1>4, Stretches
<1>6. Prefix(raw, g) \o SubSeq(raw, g + 1, n) = Prefix(raw, n)
  BY <1>1, <1>4, Rejoin
<1>7. Prefix(raw, 0) = <<>> /\ Prefix(raw, Len(raw)) = raw
  BY <1>1, CutAtEnds
<1> QED
  BY <1>3, <1>5, <1>6, <1>7 DEF raw

-----------------------------------------------------------------------------
(* The steps.                                                              *)

LEMMA ExchangeInitHolds == ExchangeInit => XInv
<1> SUFFICES ASSUME ExchangeInit PROVE XInv
  OBVIOUS
<1>1. IInv
  BY InitHolds DEF ExchangeInit
<1>2. out = <<>> /\ truth = <<>> /\ Len(out) = 0 /\ Len(truth) = 0 /\ lastReq = None
      /\ truth \in Seq(Facts \cup {Accident})
  BY EmptySeq DEF ExchangeInit, Init
<1>3. /\ \A i \in 1 .. Len(out) : FALSE
      /\ \A i \in 2 .. Len(out) : FALSE
      /\ ~(Len(out) > 0)
  BY <1>2
<1>4. Reported
  BY <1>2, <1>3 DEF Reported, Told, Remembered
<1>5. OnTheWire
  BY DEF ExchangeInit, OnTheWire
<1>6. AllHeard
  BY <1>2, <1>3 DEF ExchangeInit, Init, AllHeard, Following, Nothing, Idle
<1> QED
  BY <1>1, <1>4, <1>5, <1>6 DEF XInv

\* What a listener waits for once a message was told is the next one.
LEMMA ToldWhole ==
  ASSUME TypeOK, Reported, \A i \in 1 .. Len(out) : HeardAt(i),
         NEW x \in Facts, Due(x), FramesReported = x.frames,
         NEW c, NEW v \in BOOLEAN, Hears(BytesOf(x), c, x),
         Emit(Build(BytesOf(x), c.direction, v)), truth' = Append(truth, x),
         buf' = <<>>, pending' = 0, call' \in {"none", "push"}, coming' = None,
         asked' = IF x.side = "Request" THEN x.of ELSE None
  PROVE  AllHeard'
<1> DEFINE raw == BytesOf(x)
           m == Build(raw, c.direction, v)
<1>1. m.direction = ReportedSide(x) /\ Left(x)'
  BY ListenerFollows, Zenon
<1>2. m.frame_count = x.frames
  BY DEF Build
<1>3. raw \in Seq(Byte) /\ Len(raw) >= 4 /\ c \in Candidates(raw) /\ c.len = Len(raw)
  BY DEF Hears
<1> HIDE DEF raw
<1>4. m \in Message
  BY <1>3, BuildTyped, Zenon
<1>5. /\ out \in Seq(Message) /\ truth \in Seq(Facts \cup {Accident}) /\ Len(truth) = Len(out)
      /\ out' = Append(out, m)
  BY DEF TypeOK, Reported, Told, Emit, raw
<1>6. \A i \in 1 .. Len(out') : HeardAt(i)'
  <2> HIDE DEF m
  <2>1. m.direction = ReportedSide(x)
    BY <1>1 DEF m, raw
  <2> QED
    BY <1>2, <1>4, <1>5, <2>1, HeardAfter, Zenon
<1>7. x.side \in Sides /\ x.of # None
  BY MessageBytes
<1>8. IF asked' = None THEN Idle' ELSE Expecting(asked)'
  <2>1. CASE x.side = "Request"
    <3>1. asked' = x.of /\ asked' # None
      BY <1>7, <2>1
    <3>2. Expecting(x.of)'
      BY <1>1, <2>1 DEF Left
    <3>3. Expecting(asked)'
      BY <3>1, <3>2 DEF Expecting
    <3> QED
      BY <3>1, <3>3
  <2>2. CASE x.side = "Response"
    <3>1. asked' = None
      BY <2>2
    <3>2. Idle'
      BY <1>1, <2>2 DEF Left
    <3> QED
      BY <3>1, <3>2
  <2> QED
    BY <1>7, <2>1, <2>2 DEF Sides
<1>9. Nothing'
  BY <1>8, Zenon DEF Nothing
<1>10. Following'
  BY <1>9 DEF Following
<1> QED
  BY <1>6, <1>10, Zenon DEF AllHeard

LEMMA TransmitStep ==
  ASSUME XInv, NEW t \in Transactions, NEW side \in Sides, Transmit(t, side),
         asked = IF side = "Request" THEN None ELSE t
  PROVE  XInv'
<1>1. /\ IInv /\ TypeOK /\ Reported /\ OnTheWire /\ missed \in Nat
      /\ missed = 0 => AllHeard
      /\ call = "none" /\ coming = None /\ gone = 0
  BY DEF XInv, IInv, OnTheWire, Transmit, Quiet
<1>2. t # None /\ (side = "Request" \/ side = "Response")
  BY ExchangeAssumption DEF Sides
<1>3. asked' = IF side = "Request" THEN t ELSE None
  BY DEF Transmit
<1>4. missed = 0 => /\ buf = <<>> /\ pending = 0
                    /\ IF side = "Request" THEN Idle ELSE Expecting(t)
                    /\ \A i \in 1 .. Len(out) : HeardAt(i)
  BY <1>1, <1>2 DEF AllHeard, Following, Nothing, Complete
<1>5. \A n \in Nat : /\ Fact(t, side, n) \in Facts
                     /\ Fact(t, side, n).side = side /\ Fact(t, side, n).of = t
                     /\ Fact(t, side, n).frames = n
  BY DEF Fact, Facts
<1>6. CASE /\ Interpret(BytesOf(Fact(t, side, 1)))
           /\ truth' = Append(truth, Fact(t, side, 1))
           /\ UNCHANGED <<coming, gone, pushed, ends, missed>>
  <2> DEFINE x == Fact(t, side, 1)
  <2>1. /\ x \in Facts /\ x.side = side /\ x.of = t /\ x.frames = 1
    <3>1. 1 \in Nat
      OBVIOUS
    <3> QED
      BY <1>5, <3>1, Zenon
  <2>2. /\ Interpret(BytesOf(x)) /\ truth' = Append(truth, x)
        /\ UNCHANGED <<coming, gone, pushed, ends, missed>>
    BY <1>6
  <2> HIDE DEF x
  <2>3. BytesOf(x) \in Seq(Byte)
    BY <2>1, MessageBytes
  <2>4. IInv'
    BY <1>1, <2>2, <2>3, InterpretStep, Zenon
  <2> DEFINE v == BytesOf(x) \in CrcValid
  <2>5. PICK c : Hears(BytesOf(x), c, x) /\ Emit(Build(BytesOf(x), c.direction, v))
    BY <2>1, <2>2, InterpretTells, Zenon
  <2>6. v \in BOOLEAN
    OBVIOUS
  <2> HIDE DEF v
  <2>7. Reported'
    <3>1. x \in Facts \cup {Accident}
      BY <2>1
    <3> QED
      BY <1>1, <2>2, <2>5, <2>6, <3>1, EmitReported, Zenon
  <2>8. OnTheWire'
    BY <1>1, <1>3, <2>2 DEF OnTheWire
  <2>9. missed' = 0 => AllHeard'
    <3> SUFFICES ASSUME missed = 0 PROVE AllHeard'
      BY <2>2
    <3>1. Due(x)
      BY <1>2, <1>4, <2>1 DEF Due
    <3>2. FramesReported = x.frames
      BY <1>4, <2>1 DEF FramesReported
    <3>3. buf' = <<>> /\ pending' = 0 /\ call' \in {"none", "push"} /\ coming' = None
      BY <1>1, <1>4, <2>2 DEF Interpret
    <3>4. asked' = IF x.side = "Request" THEN x.of ELSE None
      BY <1>3, <2>1
    <3>5. \A i \in 1 .. Len(out) : HeardAt(i)
      BY <1>4
    <3> QED
      BY <1>1, <2>1, <2>2, <2>5, <2>6, <3>1, <3>2, <3>3, <3>4, <3>5, ToldWhole, Zenon
  <2> QED
    BY <2>4, <2>7, <2>8, <2>9 DEF XInv
<1>7. CASE /\ coming' = Fact(t, side, 0)
           /\ UNCHANGED <<vars, gone, pushed, ends, truth, missed>>
  <2> DEFINE x == Fact(t, side, 0)
  <2>1. /\ x \in Facts /\ x.side = side /\ x.of = t /\ x.frames = 0
    <3>1. 0 \in Nat
      OBVIOUS
    <3> QED
      BY <1>5, <3>1, Zenon
  <2>2. coming' = x /\ UNCHANGED <<buf, pending, lastReq, call, out, residue, gone, pushed, ends, truth, missed>>
    BY <1>7 DEF vars
  <2>3. IInv'
    BY <1>1, <1>7, NextHolds, Zenon
  <2> HIDE DEF x
  <2>4. Reported'
    BY <1>1, <2>2, SilentReported
  <2>5. x # None /\ BytesOf(x) \in Seq(Byte) /\ Len(BytesOf(x)) >= 4 /\ Len(BytesOf(x)) \in Nat
    BY <2>1, MessageBytes
  <2>6. OnTheWire'
    <3>1. gone' \in 0 .. Len(BytesOf(coming')) - 1
      BY <1>1, <2>2, <2>5
    <3> QED
      BY <1>1, <1>3, <2>1, <2>2, <2>5, <3>1 DEF OnTheWire
  <2>7. missed' = 0 => AllHeard'
    <3> SUFFICES ASSUME missed = 0 PROVE AllHeard'
      BY <2>2
    <3>1. Prefix(BytesOf(x), 0) = <<>>
      BY <2>5, CutAtEnds
    <3>2. Due(x)
      BY <1>2, <1>4, <2>1 DEF Due
    <3>3. Due(coming)'
      BY <2>2, <3>2 DEF Due, Idle, Expecting
    <3>4. Arriving'
      BY <1>1, <1>3, <1>4, <2>1, <2>2, <3>1, <3>3 DEF Arriving
    <3>5. Following'
      BY <1>1, <2>2, <2>5, <3>4 DEF Following
    <3> QED
      BY <1>4, <2>2, <3>5 DEF AllHeard, HeardAt
  <2> QED
    BY <2>3, <2>4, <2>6, <2>7 DEF XInv
<1>8. CASE /\ missed' = missed + 1
           /\ UNCHANGED <<vars, coming, gone, pushed, ends, truth>>
  <2>1. UNCHANGED <<buf, pending, lastReq, call, out, residue, coming, gone, pushed, ends, truth>>
        /\ missed' \in Nat /\ missed' # 0
    BY <1>1, <1>8 DEF vars
  <2>2. IInv'
    BY <1>1, <1>8, NextHolds, Zenon
  <2>3. Reported'
    BY <1>1, <2>1, SilentReported
  <2>4. OnTheWire'
    BY <1>1, <1>3, <2>1 DEF OnTheWire
  <2> QED
    BY <2>1, <2>2, <2>3, <2>4 DEF XInv
<1> QED
  BY <1>6, <1>7, <1>8 DEF Transmit

LEMMA TimeoutStep ==
  ASSUME XInv, Timeout
  PROVE  XInv'
<1>1. /\ IInv /\ Reported /\ OnTheWire /\ missed \in Nat
      /\ UNCHANGED <<vars, coming, gone, pushed, ends, truth>>
      /\ missed' = missed + 1 /\ asked' = None
  BY DEF XInv, OnTheWire, Timeout
<1>2. UNCHANGED <<buf, pending, lastReq, call, out, residue>> /\ missed' \in Nat /\ missed' # 0
  BY <1>1 DEF vars
<1>3. IInv'
  BY <1>1, NextHolds, Zenon
<1>4. Reported'
  BY <1>1, <1>2, SilentReported
<1>5. OnTheWire'
  BY <1>1, <1>2 DEF OnTheWire
<1> QED
  BY <1>2, <1>3, <1>4, <1>5 DEF XInv

\* What goes on with the message that is on the wire.
LEMMA GoOnTyped ==
  ASSUME OnTheWire, coming # None, NEW fact \in Facts, BytesOf(fact) = BytesOf(coming),
         GoOn(fact)
  PROVE  /\ coming' \in Facts \cup {None}
         /\ coming' # None => gone' \in 0 .. Len(BytesOf(coming')) - 1
         /\ coming' = None => gone' = 0
         /\ coming \in Facts
<1>1. coming \in Facts /\ gone \in 0 .. Len(BytesOf(coming)) - 1
  BY DEF OnTheWire
<1>2. NextGone \in 1 .. Len(BytesOf(coming))
  BY <1>1, NextFrame
<1>3. Len(BytesOf(coming)) \in Nat
  BY <1>1, MessageBytes
<1>4. fact # None
  BY MessageBytes
<1>5. CASE NextGone = Len(BytesOf(coming))
  BY <1>1, <1>5 DEF GoOn
<1>6. CASE NextGone # Len(BytesOf(coming))
  <2>1. coming' = fact /\ gone' = NextGone
    BY <1>6 DEF GoOn
  <2>2. NextGone \in 0 .. Len(BytesOf(coming)) - 1
    BY <1>2, <1>3, <1>6
  <2> QED
    BY <1>1, <1>4, <2>1, <2>2
<1> QED
  BY <1>5, <1>6

LEMMA FrameMissedStep ==
  ASSUME XInv, FrameMissed
  PROVE  XInv'
<1>1. /\ IInv /\ Reported /\ OnTheWire /\ missed \in Nat
      /\ UNCHANGED <<vars, asked, pushed, ends, truth>>
      /\ missed' = missed + 1 /\ coming # None /\ GoOn(coming)
  BY DEF XInv, OnTheWire, FrameMissed
<1>2. UNCHANGED <<buf, pending, lastReq, call, out, residue>> /\ missed' \in Nat /\ missed' # 0
  BY <1>1 DEF vars
<1>3. IInv'
  BY <1>1, NextHolds, Zenon
<1>4. Reported'
  BY <1>1, <1>2, SilentReported
<1>5. coming \in Facts
  BY <1>1 DEF OnTheWire
<1>6. /\ coming' \in Facts \cup {None}
      /\ coming' # None => gone' \in 0 .. Len(BytesOf(coming')) - 1
      /\ coming' = None => gone' = 0
  BY <1>1, <1>5, GoOnTyped
<1>7. OnTheWire'
  BY <1>1, <1>2, <1>6 DEF OnTheWire
<1> QED
  BY <1>2, <1>3, <1>4, <1>7 DEF XInv

LEMMA FrameArrivesStep ==
  ASSUME XInv, FrameArrives
  PROVE  XInv'
<1> PICK heard : heard = [coming EXCEPT !.frames = @ + 1]
  OBVIOUS
<1> PICK raw : raw = BytesOf(coming)
  OBVIOUS
<1> PICK chunk : chunk = SubSeq(raw, gone + 1, NextGone)
  OBVIOUS
<1>1. /\ IInv /\ Reported /\ OnTheWire /\ missed \in Nat /\ pushed \in Nat
      /\ missed = 0 => AllHeard
      /\ coming # None /\ Push(chunk) /\ GoOn(heard)
      /\ pushed' = pushed + NextGone - gone
      /\ ends' = IF coming' # None THEN ends
                 ELSE [n \in DOMAIN ends \cup {pushed'} |-> IF n = pushed' THEN heard ELSE ends[n]]
      /\ UNCHANGED <<asked, truth, turns, missed>>
  BY DEF XInv, OnTheWire, FrameArrives
<1>2. coming \in Facts /\ gone \in 0 .. Len(raw) - 1
  BY <1>1 DEF OnTheWire
<1>3. /\ NextGone \in 1 .. Len(raw) /\ NextGone > gone
      /\ chunk \in Seq(Byte)
      /\ Prefix(raw, gone) \o chunk = Prefix(raw, NextGone)
      /\ Prefix(raw, Len(raw)) = raw
  BY <1>2, NextFrame
<1>4. raw \in Seq(Byte) /\ Len(raw) \in Nat /\ coming.frames \in Nat
  BY <1>2, MessageBytes
<1>5. /\ heard \in Facts /\ heard.side = coming.side /\ heard.of = coming.of
      /\ heard.frames = coming.frames + 1
      /\ BytesOf(heard) = raw /\ heard # None
  <2>1. /\ heard \in Facts /\ heard.side = coming.side /\ heard.of = coming.of
        /\ heard.frames = coming.frames + 1
    BY <1>2, <1>4 DEF Facts
  <2>2. BytesOf(heard) = raw
    BY <2>1 DEF BytesOf
  <2>3. heard # None
    BY <2>1, ExchangeAssumption
  <2> QED
    BY <2>1, <2>2, <2>3
<1>6. /\ buf' = buf \o chunk /\ pending' = pending + 1 /\ call' = "push"
      /\ call = "none" /\ UNCHANGED <<lastReq, out, residue>>
  BY <1>1 DEF Push
<1>7. IInv'
  BY <1>1, <1>3, PushStep, Zenon
<1>8. Reported'
  BY <1>1, <1>6, SilentReported
<1>9. /\ coming' \in Facts \cup {None}
      /\ coming' # None => gone' \in 0 .. Len(BytesOf(coming')) - 1
      /\ coming' = None => gone' = 0
  <2>1. BytesOf(heard) = BytesOf(coming)
    BY <1>5
  <2>2. OnTheWire /\ coming # None /\ heard \in Facts /\ GoOn(heard)
    BY <1>1, <1>5
  <2>3. /\ coming' \in Facts \cup {None}
        /\ coming' # None => gone' \in 0 .. Len(BytesOf(coming')) - 1
        /\ coming' = None => gone' = 0
    BY <2>1, <2>2, GoOnTyped, Zenon
  <2> QED
    BY <2>3
<1>10. pushed' \in Nat
  <2>1. gone \in Nat /\ NextGone \in Nat /\ NextGone > gone
    BY <1>2, <1>3, <1>4
  <2>2. \A p, g, n \in Nat : n > g => p + n - g \in Nat
    OBVIOUS
  <2>3. pushed \in Nat /\ pushed' = pushed + NextGone - gone
    BY <1>1
  <2> QED
    BY <2>1, <2>2, <2>3
<1>11. \A n \in DOMAIN ends' : ends'[n] \in Facts
  <2>1. CASE coming' # None
    BY <1>1, <2>1 DEF OnTheWire
  <2>2. CASE coming' = None
    <3>1. ends' = [n \in DOMAIN ends \cup {pushed'} |-> IF n = pushed' THEN heard ELSE ends[n]]
      BY <1>1, <2>2
    <3> QED
      BY <1>1, <1>5, <3>1 DEF OnTheWire
  <2> QED
    BY <2>1, <2>2
<1>12. OnTheWire'
  BY <1>1, <1>9, <1>10, <1>11 DEF OnTheWire
<1>13. missed' = 0 => AllHeard'
  <2> SUFFICES ASSUME missed = 0 PROVE AllHeard'
    BY <1>1
  <2>1. Arriving /\ \A i \in 1 .. Len(out) : HeardAt(i)
    BY <1>1 DEF AllHeard, Following
  <2>2. \A i \in 1 .. Len(out') : HeardAt(i)'
    BY <1>1, <1>6, <2>1, Zenon DEF HeardAt
  <2>3. buf' = Prefix(raw, NextGone)
    BY <1>3, <1>6, <2>1 DEF Arriving
  <2>4. /\ pending' = heard.frames /\ pending' > 0
        /\ asked' = IF heard.side = "Request" THEN heard.of ELSE None
    BY <1>1, <1>4, <1>5, <1>6, <2>1 DEF Arriving
  <2>5. Due(heard)'
    <3>1. IF coming.side = "Request" THEN Idle ELSE Expecting(coming.of)
      BY <2>1 DEF Arriving, Due
    <3>2. IF heard.side = "Request" THEN Idle ELSE Expecting(heard.of)
      BY <1>5, <3>1
    <3> QED
      BY <1>6, <3>2 DEF Due, Idle, Expecting
  <2>6. CASE NextGone = Len(raw)
    <3>1. coming' = None
      BY <1>1, <2>6 DEF GoOn
    <3>2. ends' = [n \in DOMAIN ends \cup {pushed'} |-> IF n = pushed' THEN heard ELSE ends[n]]
      BY <1>1, <3>1
    <3>3. pushed' \in DOMAIN ends' /\ ends'[pushed'] = heard
      BY <3>2
    <3>4. buf' = raw
      BY <1>3, <2>3, <2>6
    <3>5. Due(ends[pushed])'
      BY <2>5, <3>3 DEF Due, Idle, Expecting
    <3>6. Complete'
      BY <1>5, <1>6, <2>4, <3>3, <3>4, <3>5 DEF Complete
    <3>7. Following'
      BY <1>6, <3>1, <3>6 DEF Following
    <3> QED
      BY <2>2, <3>7 DEF AllHeard
  <2>7. CASE NextGone # Len(raw)
    <3>1. coming' = heard /\ gone' = NextGone
      BY <1>1, <2>7 DEF GoOn
    <3>2. Due(coming)'
      BY <2>5, <3>1 DEF Due, Idle, Expecting
    <3>3. Arriving'
      BY <1>5, <2>3, <2>4, <3>1, <3>2 DEF Arriving
    <3>4. Following'
      BY <1>5, <1>6, <3>1, <3>3 DEF Following
    <3> QED
      BY <2>2, <3>4 DEF AllHeard
  <2> QED
    BY <2>6, <2>7
<1> QED
  BY <1>1, <1>7, <1>8, <1>12, <1>13 DEF XInv

LEMMA ReassembleStep ==
  ASSUME XInv, Drain
  PROVE  XInv'
<1>1. /\ IInv /\ TypeOK /\ Reported /\ OnTheWire /\ missed \in Nat
      /\ missed = 0 => AllHeard
      /\ DrainPass /\ call # "none"
      /\ UNCHANGED <<asked, coming, gone, pushed, ends, turns, missed>>
  BY DEF XInv, IInv, OnTheWire, Drain, DrainPass
<1>2. IInv'
  BY <1>1, DrainStep, Zenon
<1>3. Reported'
  <2>1. CASE UNCHANGED <<out, lastReq, truth>>
    BY <1>1, <2>1, SilentReported
  <2>2. CASE \E raw, c : \E x \in Facts \cup {Accident} :
               /\ Hears(raw, c, x)
               /\ Emit(Build(raw, c.direction, TRUE))
               /\ truth' = Append(truth, x)
    <3>1. TRUE \in BOOLEAN
      OBVIOUS
    <3> QED
      BY <1>1, <2>2, <3>1, EmitReported, Zenon
  <2> QED
    BY <1>1, <2>1, <2>2, DrainTells, Zenon
<1>4. OnTheWire'
  BY <1>1 DEF OnTheWire
<1>5. missed' = 0 => AllHeard'
  <2> SUFFICES ASSUME missed = 0 PROVE AllHeard'
    BY <1>1
  <2>1. call = "push" /\ \A i \in 1 .. Len(out) : HeardAt(i)
    BY <1>1 DEF AllHeard, Following
  <2>2. CASE coming # None
    <3>1. Arriving /\ coming \in Facts /\ gone \in 0 .. Len(BytesOf(coming)) - 1
      BY <1>1, <2>2 DEF AllHeard, Following, OnTheWire
    <3> PICK x \in Facts : x = coming
      BY <3>1
    <3> PICK g \in 0 .. Len(BytesOf(x)) - 1 : g = gone
      BY <3>1
    <3>2. buf = Prefix(BytesOf(x), g)
      BY <3>1 DEF Arriving
    <3>3. buf' = buf /\ call' = "none" /\ UNCHANGED <<pending, lastReq, out>>
      BY <1>1, <2>1, <3>2, PartWaits, Zenon
    <3>4. truth' = truth
      BY <3>3, Zenon DEF Drain
    <3>5. Arriving'
      BY <1>1, <3>1, <3>3 DEF Arriving, Due, Idle, Expecting
    <3>6. Following'
      BY <1>1, <2>2, <3>3, <3>5 DEF Following
    <3>7. \A i \in 1 .. Len(out') : HeardAt(i)'
      BY <2>1, <3>3, <3>4, Zenon DEF HeardAt
    <3> QED
      BY <3>6, <3>7, Zenon DEF AllHeard
  <2>3. CASE coming = None /\ Nothing
    <3>1. buf = <<>> /\ pending = 0
      BY <2>3 DEF Nothing
    <3>2. PICK k \in 0 .. Len(buf) : Pass(Drop(buf, k))
      BY <1>1 DEF DrainPass
    <3>3. Len(buf) = 0 /\ buf \in Seq(Byte) /\ k = 0
      BY <3>1, EmptySeq
    <3>4. Drop(buf, 0) = buf
      BY <3>3, CutAtEnds
    <3>5. NeedMore(buf) /\ ~(Len(buf) >= 4)
      BY <3>3 DEF NeedMore
    <3>6. ReturnFromPush(buf)
      <4>1. Pass(buf)
        BY <3>2, <3>3, <3>4
      <4>2. ~TakeValid(buf) /\ ~TakeGuess(buf) /\ ~DropByte(buf) /\ ~ReturnFromFinish(buf)
        BY <2>1, <3>5 DEF TakeValid, TakeGuess, DropByte, NoMessage, ReturnFromFinish
      <4> QED
        BY <4>1, <4>2, Zenon DEF Pass
    <3>7. buf' = buf /\ call' = "none" /\ UNCHANGED <<pending, lastReq, out>>
      BY <3>3, <3>6 DEF ReturnFromPush, MAX_BUFFER, MAX_RTU_LEN
    <3>8. truth' = truth
      BY <3>7, Zenon DEF Drain
    <3>9. Nothing'
      BY <1>1, <2>3, <3>7 DEF Nothing, Idle, Expecting
    <3>10. Following'
      BY <1>1, <2>3, <3>7, <3>9 DEF Following
    <3>11. \A i \in 1 .. Len(out') : HeardAt(i)'
      BY <2>1, <3>7, <3>8, Zenon DEF HeardAt
    <3> QED
      BY <3>10, <3>11, Zenon DEF AllHeard
  <2>4. CASE coming = None /\ Complete
    <3>1. pushed \in DOMAIN ends /\ ends[pushed] \in Facts
      BY <1>1, <2>4 DEF Complete, OnTheWire
    <3> PICK x \in Facts : x = ends[pushed]
      BY <3>1
    <3>2. /\ buf = BytesOf(x) /\ pending = x.frames /\ pending > 0 /\ Due(x)
          /\ asked = IF x.side = "Request" THEN x.of ELSE None
      BY <2>4 DEF Complete
    <3>3. PICK c : Hears(BytesOf(x), c, x) /\ Emit(Build(BytesOf(x), c.direction, TRUE))
      BY <1>1, <2>1, <3>2, WholeTold, Zenon
    <3>4. buf' = <<>> /\ pending' = 0 /\ call' = call
      BY <1>1, <2>1, <3>2, WholeTold, Zenon
    <3>5. truth' = Append(truth, x)
      <4> DEFINE m == Build(BytesOf(x), c.direction, TRUE)
      <4>1. out \in Seq(Message) /\ Len(out) \in Nat
        BY <1>1, LenProperties DEF TypeOK
      <4>2. out' = Append(out, m) /\ m.raw = BytesOf(x)
        BY <3>3 DEF Emit, Build
      <4> HIDE DEF m
      <4>3. Len(out') = Len(out) + 1 /\ out'[Len(out) + 1] = m
        <5>1. out \in Seq(Message \cup {m}) /\ m \in Message \cup {m}
          BY <4>1
        <5> QED
          BY <4>2, <5>1, AppendProperties
      <4>4. out' # out /\ out'[Len(out')].raw = BytesOf(x)
        BY <4>1, <4>2, <4>3
      <4>5. pushed - Len(buf') = pushed
        BY <1>1, <3>4 DEF OnTheWire
      <4>6. TruthOf(BytesOf(x), pushed) = x
        BY <3>1 DEF TruthOf
      <4>7. truth' = Append(truth, TruthOf(out'[Len(out')].raw, pushed - Len(buf')))
        BY <4>4, Zenon DEF Drain
      <4> QED
        BY <4>4, <4>5, <4>6, <4>7
    <3>6. FramesReported = x.frames
      BY <3>2 DEF FramesReported
    <3>7. call' \in {"none", "push"} /\ coming' = None /\ TRUE \in BOOLEAN
          /\ asked' = IF x.side = "Request" THEN x.of ELSE None
      BY <1>1, <2>1, <2>4, <3>2, <3>4
    <3> QED
      BY <1>1, <2>1, <3>2, <3>3, <3>4, <3>5, <3>6, <3>7, ToldWhole, Zenon
  <2> QED
    BY <1>1, <2>2, <2>3, <2>4 DEF AllHeard, Following
<1> QED
  BY <1>1, <1>2, <1>3, <1>4, <1>5 DEF XInv

LEMMA ExchangeNextHolds == XInv /\ [ExchangeNext]_exchangeVars => XInv'
<1> SUFFICES ASSUME XInv, [ExchangeNext]_exchangeVars PROVE XInv'
  OBVIOUS
<1>1. ASSUME NEW t \in Transactions, Ask(t) PROVE XInv'
  <2>1. "Request" \in Sides /\ Transmit(t, "Request") /\ asked = None
    BY <1>1 DEF Ask, Sides
  <2> QED
    BY <2>1, TransmitStep
<1>2. CASE Answer
  <2>1. "Response" \in Sides /\ Transmit(asked, "Response") /\ asked \in Transactions
    BY <1>2 DEF Answer, Sides, XInv, OnTheWire
  <2> PICK t \in Transactions : t = asked
    BY <2>1
  <2>2. Transmit(t, "Response")
    BY <2>1
  <2> QED
    BY <2>1, <2>2, TransmitStep
<1>3. CASE Timeout
  BY <1>3, TimeoutStep
<1>4. CASE FrameArrives
  BY <1>4, FrameArrivesStep
<1>5. CASE FrameMissed
  BY <1>5, FrameMissedStep
<1>6. CASE Drain
  BY <1>6, ReassembleStep
<1>7. CASE UNCHANGED exchangeVars
  <2>1. UNCHANGED <<buf, pending, lastReq, call, out, residue,
                    asked, coming, gone, pushed, ends, truth, turns, missed>>
    BY <1>7 DEF exchangeVars
  <2>2. IInv'
    BY <2>1, NextHolds, Zenon DEF vars, XInv
  <2>3. Reported'
    BY <2>1, SilentReported DEF XInv
  <2>4. OnTheWire'
    BY <2>1 DEF XInv, OnTheWire
  <2>5. AllHeard => AllHeard'
    <3>1. Following => Following'
      BY <2>1 DEF Following, Arriving, Nothing, Complete, Due, Idle, Expecting
    <3> QED
      BY <2>1, <3>1, Zenon DEF AllHeard, HeardAt
  <2> QED
    BY <2>1, <2>2, <2>3, <2>4, <2>5 DEF XInv
<1> QED
  BY <1>1, <1>2, <1>3, <1>4, <1>5, <1>6, <1>7 DEF ExchangeNext

LEMMA ExchangeInvariance == ExchangeSpec => []XInv
  BY ExchangeInitHolds, ExchangeNextHolds, PTL DEF ExchangeSpec

-----------------------------------------------------------------------------
\* For every set of transactions, however frames are cut and whatever is
\* missed: a response heard right after its own request is paired with it, and
\* nothing that was outstanding before shows through.
THEOREM ResponsesArePaired == ExchangeSpec => []PairingRecovers
<1>1. XInv => PairingRecovers
  BY Zenon DEF XInv, Reported, PairedAt, PairingRecovers
<1> QED
  BY <1>1, ExchangeInvariance, PTL

\* As long as everything is heard, every message is told from the side that
\* sent it and in as many frames as brought it; when something was missed, only
\* writes of one register are mistaken, and a request among them only until a
\* request of another function is heard.
THEOREM SidesAreTrue == ExchangeSpec => []SidesTrue
<1>1. XInv => SidesTrue
  <2> SUFFICES ASSUME XInv PROVE SidesTrue
    OBVIOUS
  <2>1. missed = 0 =>
          \A i \in 1 .. Len(out) :
            out[i].direction = ReportedSide(truth[i]) /\ out[i].frame_count = truth[i].frames
    BY Zenon DEF XInv, AllHeard, HeardAt
  <2>2. \A i \in 1 .. Len(out) :
          truth[i] # Accident /\ out[i].direction # ReportedSide(truth[i]) =>
            /\ out[i].function \in WriteSingle
            /\ truth[i].side = "Request" =>
                 \E j \in 1 .. i - 1 :
                   /\ out[j].function = out[i].function
                   /\ \A k \in j + 1 .. i - 1 : truth[k].side # "Request"
    BY Zenon DEF XInv, Reported, SideClear
  <2> QED
    BY <2>1, <2>2, Zenon DEF SidesTrue
<1> QED
  BY <1>1, ExchangeInvariance, PTL

\* The lengths of messages are what their headers declare here too, where
\* messages framed elsewhere and messages cut into frames share one instance.
THEOREM ExchangedLengthsAreDeclared == ExchangeSpec => []LengthDeclared
<1>1. XInv => LengthDeclared
  BY DEF XInv, IInv
<1> QED
  BY <1>1, ExchangeInvariance, PTL
=============================================================================
