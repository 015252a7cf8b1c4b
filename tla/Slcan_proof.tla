----------------------------- MODULE Slcan_proof -----------------------------
(***************************************************************************)
(* Proofs about the SLCAN port, for every set of frames and answers, every *)
(* way a device ends its lines, every text without a meaning and any number *)
(* of refusals and stray characters: what is read is what is due.          *)
(***************************************************************************)
EXTENDS Slcan, SequenceTheorems, TLAPS

\* The letters of a line. They are strings all, which the provers do not know.
Letter == STRING \cup HexDigits \cup DOMAIN Flags \cup {"CR", "LF", "BELL", "other"}

-----------------------------------------------------------------------------
(* Hexadecimal digits.                                                     *)

LEMMA DigitTable ==
  /\ Digit[0] = "0" /\ Digit[1] = "1" /\ Digit[2] = "2" /\ Digit[3] = "3"
  /\ Digit[4] = "4" /\ Digit[5] = "5" /\ Digit[6] = "6" /\ Digit[7] = "7"
  /\ Digit[8] = "8" /\ Digit[9] = "9" /\ Digit[10] = "A" /\ Digit[11] = "B"
  /\ Digit[12] = "C" /\ Digit[13] = "D" /\ Digit[14] = "E" /\ Digit[15] = "F"
BY DEF Digit, Upper

LEMMA LowerTable ==
  /\ Lower[1] = "a" /\ Lower[2] = "b" /\ Lower[3] = "c"
  /\ Lower[4] = "d" /\ Lower[5] = "e" /\ Lower[6] = "f"
BY DEF Lower

LEMMA Sixteen ==
  \A n \in 0 .. 15 :
    n = 0 \/ n = 1 \/ n = 2 \/ n = 3 \/ n = 4 \/ n = 5 \/ n = 6 \/ n = 7 \/ n = 8 \/ n = 9
      \/ n = 10 \/ n = 11 \/ n = 12 \/ n = 13 \/ n = 14 \/ n = 15
OBVIOUS

\* A digit is a letter of a line, stands for itself, and no digit is a sign.
LEMMA DigitLetters ==
  ASSUME NEW n \in 0 .. 15
  PROVE  /\ Digit[n] \in Letter /\ Digit[n] \in HexDigits /\ Printable(Digit[n]) /\ Digit[n] # "+"
         /\ DigitValue[Digit[n]] = n
<1> DEFINE Sign(m) == Digit[m]
           Small(m) == Lower[IF m > 9 THEN m - 9 ELSE 1]
<1>1. /\ Sign(0) = "0" /\ Sign(1) = "1" /\ Sign(2) = "2" /\ Sign(3) = "3"
      /\ Sign(4) = "4" /\ Sign(5) = "5" /\ Sign(6) = "6" /\ Sign(7) = "7"
      /\ Sign(8) = "8" /\ Sign(9) = "9" /\ Sign(10) = "A" /\ Sign(11) = "B"
      /\ Sign(12) = "C" /\ Sign(13) = "D" /\ Sign(14) = "E" /\ Sign(15) = "F"
  BY DigitTable
<1>2. /\ Small(10) = "a" /\ Small(11) = "b" /\ Small(12) = "c"
      /\ Small(13) = "d" /\ Small(14) = "e" /\ Small(15) = "f"
  BY LowerTable
<1>3. Sign(n) \in HexDigits
  <2>1. Sign(n) = Upper[n + 1] /\ n + 1 \in DOMAIN Upper
    BY DEF Digit, Upper
  <2> QED
    BY <2>1 DEF HexDigits, ToSet
<1> HIDE DEF Sign, Small
<1>4. /\ Sign(n) # "+"
      /\ Sign(n) # "CR" /\ Sign(n) # "LF" /\ Sign(n) # "BELL" /\ Sign(n) # "other"
  BY <1>1, Sixteen
<1>5. \A m \in 0 .. 15 : Sign(m) = Sign(n) => m = n
  <2> SUFFICES ASSUME NEW m \in 0 .. 15, Sign(m) = Sign(n) PROVE m = n
    OBVIOUS
  <2> QED
    BY <1>1, Sixteen
<1>6. \A m \in 0 .. 15 : m > 9 => Small(m) # Sign(n)
  <2> SUFFICES ASSUME NEW m \in 0 .. 15, m > 9 PROVE Small(m) # Sign(n)
    OBVIOUS
  <2> QED
    BY <1>1, <1>2, Sixteen
<1>7. DigitValue[Sign(n)] = CHOOSE m \in 0 .. 15 : Sign(m) = Sign(n) \/ (m > 9 /\ Small(m) = Sign(n))
  BY <1>3 DEF DigitValue, Sign, Small
<1>8. DigitValue[Sign(n)] = n
  BY <1>5, <1>6, <1>7
<1> QED
  BY <1>3, <1>4, <1>8 DEF Sign, Printable, Letter

-----------------------------------------------------------------------------
(* Sequences.                                                              *)

LEMMA FunctionsAreSequences ==
  ASSUME NEW S, NEW n \in Nat, NEW s \in [1 .. n -> S]
  PROVE  s \in Seq(S) /\ Len(s) = n
<1>1. s \in Seq(S)
  BY SeqDef
<1>2. DOMAIN s = 1 .. Len(s) /\ DOMAIN s = 1 .. n /\ Len(s) \in Nat
  BY <1>1, LenProperties
<1> QED
  BY <1>1, <1>2

\* A stretch of a sequence.
LEMMA Stretch ==
  ASSUME NEW S, NEW s \in Seq(S), NEW m \in Nat \ {0}, NEW n \in Nat, n <= Len(s), m <= n + 1
  PROVE  /\ n - m + 1 \in Nat
         /\ SubSeq(s, m, n) \in Seq(S) /\ Len(SubSeq(s, m, n)) = n - m + 1
         /\ \A i \in 1 .. n - m + 1 : SubSeq(s, m, n)[i] = s[m + i - 1]
<1>1. \A i \in m .. n : s[i] \in S
  BY LenProperties, ElementOfSeq
<1>2. m \in Int /\ n \in Int
  OBVIOUS
<1>3. /\ SubSeq(s, m, n) \in Seq(S)
      /\ Len(SubSeq(s, m, n)) = IF m <= n THEN n - m + 1 ELSE 0
      /\ \A i \in 1 .. n - m + 1 : SubSeq(s, m, n)[i] = s[m + i - 1]
  BY <1>1, <1>2, SubSeqProperties
<1>4. n - m + 1 \in Nat /\ (IF m <= n THEN n - m + 1 ELSE 0) = n - m + 1
  OBVIOUS
<1> QED
  BY <1>3, <1>4
-----------------------------------------------------------------------------
(* The line of a frame.                                                    *)

LEMMA FlagsTable ==
  /\ DOMAIN Flags = {"t", "T", "r", "R", "d", "D", "b", "B"}
  /\ Flags["t"] = [extended |-> FALSE, rtr |-> FALSE, fd |-> FALSE, brs |-> FALSE]
  /\ Flags["T"] = [extended |-> TRUE, rtr |-> FALSE, fd |-> FALSE, brs |-> FALSE]
  /\ Flags["r"] = [extended |-> FALSE, rtr |-> TRUE, fd |-> FALSE, brs |-> FALSE]
  /\ Flags["R"] = [extended |-> TRUE, rtr |-> TRUE, fd |-> FALSE, brs |-> FALSE]
  /\ Flags["d"] = [extended |-> FALSE, rtr |-> FALSE, fd |-> TRUE, brs |-> FALSE]
  /\ Flags["D"] = [extended |-> TRUE, rtr |-> FALSE, fd |-> TRUE, brs |-> FALSE]
  /\ Flags["b"] = [extended |-> FALSE, rtr |-> FALSE, fd |-> TRUE, brs |-> TRUE]
  /\ Flags["B"] = [extended |-> TRUE, rtr |-> FALSE, fd |-> TRUE, brs |-> TRUE]
<1>1. /\ DOMAIN Flags = {"t", "T", "r", "R", "d", "D", "b", "B"}
      /\ \A c \in DOMAIN Flags :
           Flags[c] = [extended |-> c \in {"T", "R", "D", "B"}, rtr |-> c \in {"r", "R"},
                       fd |-> c \in {"d", "D", "b", "B"}, brs |-> c \in {"b", "B"}]
  BY DEF Flags
<1>2. Flags["t"] = [extended |-> FALSE, rtr |-> FALSE, fd |-> FALSE, brs |-> FALSE]
  <2>1. /\ ("t" \in {"T", "R", "D", "B"}) = FALSE
        /\ ("t" \in {"r", "R"}) = FALSE
        /\ ("t" \in {"d", "D", "b", "B"}) = FALSE
        /\ ("t" \in {"b", "B"}) = FALSE
    OBVIOUS
  <2> QED
    BY <1>1, <2>1
<1>3. Flags["T"] = [extended |-> TRUE, rtr |-> FALSE, fd |-> FALSE, brs |-> FALSE]
  <2>1. /\ ("T" \in {"T", "R", "D", "B"}) = TRUE
        /\ ("T" \in {"r", "R"}) = FALSE
        /\ ("T" \in {"d", "D", "b", "B"}) = FALSE
        /\ ("T" \in {"b", "B"}) = FALSE
    OBVIOUS
  <2> QED
    BY <1>1, <2>1
<1>4. Flags["r"] = [extended |-> FALSE, rtr |-> TRUE, fd |-> FALSE, brs |-> FALSE]
  <2>1. /\ ("r" \in {"T", "R", "D", "B"}) = FALSE
        /\ ("r" \in {"r", "R"}) = TRUE
        /\ ("r" \in {"d", "D", "b", "B"}) = FALSE
        /\ ("r" \in {"b", "B"}) = FALSE
    OBVIOUS
  <2> QED
    BY <1>1, <2>1
<1>5. Flags["R"] = [extended |-> TRUE, rtr |-> TRUE, fd |-> FALSE, brs |-> FALSE]
  <2>1. /\ ("R" \in {"T", "R", "D", "B"}) = TRUE
        /\ ("R" \in {"r", "R"}) = TRUE
        /\ ("R" \in {"d", "D", "b", "B"}) = FALSE
        /\ ("R" \in {"b", "B"}) = FALSE
    OBVIOUS
  <2> QED
    BY <1>1, <2>1
<1>6. Flags["d"] = [extended |-> FALSE, rtr |-> FALSE, fd |-> TRUE, brs |-> FALSE]
  <2>1. /\ ("d" \in {"T", "R", "D", "B"}) = FALSE
        /\ ("d" \in {"r", "R"}) = FALSE
        /\ ("d" \in {"d", "D", "b", "B"}) = TRUE
        /\ ("d" \in {"b", "B"}) = FALSE
    OBVIOUS
  <2> QED
    BY <1>1, <2>1
<1>7. Flags["D"] = [extended |-> TRUE, rtr |-> FALSE, fd |-> TRUE, brs |-> FALSE]
  <2>1. /\ ("D" \in {"T", "R", "D", "B"}) = TRUE
        /\ ("D" \in {"r", "R"}) = FALSE
        /\ ("D" \in {"d", "D", "b", "B"}) = TRUE
        /\ ("D" \in {"b", "B"}) = FALSE
    OBVIOUS
  <2> QED
    BY <1>1, <2>1
<1>8. Flags["b"] = [extended |-> FALSE, rtr |-> FALSE, fd |-> TRUE, brs |-> TRUE]
  <2>1. /\ ("b" \in {"T", "R", "D", "B"}) = FALSE
        /\ ("b" \in {"r", "R"}) = FALSE
        /\ ("b" \in {"d", "D", "b", "B"}) = TRUE
        /\ ("b" \in {"b", "B"}) = TRUE
    OBVIOUS
  <2> QED
    BY <1>1, <2>1
<1>9. Flags["B"] = [extended |-> TRUE, rtr |-> FALSE, fd |-> TRUE, brs |-> TRUE]
  <2>1. /\ ("B" \in {"T", "R", "D", "B"}) = TRUE
        /\ ("B" \in {"r", "R"}) = FALSE
        /\ ("B" \in {"d", "D", "b", "B"}) = TRUE
        /\ ("B" \in {"b", "B"}) = TRUE
    OBVIOUS
  <2> QED
    BY <1>1, <2>1
<1> QED
  BY <1>1, <1>2, <1>3, <1>4, <1>5, <1>6, <1>7, <1>8, <1>9

\* Each of the flags a frame may have has a prefix.
LEMMA PrefixReads ==
  ASSUME NEW f \in BusFrame
  PROVE  LET c == Prefix(f) IN
         /\ c \in DOMAIN Flags /\ c \in Letter /\ Printable(c)
         /\ Flags[c].extended = f.extended /\ Flags[c].rtr = f.rtr /\ Flags[c].fd = f.fd
         /\ Flags[c].brs = (f.fd /\ f.brs)
<1> DEFINE fd == ~f.rtr /\ f.fd
           brs == ~f.rtr /\ f.fd /\ f.brs
           P(c) == Flags[c] = [extended |-> f.extended, rtr |-> f.rtr, fd |-> fd, brs |-> brs]
<1>1. /\ f.extended \in BOOLEAN /\ f.rtr \in BOOLEAN /\ f.fd \in BOOLEAN /\ f.brs \in BOOLEAN
      /\ f.rtr => ~f.fd
  BY DEF BusFrame
<1>2. \E c \in DOMAIN Flags : P(c)
  <2>1. f.extended = TRUE \/ f.extended = FALSE
    BY <1>1
  <2>2. \/ f.rtr = TRUE /\ fd = FALSE /\ brs = FALSE
        \/ f.rtr = FALSE /\ fd = FALSE /\ brs = FALSE
        \/ f.rtr = FALSE /\ fd = TRUE /\ brs = FALSE
        \/ f.rtr = FALSE /\ fd = TRUE /\ brs = TRUE
    BY <1>1
  <2> HIDE DEF fd, brs
  <2>3. CASE f.extended = TRUE /\ f.rtr = TRUE /\ fd = FALSE /\ brs = FALSE
    <3>1. P("R")
      BY <2>3, FlagsTable
    <3> QED
      BY <3>1, FlagsTable
  <2>4. CASE f.extended = FALSE /\ f.rtr = TRUE /\ fd = FALSE /\ brs = FALSE
    <3>1. P("r")
      BY <2>4, FlagsTable
    <3> QED
      BY <3>1, FlagsTable
  <2>5. CASE f.extended = TRUE /\ f.rtr = FALSE /\ fd = FALSE /\ brs = FALSE
    <3>1. P("T")
      BY <2>5, FlagsTable
    <3> QED
      BY <3>1, FlagsTable
  <2>6. CASE f.extended = FALSE /\ f.rtr = FALSE /\ fd = FALSE /\ brs = FALSE
    <3>1. P("t")
      BY <2>6, FlagsTable
    <3> QED
      BY <3>1, FlagsTable
  <2>7. CASE f.extended = TRUE /\ f.rtr = FALSE /\ fd = TRUE /\ brs = FALSE
    <3>1. P("D")
      BY <2>7, FlagsTable
    <3> QED
      BY <3>1, FlagsTable
  <2>8. CASE f.extended = FALSE /\ f.rtr = FALSE /\ fd = TRUE /\ brs = FALSE
    <3>1. P("d")
      BY <2>8, FlagsTable
    <3> QED
      BY <3>1, FlagsTable
  <2>9. CASE f.extended = TRUE /\ f.rtr = FALSE /\ fd = TRUE /\ brs = TRUE
    <3>1. P("B")
      BY <2>9, FlagsTable
    <3> QED
      BY <3>1, FlagsTable
  <2>10. CASE f.extended = FALSE /\ f.rtr = FALSE /\ fd = TRUE /\ brs = TRUE
    <3>1. P("b")
      BY <2>10, FlagsTable
    <3> QED
      BY <3>1, FlagsTable
  <2> QED
    BY <2>1, <2>2, <2>3, <2>4, <2>5, <2>6, <2>7, <2>8, <2>9, <2>10
<1>3. Prefix(f) \in DOMAIN Flags /\ P(Prefix(f))
  <2>1. Prefix(f) = CHOOSE c \in DOMAIN Flags : P(c)
    BY DEF Prefix
  <2> HIDE DEF P
  <2> QED
    BY <1>2, <2>1
<1> PICK c \in DOMAIN Flags : c = Prefix(f)
  BY <1>3
<1>4. Printable(c)
  BY FlagsTable DEF Printable
<1>5. /\ Flags[c].extended = f.extended /\ Flags[c].rtr = f.rtr
      /\ Flags[c].fd = fd /\ Flags[c].brs = brs
  BY <1>3
<1>6. fd = f.fd /\ brs = (f.fd /\ f.brs)
  BY <1>1
<1> QED
  BY <1>4, <1>5, <1>6, Zenon DEF Letter

\* How long a payload is, and what is in it.
LEMMA DlcLengths ==
  /\ \A c \in 0 .. 8 : FD_DLC_LEN[c] = c
  /\ FD_DLC_LEN[9] = 12 /\ FD_DLC_LEN[10] = 16 /\ FD_DLC_LEN[11] = 20 /\ FD_DLC_LEN[12] = 24
  /\ FD_DLC_LEN[13] = 32 /\ FD_DLC_LEN[14] = 48 /\ FD_DLC_LEN[15] = 64
BY DEF FD_DLC_LEN

LEMMA PayloadOfFrame ==
  ASSUME NEW f \in BusFrame
  PROVE  LET n == PayloadLen(f.rtr, f.dlc, f.fd) IN
         /\ n \in Nat /\ f.dlc \in 0 .. 15 /\ f.dlc % 16 = f.dlc
         /\ Padded(f) \in Seq(0 .. 255) /\ Len(Padded(f)) = n
<1> DEFINE n == PayloadLen(f.rtr, f.dlc, f.fd)
<1>1. f.dlc \in 0 .. 15 /\ f.dlc % 16 = f.dlc /\ f.data \in Seq(0 .. 255)
  BY DEF BusFrame
<1>2. n \in Nat
  <2>1. FD_DLC_LEN[f.dlc] \in Nat
    <3> PICK d \in 0 .. 15 : d = f.dlc
      BY <1>1
    <3>1. d \in 0 .. 8 \/ d = 9 \/ d = 10 \/ d = 11 \/ d = 12 \/ d = 13 \/ d = 14 \/ d = 15
      OBVIOUS
    <3>2. FD_DLC_LEN[d] \in Nat
      BY <3>1, DlcLengths
    <3> QED
      BY <3>2
  <2>2. n = 0 \/ n = 8 \/ n = FD_DLC_LEN[f.dlc]
    BY <1>1, Zenon DEF PayloadLen, DlcToLen
  <2> QED
    BY <2>1, <2>2
<1> HIDE DEF n
<1>3. Padded(f) = [i \in 1 .. n |-> IF i <= Len(f.data) THEN f.data[i] ELSE 0]
  BY DEF Padded, n
<1>4. ASSUME NEW i \in 1 .. n PROVE (IF i <= Len(f.data) THEN f.data[i] ELSE 0) \in 0 .. 255
  <2>1. CASE i <= Len(f.data)
    <3>1. i \in 1 .. Len(f.data)
      BY <1>1, <1>2, <2>1, LenProperties
    <3>2. PICK ds \in Seq(0 .. 255) : ds = f.data
      BY <1>1
    <3>3. ds[i] \in 0 .. 255
      BY <3>1, <3>2, ElementOfSeq
    <3> QED
      BY <2>1, <3>2, <3>3, Zenon
  <2> QED
    BY <2>1
<1>5. Padded(f) \in [1 .. n -> 0 .. 255]
  BY <1>3, <1>4
<1>6. Padded(f) \in Seq(0 .. 255) /\ Len(Padded(f)) = n
  BY <1>2, <1>5, FunctionsAreSequences
<1> QED
  BY <1>1, <1>2, <1>6 DEF n

LEMMA IdOfFrame ==
  ASSUME NEW f \in BusFrame
  PROVE  IdDigits(f) \in Seq(0 .. 15) /\ Len(IdDigits(f)) = IF f.extended THEN 8 ELSE 3
<1>1. f.arb_id \in Seq(0 .. 15) /\ Len(f.arb_id) = 8 /\ f.extended \in BOOLEAN
  BY DEF BusFrame
<1>2. \A i \in 1 .. 8 : f.arb_id[i] \in 0 .. 15
  BY <1>1, ElementOfSeq
<1>3. CASE f.extended
  <2>1. /\ SubSeq(f.arb_id, 2, 8) \in Seq(0 .. 15) /\ Len(SubSeq(f.arb_id, 2, 8)) = 7
    <3>1. 2 \in Nat \ {0} /\ 8 \in Nat /\ 8 <= Len(f.arb_id) /\ 2 <= 8 + 1 /\ 8 - 2 + 1 = 7
      BY <1>1
    <3> QED
      BY <1>1, <3>1, Stretch, SMTT(20)
  <2>2. f.arb_id[1] % 2 \in 0 .. 15
    <3> PICK d \in 0 .. 15 : d = f.arb_id[1]
      BY <1>2
    <3> QED
      OBVIOUS
  <2>3. <<f.arb_id[1] % 2>> \in Seq(0 .. 15) /\ Len(<<f.arb_id[1] % 2>>) = 1
    BY <2>2
  <2>4. /\ <<f.arb_id[1] % 2>> \o SubSeq(f.arb_id, 2, 8) \in Seq(0 .. 15)
        /\ Len(<<f.arb_id[1] % 2>> \o SubSeq(f.arb_id, 2, 8)) = 1 + 7
    BY <2>1, <2>3, ConcatProperties
  <2>5. IdDigits(f) = <<f.arb_id[1] % 2>> \o SubSeq(f.arb_id, 2, 8)
    BY <1>3 DEF IdDigits
  <2> QED
    BY <1>3, <2>4, <2>5
<1>4. CASE ~f.extended
  <2>1. f.arb_id[6] % 8 \in 0 .. 15 /\ f.arb_id[7] \in 0 .. 15 /\ f.arb_id[8] \in 0 .. 15
    <3> PICK d \in 0 .. 15 : d = f.arb_id[6]
      BY <1>2
    <3> QED
      BY <1>2
  <2>2. IdDigits(f) = <<f.arb_id[6] % 8, f.arb_id[7], f.arb_id[8]>>
    BY <1>4 DEF IdDigits
  <2> QED
    BY <1>4, <2>1, <2>2
<1> QED
  BY <1>1, <1>3, <1>4

\* What digits are written as, and read back as.
LEMMA LettersOfDigits ==
  ASSUME NEW ds \in Seq(0 .. 15)
  PROVE  /\ Letters(ds) \in Seq(Letter) /\ Len(Letters(ds)) = Len(ds)
         /\ \A i \in 1 .. Len(ds) : Letters(ds)[i] = Digit[ds[i]]
<1>1. Len(ds) \in Nat
  BY LenProperties
<1>2. Letters(ds) = [i \in 1 .. Len(ds) |-> Digit[ds[i]]]
  BY DEF Letters
<1>3. ASSUME NEW i \in 1 .. Len(ds) PROVE Digit[ds[i]] \in Letter
  <2>1. ds[i] \in 0 .. 15
    BY ElementOfSeq
  <2> QED
    BY <2>1, DigitLetters
<1>4. Letters(ds) \in [1 .. Len(ds) -> Letter]
  BY <1>2, <1>3
<1> QED
  BY <1>1, <1>2, <1>4, FunctionsAreSequences

LEMMA DigitsRead ==
  ASSUME NEW ds \in Seq(0 .. 15), Len(ds) > 0
  PROVE  IsHex(Letters(ds)) /\ Digits(Letters(ds)) = ds
<1> PICK cs : cs = Letters(ds)
  OBVIOUS
<1>1. /\ cs \in Seq(Letter) /\ Len(cs) = Len(ds) /\ Len(ds) \in Nat
      /\ \A i \in 1 .. Len(ds) : cs[i] = Digit[ds[i]]
  BY LettersOfDigits, LenProperties
<1>2. ASSUME NEW i \in 1 .. Len(ds)
      PROVE  cs[i] \in HexDigits /\ cs[i] # "+" /\ DigitValue[cs[i]] = ds[i]
  <2>1. ds[i] \in 0 .. 15
    BY ElementOfSeq
  <2> QED
    BY <1>1, <2>1, DigitLetters
<1>3. Unsigned(cs) = cs
  <2>1. 1 \in 1 .. Len(ds)
    BY <1>1
  <2>2. cs[1] # "+"
    BY <1>2, <2>1
  <2> QED
    BY <2>2 DEF Unsigned
<1>4. cs # <<>>
  BY <1>1, EmptySeq
<1>5. IsHex(cs)
  BY <1>1, <1>2, <1>3, <1>4 DEF IsHex
<1>6. Digits(cs) = ds
  <2>1. Digits(cs) = [i \in 1 .. Len(ds) |-> DigitValue[cs[i]]]
    BY <1>1, <1>3 DEF Digits
  <2>2. Digits(cs) = [i \in 1 .. Len(ds) |-> ds[i]]
    BY <1>2, <2>1
  <2>3. ds = [i \in 1 .. Len(ds) |-> ds[i]]
    BY LenProperties
  <2> QED
    BY <2>2, <2>3
<1> QED
  BY <1>5, <1>6

LEMMA Nibbles ==
  \A b \in 0 .. 255 :
    b \div 16 \in 0 .. 15 /\ b % 16 \in 0 .. 15 /\ 16 * (b \div 16) + (b % 16) = b
OBVIOUS

LEMMA Doubled ==
  \A i \in Nat \ {0} : (2 * i) % 2 = 0 /\ (2 * i) \div 2 = i /\ (2 * i - 1) % 2 = 1
OBVIOUS

\* A byte is two digits.
LEMMA PairsOfBytes ==
  ASSUME NEW bs \in Seq(0 .. 255)
  PROVE  LET n == Len(bs) IN
         /\ n \in Nat
         /\ HexPairs(bs) \in Seq(Letter) /\ Len(HexPairs(bs)) = 2 * n
         /\ \A j \in 1 .. 2 * n : Printable(HexPairs(bs)[j])
         /\ \A i \in 1 .. n :
              /\ bs[i] \in 0 .. 255 /\ bs[i] \div 16 \in 0 .. 15 /\ bs[i] % 16 \in 0 .. 15
              /\ HexPairs(bs)[2 * i - 1] = Digit[bs[i] \div 16] /\ HexPairs(bs)[2 * i] = Digit[bs[i] % 16]
<1> PICK n \in Nat : n = Len(bs)
  BY LenProperties
<1> PICK h : h = HexPairs(bs)
  OBVIOUS
<1>1. h = [i \in 1 .. 2 * n |-> IF i % 2 = 1 THEN Digit[bs[(i + 1) \div 2] \div 16] ELSE Digit[bs[i \div 2] % 16]]
  BY DEF HexPairs
<1>2. ASSUME NEW i \in 1 .. n
      PROVE  bs[i] \in 0 .. 255 /\ bs[i] \div 16 \in 0 .. 15 /\ bs[i] % 16 \in 0 .. 15
  <2> PICK b \in 0 .. 255 : b = bs[i]
    BY ElementOfSeq
  <2>1. b \div 16 \in 0 .. 15 /\ b % 16 \in 0 .. 15
    BY Nibbles
  <2> QED
    BY <2>1
<1>3. ASSUME NEW j \in 1 .. 2 * n
      PROVE  h[j] \in Letter /\ Printable(h[j])
  <2>1. CASE j % 2 = 1
    <3> PICK i \in 1 .. n : i = (j + 1) \div 2
      BY <2>1
    <3>1. h[j] = Digit[bs[i] \div 16]
      BY <1>1, <2>1
    <3> QED
      BY <1>2, <3>1, DigitLetters
  <2>2. CASE j % 2 # 1
    <3> PICK i \in 1 .. n : i = j \div 2
      BY <2>2
    <3>1. h[j] = Digit[bs[i] % 16]
      BY <1>1, <2>2
    <3> QED
      BY <1>2, <3>1, DigitLetters
  <2> QED
    BY <2>1, <2>2
<1>4. 2 * n \in Nat
  OBVIOUS
<1>5. h \in [1 .. 2 * n -> Letter]
  BY <1>1, <1>3
<1>6. h \in Seq(Letter) /\ Len(h) = 2 * n
  BY <1>4, <1>5, FunctionsAreSequences
<1>7. ASSUME NEW i \in 1 .. n
      PROVE  h[2 * i - 1] = Digit[bs[i] \div 16] /\ h[2 * i] = Digit[bs[i] % 16]
  <2> PICK j \in Int : j = 2 * i - 1
    OBVIOUS
  <2> PICK k \in Int : k = 2 * i
    OBVIOUS
  <2>1. j \in 1 .. 2 * n /\ k \in 1 .. 2 * n /\ j + 1 = k
    OBVIOUS
  <2>2. k % 2 = 0 /\ k \div 2 = i
    BY Doubled
  <2>3. j % 2 = 1
    BY Doubled
  <2>4. h[j] = Digit[bs[i] \div 16]
    BY <1>1, <2>1, <2>2, <2>3
  <2>5. h[k] = Digit[bs[i] % 16]
    BY <1>1, <2>1, <2>2
  <2> QED
    BY <2>4, <2>5
<1>8. HexPairs(bs) = h
  BY Zenon
<1>9. HexPairs(bs) \in Seq(Letter) /\ Len(HexPairs(bs)) = 2 * n
  BY <1>6, <1>8, Zenon
<1>10. \A j \in 1 .. 2 * n : HexPairs(bs)[j] \in Letter /\ Printable(HexPairs(bs)[j])
  BY <1>3, <1>8, Zenon
<1>11. \A i \in 1 .. n :
         /\ bs[i] \in 0 .. 255 /\ bs[i] \div 16 \in 0 .. 15 /\ bs[i] % 16 \in 0 .. 15
         /\ HexPairs(bs)[2 * i - 1] = Digit[bs[i] \div 16]
         /\ HexPairs(bs)[2 * i] = Digit[bs[i] % 16]
  BY <1>2, <1>7, <1>8, Zenon
<1> QED
  BY <1>9, <1>10, <1>11, Zenon

\* The letters of a line that is a frame, place by place.
LEMMA TextOfFrame ==
  ASSUME NEW f \in BusFrame, NEW n \in Nat, n = PayloadLen(f.rtr, f.dlc, f.fd),
         NEW w \in Nat, w = Len(IdDigits(f))
  PROVE  /\ FrameText(f) \in Seq(Letter) /\ Len(FrameText(f)) = w + 2 + 2 * n
         /\ FrameText(f)[1] = Prefix(f)
         /\ \A i \in 1 .. w : FrameText(f)[1 + i] = Letters(IdDigits(f))[i]
         /\ FrameText(f)[w + 2] = Digit[f.dlc]
         /\ \A j \in 1 .. 2 * n : FrameText(f)[w + 2 + j] = HexPairs(Padded(f))[j]
         /\ \A i \in 1 .. Len(FrameText(f)) : Printable(FrameText(f)[i])
<1> PICK t : t = FrameText(f)
  OBVIOUS
<1> PICK a : a = <<Prefix(f)>>
  OBVIOUS
<1> PICK b : b = Letters(IdDigits(f))
  OBVIOUS
<1> PICK c : c = <<Digit[f.dlc % 16]>>
  OBVIOUS
<1> PICK h : h = HexPairs(Padded(f))
  OBVIOUS
<1>1. /\ f.dlc \in 0 .. 15 /\ f.dlc % 16 = f.dlc
      /\ Padded(f) \in Seq(0 .. 255) /\ Len(Padded(f)) = n
  BY PayloadOfFrame
<1>2. /\ IdDigits(f) \in Seq(0 .. 15)
      /\ b \in Seq(Letter) /\ Len(b) = w /\ \A i \in 1 .. w : b[i] = Digit[IdDigits(f)[i]]
  <2>1. IdDigits(f) \in Seq(0 .. 15)
    BY IdOfFrame
  <2> QED
    BY <2>1, LettersOfDigits
<1>3. a \in Seq(Letter) /\ Len(a) = 1 /\ a[1] = Prefix(f) /\ Printable(a[1])
  BY PrefixReads
<1>4. c \in Seq(Letter) /\ Len(c) = 1 /\ c[1] = Digit[f.dlc] /\ Printable(c[1])
  <2>1. Digit[f.dlc] \in Letter /\ Printable(Digit[f.dlc])
    BY <1>1, DigitLetters
  <2> QED
    BY <1>1, <2>1
<1>5. h \in Seq(Letter) /\ Len(h) = 2 * n /\ \A j \in 1 .. 2 * n : Printable(h[j])
  BY <1>1, PairsOfBytes
<1>6. t = ((a \o b) \o c) \o h
  BY DEF FrameText
<1>7. ASSUME NEW i \in 1 .. w PROVE Printable(b[i])
  <2>1. IdDigits(f)[i] \in 0 .. 15
    BY <1>2, ElementOfSeq
  <2> QED
    BY <1>2, <2>1, DigitLetters
<1> PICK ab : ab = a \o b
  OBVIOUS
<1> PICK abc : abc = ab \o c
  OBVIOUS
<1>8. /\ ab \in Seq(Letter) /\ Len(ab) = 1 + w
      /\ \A i \in 1 .. 1 + w : ab[i] = IF i <= 1 THEN a[i] ELSE b[i - 1]
  BY <1>2, <1>3, ConcatProperties
<1>9. /\ abc \in Seq(Letter) /\ Len(abc) = 1 + w + 1
      /\ \A i \in 1 .. 1 + w + 1 : abc[i] = IF i <= 1 + w THEN ab[i] ELSE c[i - (1 + w)]
  BY <1>4, <1>8, ConcatProperties
<1>10. /\ t \in Seq(Letter) /\ Len(t) = 1 + w + 1 + 2 * n
       /\ \A i \in 1 .. 1 + w + 1 + 2 * n :
            t[i] = IF i <= 1 + w + 1 THEN abc[i] ELSE h[i - (1 + w + 1)]
  <2>1. t = abc \o h
    BY <1>6
  <2> QED
    BY <1>5, <1>9, <2>1, ConcatProperties, SMTT(20)
<1>11. Len(t) = w + 2 + 2 * n
  BY <1>10
<1>12. t[1] = a[1]
  BY <1>8, <1>9, <1>10
<1>13. ASSUME NEW i \in 1 .. w PROVE t[1 + i] = b[i]
  <2>1. /\ 1 + i \in 1 .. 1 + w /\ 1 + i \in 1 .. 1 + w + 1 /\ 1 + i \in 1 .. 1 + w + 1 + 2 * n
        /\ 1 + i <= 1 + w + 1 /\ 1 + i <= 1 + w /\ ~(1 + i <= 1) /\ 1 + i - 1 = i
    OBVIOUS
  <2> QED
    BY <1>8, <1>9, <1>10, <2>1, SMTT(20)
<1>14. t[w + 2] = c[1]
  <2>1. /\ w + 2 \in 1 .. 1 + w + 1 /\ w + 2 \in 1 .. 1 + w + 1 + 2 * n
        /\ w + 2 <= 1 + w + 1 /\ ~(w + 2 <= 1 + w) /\ w + 2 - (1 + w) = 1
    OBVIOUS
  <2> QED
    BY <1>9, <1>10, <2>1, SMTT(20)
<1>15. ASSUME NEW j \in 1 .. 2 * n PROVE t[w + 2 + j] = h[j]
  <2>1. /\ w + 2 + j \in 1 .. 1 + w + 1 + 2 * n
        /\ ~(w + 2 + j <= 1 + w + 1) /\ w + 2 + j - (1 + w + 1) = j
    OBVIOUS
  <2> QED
    BY <1>10, <2>1, SMTT(20)
<1>16. ASSUME NEW i \in 1 .. Len(t) PROVE Printable(t[i])
  <2>1. CASE i = 1
    BY <1>3, <1>12, <2>1
  <2>2. CASE i \in 2 .. w + 1
    <3> PICK k \in 1 .. w : i = 1 + k
      BY <2>2
    <3> QED
      BY <1>7, <1>13
  <2>3. CASE i = w + 2
    BY <1>4, <1>14, <2>3
  <2>4. CASE i > w + 2
    <3>1. i - (w + 2) \in 1 .. 2 * n /\ i = w + 2 + (i - (w + 2))
      BY <1>11, <2>4
    <3> PICK j \in 1 .. 2 * n : i = w + 2 + j
      BY <3>1
    <3> QED
      BY <1>5, <1>15
  <2> QED
    BY <1>11, <2>1, <2>2, <2>3, <2>4
<1> QED
  BY <1>3, <1>4, <1>10, <1>11, <1>12, <1>13, <1>14, <1>15, <1>16

-----------------------------------------------------------------------------
(* Reading the line of a frame.                                            *)

LEMMA NothingToWiden ==
  ASSUME NEW S, NEW ds \in Seq(S), NEW n \in Nat, Len(ds) = n, 0 \in S
  PROVE  WidenTo(n, ds) = ds
<1>1. n - Len(ds) = 0
  OBVIOUS
<1>2. Zeros(0) = <<>>
  <2>1. Zeros(0) \in [1 .. 0 -> S]
    BY DEF Zeros
  <2>2. Zeros(0) \in Seq(S) /\ Len(Zeros(0)) = 0
    BY <2>1, FunctionsAreSequences
  <2> QED
    BY <2>2, EmptySeq
<1>3. WidenTo(n, ds) = <<>> \o ds
  BY <1>1, <1>2 DEF WidenTo
<1> QED
  BY <1>3, ConcatEmptySeq

\* The same, of the sizes of the frame itself.
LEMMA FrameShape ==
  ASSUME NEW f \in BusFrame
  PROVE  \E n \in Nat, w \in Nat :
           /\ n = PayloadLen(f.rtr, f.dlc, f.fd) /\ w = Len(IdDigits(f))
           /\ FrameText(f) \in Seq(Letter) /\ Len(FrameText(f)) = w + 2 + 2 * n
           /\ FrameText(f)[1] = Prefix(f)
           /\ \A i \in 1 .. w : FrameText(f)[1 + i] = Letters(IdDigits(f))[i]
           /\ FrameText(f)[w + 2] = Digit[f.dlc]
           /\ \A j \in 1 .. 2 * n : FrameText(f)[w + 2 + j] = HexPairs(Padded(f))[j]
<1>1. PayloadLen(f.rtr, f.dlc, f.fd) \in Nat
  BY PayloadOfFrame
<1>2. Len(IdDigits(f)) \in Nat
  BY IdOfFrame, LenProperties
<1> WITNESS PayloadLen(f.rtr, f.dlc, f.fd) \in Nat, Len(IdDigits(f)) \in Nat
<1> QED
  BY <1>1, <1>2, TextOfFrame, SMTT(60)

\* Two letters in a row, and the letters after the first.
LEMMA PairLetters ==
  ASSUME NEW t \in Seq(Letter), NEW w \in Nat, NEW n \in Nat, Len(t) = w + 2 + 2 * n, NEW i \in 1 .. n
  PROVE  LET p == SubSeq(t, w + 2 + 2 * i - 1, w + 2 + 2 * i) IN
         /\ p \in Seq(Letter) /\ Len(p) = 2
         /\ p[1] = t[w + 2 + (2 * i - 1)] /\ p[2] = t[w + 2 + 2 * i]
<1>1. PICK m \in Nat : m = w + 2 + 2 * i - 1
  OBVIOUS
<1>2. PICK k \in Nat : k = w + 2 + 2 * i
  OBVIOUS
<1>3. /\ m \in Nat \ {0} /\ k <= Len(t) /\ m <= k + 1 /\ k - m + 1 = 2 /\ m + 1 - 1 = m /\ m + 2 - 1 = k
      /\ w + 2 + (2 * i - 1) = m
  BY <1>1, <1>2
<1>4. /\ SubSeq(t, m, k) \in Seq(Letter) /\ Len(SubSeq(t, m, k)) = k - m + 1
      /\ \A j \in 1 .. k - m + 1 : SubSeq(t, m, k)[j] = t[m + j - 1]
  <2>1. m \in Nat \ {0} /\ k \in Nat /\ k <= Len(t) /\ m <= k + 1
    BY <1>3
  <2>2. SubSeq(t, m, k) \in Seq(Letter) /\ Len(SubSeq(t, m, k)) = k - m + 1
    BY <2>1, Stretch, SMTT(30)
  <2>3. \A j \in 1 .. k - m + 1 : SubSeq(t, m, k)[j] = t[m + j - 1]
    BY <2>1, Stretch, SMTT(30)
  <2> QED
    BY <2>2, <2>3, Zenon
<1>5. 1 \in 1 .. k - m + 1 /\ 2 \in 1 .. k - m + 1
  BY <1>3
<1>6. SubSeq(t, m, k)[1] = t[m + 1 - 1] /\ SubSeq(t, m, k)[2] = t[m + 2 - 1]
  BY <1>4, <1>5, Zenon
<1> QED
  BY <1>1, <1>2, <1>3, <1>4, <1>6, Zenon

LEMMA IdLetters ==
  ASSUME NEW t \in Seq(Letter), NEW w \in Nat, w + 1 <= Len(t),
         NEW s \in Seq(Letter), Len(s) = w, \A i \in 1 .. w : t[1 + i] = s[i]
  PROVE  SubSeq(t, 2, w + 1) = s
<1>1. PICK m \in Nat : m = w + 1
  OBVIOUS
<1>2. /\ 2 \in Nat \ {0} /\ m <= Len(t) /\ 2 <= m + 1 /\ m - 2 + 1 = w
  BY <1>1
<1>3. /\ SubSeq(t, 2, m) \in Seq(Letter) /\ Len(SubSeq(t, 2, m)) = m - 2 + 1
      /\ \A i \in 1 .. m - 2 + 1 : SubSeq(t, 2, m)[i] = t[2 + i - 1]
  BY <1>2, Stretch, SMTT(30)
<1>4. ASSUME NEW i \in 1 .. w PROVE SubSeq(t, 2, m)[i] = s[i]
  <2>1. 2 + i - 1 = 1 + i
    OBVIOUS
  <2>2. SubSeq(t, 2, m)[i] = t[2 + i - 1]
    BY <1>2, <1>3, Zenon
  <2> QED
    BY <2>1, <2>2, Zenon
<1>5. SubSeq(t, 2, m) = s
  BY <1>2, <1>3, <1>4, SeqEqual
<1> QED
  BY <1>1, <1>5

\* The two letters of a byte.
LEMMA PairReads ==
  ASSUME NEW f \in BusFrame, CodeAt(FrameText(f)) = Len(IdDigits(f)) + 2
  PROVE  \A i \in 1 .. PayloadLen(f.rtr, f.dlc, f.fd) :
           /\ IsHex(PairAt(FrameText(f), i))
           /\ WidenTo(2, Digits(PairAt(FrameText(f), i)))
                = <<Padded(f)[i] \div 16, Padded(f)[i] % 16>>
           /\ Padded(f)[i] \in 0 .. 255
<1>0. PICK n \in Nat, w \in Nat :
        /\ n = PayloadLen(f.rtr, f.dlc, f.fd) /\ w = Len(IdDigits(f))
        /\ FrameText(f) \in Seq(Letter) /\ Len(FrameText(f)) = w + 2 + 2 * n
        /\ \A j \in 1 .. 2 * n : FrameText(f)[w + 2 + j] = HexPairs(Padded(f))[j]
  BY FrameShape, Zenon
<1> PICK t : t = FrameText(f)
  OBVIOUS
<1> SUFFICES ASSUME NEW i \in 1 .. n
             PROVE  /\ IsHex(PairAt(t, i))
                    /\ WidenTo(2, Digits(PairAt(t, i)))
                         = <<Padded(f)[i] \div 16, Padded(f)[i] % 16>>
                    /\ Padded(f)[i] \in 0 .. 255
  BY <1>0, Zenon
<1>1. /\ t \in Seq(Letter) /\ Len(t) = w + 2 + 2 * n /\ CodeAt(t) = w + 2
      /\ \A j \in 1 .. 2 * n : t[w + 2 + j] = HexPairs(Padded(f))[j]
  BY <1>0, Zenon
<1>2. Padded(f) \in Seq(0 .. 255) /\ Len(Padded(f)) = n
  BY <1>0, PayloadOfFrame
<1> PICK b : b = Padded(f)[i]
  OBVIOUS
<1> PICK hi : hi = b \div 16
  OBVIOUS
<1> PICK lo : lo = b % 16
  OBVIOUS
<1>3. /\ b \in 0 .. 255 /\ hi \in 0 .. 15 /\ lo \in 0 .. 15
      /\ HexPairs(Padded(f))[2 * i - 1] = Digit[hi] /\ HexPairs(Padded(f))[2 * i] = Digit[lo]
  <2>1. PICK bs \in Seq(0 .. 255) : bs = Padded(f) /\ Len(bs) = n
    BY <1>2
  <2>2. /\ bs[i] \in 0 .. 255 /\ bs[i] \div 16 \in 0 .. 15 /\ bs[i] % 16 \in 0 .. 15
        /\ HexPairs(bs)[2 * i - 1] = Digit[bs[i] \div 16] /\ HexPairs(bs)[2 * i] = Digit[bs[i] % 16]
    BY <2>1, PairsOfBytes
  <2> QED
    BY <2>1, <2>2, Zenon
<1> PICK ds : ds = <<hi, lo>>
  OBVIOUS
<1>4. ds \in Seq(0 .. 15) /\ Len(ds) = 2 /\ ds[1] = hi /\ ds[2] = lo
  BY <1>3
<1> PICK p : p = PairAt(t, i)
  OBVIOUS
<1>5. p \in Seq(Letter) /\ Len(p) = 2 /\ p[1] = Digit[hi] /\ p[2] = Digit[lo]
  <2>1. p = SubSeq(t, w + 2 + 2 * i - 1, w + 2 + 2 * i)
    BY <1>1 DEF PairAt
  <2>2. /\ p \in Seq(Letter) /\ Len(p) = 2
        /\ p[1] = t[w + 2 + (2 * i - 1)] /\ p[2] = t[w + 2 + 2 * i]
    BY <1>1, <2>1, PairLetters, SMTT(30)
  <2>3. 2 * i - 1 \in 1 .. 2 * n /\ 2 * i \in 1 .. 2 * n
    OBVIOUS
  <2> QED
    BY <1>1, <1>3, <2>2, <2>3, Zenon
<1>6. p = Letters(ds)
  <2>1. /\ Letters(ds) \in Seq(Letter) /\ Len(Letters(ds)) = 2
        /\ \A j \in 1 .. 2 : Letters(ds)[j] = Digit[ds[j]]
    BY <1>4, LettersOfDigits
  <2>2. ASSUME NEW j \in 1 .. 2 PROVE p[j] = Letters(ds)[j]
    <3>1. j = 1 \/ j = 2
      OBVIOUS
    <3> QED
      BY <1>4, <1>5, <2>1, <3>1
  <2> QED
    BY <1>5, <2>1, <2>2, SeqEqual
<1>7. IsHex(p) /\ Digits(p) = ds
  <2>1. Len(ds) > 0
    BY <1>4
  <2> QED
    BY <1>4, <1>6, <2>1, DigitsRead
<1>8. WidenTo(2, ds) = ds
  <2>1. 0 \in 0 .. 15 /\ 2 \in Nat
    OBVIOUS
  <2> QED
    BY <1>4, <2>1, NothingToWiden
<1> QED
  BY <1>3, <1>7, <1>8

\* A line is read as the frame it was written for, as it is on the bus.
LEMMA FrameIsRead ==
  ASSUME NEW f \in BusFrame
  PROVE  LineOf(FrameText(f)) = FrameLine(AsOnTheBus(f))
<1>0. PICK n \in Nat, w \in Nat :
        /\ n = PayloadLen(f.rtr, f.dlc, f.fd) /\ w = Len(IdDigits(f))
        /\ FrameText(f) \in Seq(Letter) /\ Len(FrameText(f)) = w + 2 + 2 * n
        /\ FrameText(f)[1] = Prefix(f)
        /\ \A i \in 1 .. w : FrameText(f)[1 + i] = Letters(IdDigits(f))[i]
        /\ FrameText(f)[w + 2] = Digit[f.dlc]
  BY FrameShape, Zenon
<1> PICK t : t = FrameText(f)
  OBVIOUS
<1> PICK id \in Seq(0 .. 15) : id = IdDigits(f)
  BY IdOfFrame
<1>1. /\ t \in Seq(Letter) /\ Len(t) = w + 2 + 2 * n /\ w = Len(id)
      /\ t[1] = Prefix(f)
      /\ \A i \in 1 .. w : t[1 + i] = Letters(id)[i]
      /\ t[w + 2] = Digit[f.dlc]
  BY <1>0, Zenon
<1> PICK c : c = t[1]
  OBVIOUS
<1>2. /\ c \in DOMAIN Flags
      /\ Flags[c].extended = f.extended /\ Flags[c].rtr = f.rtr /\ Flags[c].fd = f.fd
      /\ Flags[c].brs = (f.fd /\ f.brs)
  BY <1>1, PrefixReads
<1>3. CodeAt(t) = w + 2
  <2>1. CodeAt(t) = IF f.extended THEN 10 ELSE 5
    BY <1>2 DEF CodeAt
  <2>2. w = IF f.extended THEN 8 ELSE 3
    BY <1>0, IdOfFrame
  <2> QED
    BY <2>1, <2>2
<1>4. w > 0
  <2>1. w = IF f.extended THEN 8 ELSE 3
    BY <1>0, IdOfFrame
  <2> QED
    BY <2>1
<1>5. SubSeq(t, 2, CodeAt(t) - 1) = Letters(id)
  <2>1. CodeAt(t) - 1 = w + 1 /\ w + 1 <= Len(t)
    BY <1>1, <1>3
  <2>2. Letters(id) \in Seq(Letter) /\ Len(Letters(id)) = w
    BY <1>1, LettersOfDigits
  <2>3. SubSeq(t, 2, w + 1) = Letters(id)
    BY <1>1, <2>1, <2>2, IdLetters, Zenon
  <2> QED
    BY <2>1, <2>3
<1>6. IsHex(SubSeq(t, 2, CodeAt(t) - 1)) /\ Digits(SubSeq(t, 2, CodeAt(t) - 1)) = id
  BY <1>1, <1>4, <1>5, DigitsRead
<1>7. f.dlc \in 0 .. 15 /\ (f.fd \/ f.dlc <= 8)
  BY DEF BusFrame
<1>8. t[CodeAt(t)] \in HexDigits /\ DigitValue[t[CodeAt(t)]] = f.dlc
  <2> PICK d \in 0 .. 15 : d = f.dlc
    BY <1>7
  <2>1. t[CodeAt(t)] = Digit[d]
    BY <1>1, <1>3
  <2> QED
    BY <2>1, DigitLetters
<1>9. \A i \in 1 .. n :
        /\ IsHex(PairAt(t, i)) /\ Padded(f)[i] \in 0 .. 255
        /\ WidenTo(2, Digits(PairAt(t, i))) = <<Padded(f)[i] \div 16, Padded(f)[i] % 16>>
  <2> SUFFICES ASSUME NEW i \in 1 .. n
               PROVE  /\ IsHex(PairAt(t, i)) /\ Padded(f)[i] \in 0 .. 255
                      /\ WidenTo(2, Digits(PairAt(t, i))) = <<Padded(f)[i] \div 16, Padded(f)[i] % 16>>
    OBVIOUS
  <2>1. w = Len(IdDigits(f))
    BY <1>0
  <2>2. CodeAt(FrameText(f)) = Len(IdDigits(f)) + 2
    BY <1>3, <2>1, Zenon
  <2>3. /\ IsHex(PairAt(FrameText(f), i))
        /\ WidenTo(2, Digits(PairAt(FrameText(f), i))) = <<Padded(f)[i] \div 16, Padded(f)[i] % 16>>
        /\ Padded(f)[i] \in 0 .. 255
    <3>1. i \in 1 .. PayloadLen(f.rtr, f.dlc, f.fd)
      BY <1>0, Zenon
    <3> QED
      BY <2>2, <3>1, PairReads, Zenon
  <2> QED
    BY <2>3, Zenon
<1> PICK flags : flags = Flags[c]
  OBVIOUS
<1> PICK dlc : dlc = DigitValue[t[CodeAt(t)]]
  OBVIOUS
<1>10. PayloadLen(flags.rtr, dlc, flags.fd) = n
  BY <1>0, <1>2, <1>8
<1>11. IsFrame(t)
  <2>1. t # <<>> /\ Len(t) >= CodeAt(t) /\ Len(t) >= CodeAt(t) + 2 * n
    <3>1. Len(t) # 0
      BY <1>1
    <3> QED
      BY <1>1, <1>3, <3>1, EmptySeq
  <2>2. flags.fd \/ dlc <= 8
    BY <1>2, <1>7, <1>8
  <2> QED
    BY <1>2, <1>6, <1>8, <1>9, <1>10, <2>1, <2>2 DEF IsFrame
<1>12. parse_frame(t) = AsOnTheBus(f)
  <2> DEFINE Value(i) == LET d == WidenTo(2, Digits(PairAt(t, i))) IN 16 * d[1] + d[2]
  <2>1. ASSUME NEW i \in 1 .. n PROVE Value(i) = Padded(f)[i]
    <3> PICK b \in 0 .. 255 : b = Padded(f)[i]
      BY <1>9
    <3>1. Value(i) = 16 * (b \div 16) + (b % 16)
      BY <1>9
    <3> QED
      BY <3>1, Nibbles
  <2> HIDE DEF Value
  <2>2. Padded(f) = [i \in 1 .. n |-> Padded(f)[i]]
    <3>1. Padded(f) \in Seq(0 .. 255) /\ Len(Padded(f)) = n
      BY <1>0, PayloadOfFrame
    <3> QED
      BY <3>1, LenProperties
  <2>3. [i \in 1 .. n |-> Value(i)] = Padded(f)
    BY <2>1, <2>2
  <2>4. parse_frame(t) =
          [arb_id |-> WidenTo(8, id), extended |-> flags.extended, rtr |-> flags.rtr,
           fd |-> flags.fd, brs |-> flags.brs, dlc |-> dlc, data |-> [i \in 1 .. n |-> Value(i)]]
    BY <1>6, <1>10, Zenon DEF parse_frame, Value
  <2>5. parse_frame(t) =
          [arb_id |-> WidenTo(8, id), extended |-> f.extended, rtr |-> f.rtr,
           fd |-> f.fd, brs |-> (f.fd /\ f.brs), dlc |-> f.dlc, data |-> Padded(f)]
    BY <1>2, <1>8, <2>3, <2>4, Zenon
  <2>6. AsOnTheBus(f) =
          [arb_id |-> WidenTo(8, id), extended |-> f.extended, rtr |-> f.rtr,
           fd |-> f.fd, brs |-> (f.fd /\ f.brs), dlc |-> f.dlc, data |-> Padded(f)]
    BY Zenon DEF AsOnTheBus
  <2> QED
    BY <2>5, <2>6
<1> QED
  BY <1>11, <1>12 DEF LineOf

-----------------------------------------------------------------------------
(* Remainders.                                                             *)

LEMMA Multiples ==
  ASSUME NEW m \in Nat \ {0}, NEW k \in Int, NEW a \in Int, a = m * k, -m < a, a <= m
  PROVE  k = 0 \/ k = 1
<1>1. CASE k >= 2
  <2>1. PICK j \in Nat : k = j + 2
    <3>1. k - 2 \in Nat /\ k = (k - 2) + 2
      BY <1>1
    <3> QED
      BY <3>1
  <2>2. a = m * j + 2 * m /\ m * j >= 0
    BY <2>1, SMTT(20)
  <2> QED
    BY <2>2
<1>2. CASE k <= -1
  <2>1. PICK j \in Nat : k = -1 - j
    <3>1. -1 - k \in Nat /\ k = -1 - (-1 - k)
      BY <1>2
    <3> QED
      BY <3>1
  <2>2. a = -m - m * j /\ m * j >= 0
    BY <2>1, SMTT(20)
  <2> QED
    BY <2>2
<1> QED
  BY <1>1, <1>2

LEMMA Division ==
  ASSUME NEW m \in Nat \ {0}, NEW l \in Nat
  PROVE  \E q \in Nat, r \in Nat : r = l % m /\ l = m * q + r /\ r < m
<1> DEFINE q == l \div m
           r == l % m
<1>1. q \in Nat /\ r \in Nat /\ r < m /\ l = m * q + r
  BY SMTT(30)
<1>2. r = l % m
  OBVIOUS
<1> HIDE DEF q, r
<1> QED
  BY <1>1, <1>2

LEMMA SmallRemainder ==
  ASSUME NEW m \in Nat \ {0}, NEW l \in Nat, l < m
  PROVE  l % m = l
<1>1. PICK q \in Nat, r \in Nat : r = l % m /\ l = m * q + r /\ r < m
  BY Division
<1>2. PICK a \in Int : a = l - r
  OBVIOUS
<1>3. a = m * q /\ -m < a /\ a < m
  BY <1>1, <1>2
<1>4. q = 0 \/ q = 1
  BY <1>3, Multiples
<1> QED
  BY <1>1, <1>3, <1>4

LEMMA NextRemainder ==
  ASSUME NEW m \in Nat \ {0}, NEW l \in Nat
  PROVE  (l + 1) % m = IF (l % m) + 1 = m THEN 0 ELSE (l % m) + 1
<1>1. PICK q \in Nat, r \in Nat : r = l % m /\ l = m * q + r /\ r < m
  BY Division
<1>2. PICK n \in Nat : n = l + 1
  OBVIOUS
<1>3. PICK u \in Nat, s \in Nat : s = n % m /\ n = m * u + s /\ s < m
  BY Division
<1>4. PICK a \in Int : a = r + 1 - s
  OBVIOUS
<1>5. PICK k \in Int : k = u - q
  OBVIOUS
<1>6. a = m * k
  <2>1. m * u = m * q + m * k
    BY <1>5
  <2>2. PICK x \in Int, y \in Int, z \in Int : x = m * u /\ y = m * q /\ z = m * k
    OBVIOUS
  <2> QED
    BY <1>1, <1>2, <1>3, <1>4, <2>1, <2>2
<1>7. -m < a /\ a <= m
  BY <1>1, <1>3, <1>4
<1>8. k = 0 \/ k = 1
  BY <1>6, <1>7, Multiples
<1>9. a = 0 \/ a = m
  BY <1>6, <1>8
<1>10. s = IF r + 1 = m THEN 0 ELSE r + 1
  BY <1>1, <1>3, <1>4, <1>9
<1> QED
  BY <1>1, <1>2, <1>3, <1>10

-----------------------------------------------------------------------------
(* What is retained of a text.                                             *)

LEMMA RetainedOf ==
  ASSUME NEW S, NEW t \in Seq(S)
  PROVE  /\ Retained(t) \in Seq(S) /\ Len(Retained(t)) \in Nat
         /\ Len(Retained(t)) = Len(t) % (MAX_LINE_BYTES + 1)
         /\ Len(Retained(t)) <= MAX_LINE_BYTES /\ Len(Retained(t)) <= Len(t)
         /\ Retained(t) = SubSeq(t, Len(t) - Len(Retained(t)) + 1, Len(t))
<1> PICK l \in Nat : l = Len(t)
  BY LenProperties
<1>1. PICK m \in Nat \ {0} : m = MAX_LINE_BYTES + 1
  BY LineBoundAssumption
<1>2. PICK q \in Nat, r \in Nat : r = l % m /\ l = m * q + r /\ r < m
  BY Division
<1>3. r <= l
  <2>1. PICK x \in Nat : x = m * q
    OBVIOUS
  <2> QED
    BY <1>2, <2>1
<1>4. PICK a \in Nat \ {0} : a = l - r + 1
  <2>1. l - r + 1 \in Nat \ {0}
    BY <1>3
  <2> QED
    BY <2>1
<1>5. SubSeq(t, a, l) \in Seq(S) /\ Len(SubSeq(t, a, l)) = r
  <2>1. l <= Len(t) /\ a <= l + 1 /\ l - a + 1 = r
    BY <1>3, <1>4
  <2> QED
    BY <2>1, Stretch
<1>6. Retained(t) = SubSeq(t, a, l)
  BY <1>1, <1>2, <1>4 DEF Retained
<1>7. r <= MAX_LINE_BYTES
  BY <1>1, <1>2, LineBoundAssumption
<1> QED
  BY <1>1, <1>2, <1>3, <1>4, <1>5, <1>6, <1>7

\* A text within the bound is retained.
LEMMA WithinBound ==
  ASSUME NEW S, NEW t \in Seq(S), Len(t) <= MAX_LINE_BYTES
  PROVE  Retained(t) = t
<1> PICK l \in Nat : l = Len(t)
  BY LenProperties
<1>1. PICK m \in Nat \ {0} : m = MAX_LINE_BYTES + 1 /\ l < m
  BY LineBoundAssumption
<1>2. l % m = l
  BY <1>1, SmallRemainder
<1>3. Len(Retained(t)) = l /\ Retained(t) = SubSeq(t, Len(t) - Len(Retained(t)) + 1, Len(t))
  BY <1>1, <1>2, RetainedOf
<1>4. Retained(t) = SubSeq(t, 1, Len(t))
  <2>1. Len(t) - Len(Retained(t)) + 1 = 1
    BY <1>3
  <2> QED
    BY <1>3, <2>1
<1> QED
  BY <1>4, SubSeqFull

\* One character more is retained, or brings the text over the bound.
LEMMA RetainedGrows ==
  ASSUME NEW S, NEW t \in Seq(S), NEW c \in S
  PROVE  Retained(Append(t, c)) =
           IF Len(Retained(t)) + 1 > MAX_LINE_BYTES THEN <<>> ELSE Append(Retained(t), c)
<1> PICK l \in Nat : l = Len(t)
  BY LenProperties
<1>1. PICK m \in Nat \ {0} : m = MAX_LINE_BYTES + 1
  BY LineBoundAssumption
<1>2. PICK r \in Nat : r = Len(Retained(t))
  BY RetainedOf
<1>3. /\ Retained(t) \in Seq(S) /\ r = l % m /\ r < m /\ r <= l
      /\ Retained(t) = SubSeq(t, l - r + 1, l)
  <2>1. /\ Retained(t) \in Seq(S) /\ r = l % m /\ r <= MAX_LINE_BYTES /\ r <= l
        /\ Retained(t) = SubSeq(t, l - r + 1, l)
    BY <1>1, <1>2, RetainedOf
  <2> QED
    BY <1>1, <2>1, LineBoundAssumption
<1>4. PICK u : u = Append(t, c)
  OBVIOUS
<1>5. /\ u \in Seq(S) /\ Len(u) = l + 1 /\ u[l + 1] = c
      /\ \A i \in 1 .. l : u[i] = t[i]
  BY <1>4, AppendProperties
<1>6. PICK n \in Nat : n = l + 1
  OBVIOUS
<1>7. /\ Retained(u) \in Seq(S) /\ Len(Retained(u)) = n % m
      /\ Retained(u) = SubSeq(u, n - Len(Retained(u)) + 1, n)
  BY <1>1, <1>5, <1>6, RetainedOf
<1>8. n % m = IF r + 1 = m THEN 0 ELSE r + 1
  BY <1>3, <1>6, NextRemainder
<1>9. CASE r + 1 = m
  <2>1. Len(Retained(u)) = 0
    BY <1>7, <1>8, <1>9
  <2>2. Retained(u) = <<>>
    BY <1>7, <2>1, EmptySeq
  <2>3. r + 1 > MAX_LINE_BYTES
    BY <1>1, <1>9, LineBoundAssumption
  <2> QED
    BY <1>2, <1>4, <2>2, <2>3
<1>10. CASE r + 1 # m
  <2>1. ~(r + 1 > MAX_LINE_BYTES)
    BY <1>1, <1>3, <1>10, LineBoundAssumption
  <2>2. Len(Retained(u)) = r + 1
    BY <1>7, <1>8, <1>10
  <2>3. PICK a \in Nat \ {0} : a = l - r + 1
    <3>1. r <= l
      BY <1>3
    <3>2. l - r + 1 \in Nat \ {0}
      BY <3>1
    <3> QED
      BY <3>2
  <2>4. n - Len(Retained(u)) + 1 = a
    BY <1>6, <2>2, <2>3
  <2>5. PICK v : v = Retained(u)
    OBVIOUS
  <2>6. PICK p : p = Retained(t)
    OBVIOUS
  <2>7. v \in Seq(S) /\ Len(v) = r + 1 /\ \A i \in 1 .. r + 1 : v[i] = u[a + i - 1]
    <3>1. n <= Len(u) /\ a <= n + 1 /\ n - a + 1 = r + 1
      BY <1>5, <1>6, <2>3
    <3>2. v = SubSeq(u, a, n)
      BY <1>7, <2>4, <2>5
    <3> QED
      BY <1>5, <3>1, <3>2, Stretch
  <2>8. p \in Seq(S) /\ Len(p) = r /\ \A i \in 1 .. r : p[i] = t[a + i - 1]
    <3>1. l <= Len(t) /\ a <= l + 1 /\ l - a + 1 = r
      BY <1>3, <2>3
    <3>2. p = SubSeq(t, a, l)
      BY <1>3, <2>3, <2>6
    <3> QED
      BY <3>1, <3>2, Stretch
  <2>9. PICK w : w = Append(p, c)
    OBVIOUS
  <2>10. /\ w \in Seq(S) /\ Len(w) = r + 1 /\ w[r + 1] = c
         /\ \A i \in 1 .. r : w[i] = p[i]
    BY <2>8, <2>9, AppendProperties
  <2>11. ASSUME NEW i \in 1 .. r + 1 PROVE v[i] = w[i]
    <3>1. CASE i = r + 1
      <4>1. a + i - 1 = l + 1
        BY <1>3, <2>3, <3>1
      <4> QED
        BY <1>5, <2>7, <2>10, <3>1, <4>1
    <3>2. CASE i # r + 1
      <4>1. i \in 1 .. r /\ a + i - 1 \in 1 .. l
        BY <1>3, <2>3, <3>2
      <4>2. v[i] = t[a + i - 1]
        BY <1>5, <2>7, <4>1
      <4>3. w[i] = t[a + i - 1]
        BY <2>8, <2>10, <4>1
      <4> QED
        BY <4>2, <4>3
    <3> QED
      BY <3>1, <3>2
  <2>12. v = w
    BY <2>7, <2>10, <2>11, SeqEqual
  <2> QED
    BY <1>2, <1>4, <2>1, <2>5, <2>6, <2>9, <2>12
<1> QED
  BY <1>9, <1>10

LEMMA NothingRetained == Retained(<<>>) = <<>> /\ Remains(<<>>) = <<>>
<1>1. <<>> \in Seq(STRING) /\ Len(<<>>) = 0 /\ Len(<<>>) <= MAX_LINE_BYTES
  BY EmptySeq, LineBoundAssumption
<1>2. Retained(<<>>) = <<>>
  BY <1>1, WithinBound
<1> QED
  BY <1>2 DEF Remains

-----------------------------------------------------------------------------
(* What is true of every state of the port.                                *)

\* The characters of a line, and the lines there are.
Plain == {c \in Letter : Printable(c)}
Meant == {LineOf(t) : t \in Seq(Letter)}

\* The lines a device means.
Texts == {FrameText(f) : f \in BusFrames} \cup Replies

\* What is still to be read, strays apart: nothing but the end of a line, the
\* rest of a line that has an end, of one a bell cuts off, or of one left open.
Ending(rest) ==
  /\ lines = said /\ buf = <<>> /\ open = <<>>
  /\ rest \in Seq({"CR", "LF"})

MidLine(rest) ==
  \E read \in Seq(Plain), ahead \in Seq(Plain), e \in Ends :
    /\ rest = ahead \o e /\ buf = Retained(read)
    /\ said = lines \o Remains(read \o ahead) /\ open = <<>>

CutOff(rest) ==
  /\ lines = said /\ open = <<>>
  /\ \E ahead \in Seq(Plain) : rest = ahead \o <<"BELL">>

Endless(rest) ==
  /\ lines = said /\ rest \in Seq(Plain)
  /\ \E read \in Seq(Plain) : open = read \o rest /\ buf = Retained(read)

Coming(rest) == Ending(rest) \/ MidLine(rest) \/ CutOff(rest) \/ Endless(rest)

Heard ==
  /\ buf \in Seq(Letter) /\ Len(buf) <= MAX_LINE_BYTES
  /\ lines \in Seq(Meant) /\ said \in Seq(Meant)
  /\ wire \in Seq(Letter) /\ open \in Seq(Plain)

\* Stray characters can only stand before everything else.
PortInv ==
  /\ Heard
  /\ \E k \in 0 .. Len(wire) :
       /\ \A i \in 1 .. k : wire[i] = "other"
       /\ Coming(SubSeq(wire, k + 1, Len(wire)))

-----------------------------------------------------------------------------
(* Lines.                                                                  *)

LEMMA PlainText ==
  ASSUME NEW t \in Seq(Plain)
  PROVE  t \in Seq(Letter)
<1>1. Plain \subseteq Letter
  BY DEF Plain
<1> QED
  BY <1>1, SeqMonotonic

LEMMA PrintableText ==
  ASSUME NEW t \in Seq(Letter), \A i \in 1 .. Len(t) : Printable(t[i])
  PROVE  t \in Seq(Plain)
<1>1. PICK n \in Nat : n = Len(t) /\ t \in [1 .. n -> Letter]
  BY LenProperties
<1>2. t \in [1 .. n -> Plain]
  BY <1>1 DEF Plain
<1> QED
  BY <1>2, FunctionsAreSequences

LEMMA StringText ==
  ASSUME NEW t \in Seq(STRING), \A i \in 1 .. Len(t) : Printable(t[i])
  PROVE  t \in Seq(Plain)
<1>1. STRING \subseteq Letter
  BY DEF Letter
<1>2. t \in Seq(Letter)
  BY <1>1, SeqMonotonic
<1> QED
  BY <1>2, PrintableText

\* What remains of a text is a line or nothing.
LEMMA RemainsIsLine ==
  ASSUME NEW t \in Seq(Plain)
  PROVE  /\ Remains(t) \in Seq(Meant)
         /\ Remains(t) = <<>> \/ \E x \in Meant : Remains(t) = <<x>>
<1>1. Retained(t) \in Seq(Letter)
  BY PlainText, RetainedOf
<1>2. PICK x \in Meant : x = LineOf(Retained(t))
  BY <1>1 DEF Meant
<1>3. <<x>> \in Seq(Meant) /\ <<>> \in Seq(Meant)
  BY <1>2
<1> QED
  BY <1>2, <1>3 DEF Remains

LEMMA TextsAreLines ==
  ASSUME NEW t \in Texts
  PROVE  t \in Seq(Plain) /\ t # <<>> /\ Len(t) <= MAX_LINE_BYTES
<1>2. CASE t \in Replies
  <2>1. /\ t \in Seq(STRING) /\ t # <<>> /\ Len(t) <= MAX_LINE_BYTES
        /\ \A i \in 1 .. Len(t) : Printable(t[i])
    BY <1>2, PortAssumption
  <2> QED
    BY <2>1, StringText
<1>3. CASE t \in {FrameText(f) : f \in BusFrames}
  <2> PICK f \in BusFrames : t = FrameText(f)
    BY <1>3
  <2>1. f \in BusFrame /\ Len(t) <= MAX_LINE_BYTES
    BY PortAssumption
  <2> PICK n \in Nat : n = PayloadLen(f.rtr, f.dlc, f.fd)
    BY <2>1, PayloadOfFrame
  <2> PICK w \in Nat : w = Len(IdDigits(f))
    BY <2>1, IdOfFrame, LenProperties
  <2>2. t \in Seq(Letter) /\ Len(t) = w + 2 + 2 * n /\ \A i \in 1 .. Len(t) : Printable(t[i])
    BY <2>1, TextOfFrame
  <2>3. Len(t) # 0
    BY <2>2
  <2>4. t # <<>>
    BY <2>3, EmptySeq
  <2> QED
    BY <2>1, <2>2, <2>4, PrintableText
<1> QED
  BY <1>2, <1>3 DEF Texts

\* A line that is meant is what remains of its text.
LEMMA MeantRemains ==
  ASSUME NEW t \in Texts, open \in Seq(Plain)
  PROVE  Due(t, LineOf(t)) = Remains(open \o t)
<1>1. t \in Seq(Plain) /\ t # <<>> /\ Len(t) <= MAX_LINE_BYTES
  BY TextsAreLines
<1>2. CASE open = <<>>
  <2>1. open \o t = t
    BY <1>1, <1>2, ConcatEmptySeq
  <2>2. Retained(t) = t
    BY <1>1, WithinBound
  <2>3. Remains(t) = <<LineOf(t)>>
    BY <1>1, <2>2, Zenon DEF Remains
  <2> QED
    BY <1>2, <2>1, <2>3 DEF Due
<1>3. CASE open # <<>>
  BY <1>3 DEF Due
<1> QED
  BY <1>2, <1>3

LEMMA EndsAreTerminators ==
  ASSUME NEW e \in Ends
  PROVE  e \in Seq(Letter) /\ e \in Seq({"CR", "LF"}) /\ e # <<>>
<1>1. e \in Seq({"CR", "LF"}) /\ e # <<>>
  BY PortAssumption
<1>2. {"CR", "LF"} \subseteq Letter
  BY DEF Letter
<1> QED
  BY <1>1, <1>2, SeqMonotonic

-----------------------------------------------------------------------------
(* One character more.                                                     *)

\* What a character does to the decoder.
LEMMA FeedPrintable ==
  ASSUME NEW c, Printable(c), feed(c)
  PROVE  /\ buf' = IF Len(buf) + 1 > MAX_LINE_BYTES THEN <<>> ELSE Append(buf, c)
         /\ lines' = lines
<1>1. c # "CR" /\ c # "LF" /\ c # "BELL" /\ c # "other"
  BY DEF Printable
<1>2. Accumulate(c)
  BY <1>1 DEF feed, EndLine, Discard, Ignore
<1> QED
  BY <1>2 DEF Accumulate

LEMMA FeedTerminator ==
  ASSUME NEW c, c \in {"CR", "LF"}, feed(c)
  PROVE  buf' = <<>> /\ lines' = IF buf = <<>> THEN lines ELSE Append(lines, LineOf(buf))
<1>1. ~Printable(c) /\ c # "BELL" /\ c # "other"
  BY DEF Printable
<1>2. EndLine(c)
  BY <1>1 DEF feed, Accumulate, Discard, Ignore
<1> QED
  BY <1>2 DEF EndLine

LEMMA FeedBell ==
  ASSUME feed("BELL")
  PROVE  buf' = <<>> /\ lines' = lines
<1>1. ~Printable("BELL") /\ "BELL" # "CR" /\ "BELL" # "LF" /\ "BELL" # "other"
  BY DEF Printable
<1>2. Discard("BELL")
  BY <1>1 DEF feed, Accumulate, EndLine, Ignore
<1> QED
  BY <1>2 DEF Discard

LEMMA FeedStray ==
  ASSUME feed("other")
  PROVE  buf' = buf /\ lines' = lines
<1>1. ~Printable("other") /\ "other" # "CR" /\ "other" # "LF" /\ "other" # "BELL"
  BY DEF Printable
<1>2. Ignore("other")
  BY <1>1 DEF feed, Accumulate, EndLine, Discard
<1> QED
  BY <1>2 DEF Ignore

\* The rest of a line with its first character read.
LEMMA TailOf ==
  ASSUME NEW S, NEW s \in Seq(S), s # <<>>
  PROVE  /\ Tail(s) \in Seq(S) /\ Len(s) \in Nat /\ Len(s) >= 1 /\ Len(Tail(s)) = Len(s) - 1
         /\ s[1] \in S /\ Head(s) = s[1]
         /\ \A i \in 1 .. Len(s) - 1 : Tail(s)[i] = s[i + 1]
<1>1. Len(s) \in Nat \ {0}
  BY EmptySeq
<1>2. 1 \in 1 .. Len(s)
  BY <1>1
<1>3. Head(s) = s[1]
  <2>1. Len(s) \in 1 .. Len(s)
    BY <1>1
  <2>2. Head(SubSeq(s, 1, Len(s))) = s[1]
    BY <1>2, <2>1, HeadTailOfSubSeq
  <2> QED
    BY <2>2, SubSeqFull
<1> QED
  BY <1>1, <1>2, <1>3, HeadTailProperties, ElementOfSeq

\* A sequence is its first element and the rest of it.
LEMMA FirstAndRest ==
  ASSUME NEW S, NEW s \in Seq(S), s # <<>>
  PROVE  s[1] \in S /\ Tail(s) \in Seq(S) /\ s = <<s[1]>> \o Tail(s)
<1>1. Len(s) \in Nat \ {0}
  BY EmptySeq
<1>2. 1 \in 1 .. Len(s) /\ Len(s) \in 1 .. Len(s) /\ 1 + 1 = 2
  BY <1>1
<1>3. SubSeq(s, 1, Len(s)) = <<s[1]>> \o SubSeq(s, 1 + 1, Len(s))
  BY <1>2, SubSeqRecursiveFirst
<1>4. SubSeq(s, 1, Len(s)) = s
  BY SubSeqFull
<1>5. Tail(s) = SubSeq(s, 2, Len(s))
  BY TailIsSubSeq
<1> QED
  BY <1>2, <1>3, <1>4, <1>5, TailOf

LEMMA RestOf ==
  ASSUME NEW S, NEW d \in S, NEW x \in Seq(S)
  PROVE  (<<d>> \o x)[1] = d /\ Tail(<<d>> \o x) = x /\ <<d>> \o x # <<>>
<1>1. PICK s : s = <<d>> \o x
  OBVIOUS
<1>2. <<d>> \in Seq(S) /\ Len(<<d>>) = 1 /\ <<d>>[1] = d
  OBVIOUS
<1>3. PICK n \in Nat : n = Len(x)
  BY LenProperties
<1>4. /\ s \in Seq(S) /\ Len(s) = 1 + n
      /\ \A i \in 1 .. 1 + n : s[i] = IF i <= 1 THEN <<d>>[i] ELSE x[i - 1]
  <2>1. PICK b \in Seq(S) : b = <<d>> /\ Len(b) = 1
    BY <1>2
  <2>2. /\ s \in Seq(S) /\ Len(s) = Len(b) + Len(x)
        /\ \A i \in 1 .. Len(b) + Len(x) : s[i] = IF i <= Len(b) THEN b[i] ELSE x[i - Len(b)]
    BY <1>1, <2>1, ConcatProperties
  <2> QED
    BY <1>3, <2>1, <2>2
<1>5. s[1] = d
  <2>1. 1 \in 1 .. 1 + n
    BY <1>3
  <2> QED
    BY <1>2, <1>4, <2>1
<1>6. s # <<>>
  <2>1. Len(s) # 0
    BY <1>4
  <2> QED
    BY <2>1, EmptySeq
<1>7. PICK t : t = Tail(s)
  OBVIOUS
<1>8. t \in Seq(S) /\ Len(t) = n /\ \A i \in 1 .. n : t[i] = s[i + 1]
  <2>1. 1 + n - 1 = n
    BY <1>3
  <2> QED
    BY <1>4, <1>6, <1>7, <2>1, TailOf
<1>9. ASSUME NEW i \in 1 .. n PROVE t[i] = x[i]
  <2>1. i + 1 \in 1 .. 1 + n /\ ~(i + 1 <= 1) /\ i + 1 - 1 = i
    OBVIOUS
  <2> QED
    BY <1>4, <1>8, <2>1
<1>10. t = x
  BY <1>3, <1>8, <1>9, SeqEqual
<1> QED
  BY <1>1, <1>5, <1>6, <1>7, <1>10

\* A character goes over from what is ahead to what is read.
LEMMA Forward ==
  ASSUME NEW read \in Seq(Plain), NEW ahead \in Seq(Plain), ahead # <<>>, NEW end \in Seq(Letter)
  PROVE  \E d \in Plain, x \in Seq(Plain) :
           /\ (ahead \o end)[1] = d /\ Tail(ahead \o end) = x \o end
           /\ Append(read, d) \in Seq(Plain) /\ Append(read, d) \o x = read \o ahead
<1>1. PICK d \in Plain, x \in Seq(Plain) : ahead = <<d>> \o x
  BY FirstAndRest
<1>2. d \in Letter /\ x \in Seq(Letter) /\ <<d>> \in Seq(Letter) /\ <<d>> \in Seq(Plain)
  BY PlainText DEF Plain
<1>3. ahead \o end = <<d>> \o (x \o end)
  BY <1>1, <1>2, ConcatAssociative
<1>4. x \o end \in Seq(Letter)
  BY <1>2, ConcatProperties
<1>5. (ahead \o end)[1] = d /\ Tail(ahead \o end) = x \o end
  BY <1>2, <1>3, <1>4, RestOf
<1>6. Append(read, d) \in Seq(Plain) /\ Append(read, d) = read \o <<d>>
  BY AppendProperties, AppendIsConcat
<1>7. (read \o <<d>>) \o x = read \o (<<d>> \o x)
  BY <1>2, ConcatAssociative
<1> QED
  BY <1>1, <1>5, <1>6, <1>7

\* What the line in progress becomes when a printable character is read.
LEMMA PlainRead ==
  ASSUME Heard, NEW d \in Plain, feed(d)
  PROVE  /\ buf' \in Seq(Letter) /\ Len(buf') <= MAX_LINE_BYTES /\ lines' = lines
         /\ \A read \in Seq(Plain) : buf = Retained(read) => buf' = Retained(Append(read, d))
<1>1. d \in Letter /\ Printable(d)
  BY DEF Plain
<1>2. /\ buf' = IF Len(buf) + 1 > MAX_LINE_BYTES THEN <<>> ELSE Append(buf, d)
      /\ lines' = lines
  BY <1>1, FeedPrintable
<1>3. PICK b \in Seq(Letter) : b = buf
  BY DEF Heard
<1>4. buf' \in Seq(Letter) /\ Len(buf') <= MAX_LINE_BYTES
  <2>1. CASE Len(b) + 1 > MAX_LINE_BYTES
    <3>1. buf' = <<>>
      BY <1>2, <1>3, <2>1
    <3>2. <<>> \in Seq(Letter) /\ Len(<<>>) = 0 /\ 0 <= MAX_LINE_BYTES
      BY EmptySeq, LineBoundAssumption
    <3> QED
      BY <3>1, <3>2
  <2>2. CASE ~(Len(b) + 1 > MAX_LINE_BYTES)
    <3>1. buf' = Append(b, d)
      BY <1>2, <1>3, <2>2
    <3>2. Append(b, d) \in Seq(Letter) /\ Len(Append(b, d)) = Len(b) + 1
      BY <1>1, AppendProperties
    <3>3. PICK n \in Nat : n = Len(b)
      BY LenProperties
    <3>4. n + 1 <= MAX_LINE_BYTES
      BY <2>2, <3>3, LineBoundAssumption
    <3> QED
      BY <3>1, <3>2, <3>3, <3>4
  <2> QED
    BY <2>1, <2>2
<1>5. ASSUME NEW read \in Seq(Plain), buf = Retained(read) PROVE buf' = Retained(Append(read, d))
  BY <1>2, <1>5, RetainedGrows
<1> QED
  BY <1>2, <1>4, <1>5

\* Whatever is read, what comes is what came before without its first letter.
LEMMA CharacterRead ==
  ASSUME Heard, NEW rest \in Seq(Letter), rest # <<>>, Coming(rest), feed(rest[1]),
         said' = said, open' = open
  PROVE  /\ buf' \in Seq(Letter) /\ Len(buf') <= MAX_LINE_BYTES
         /\ lines' \in Seq(Meant) /\ Coming(Tail(rest))'
<1> PICK c : c = rest[1]
  OBVIOUS
<1> PICK next : next = Tail(rest)
  OBVIOUS
<1>0. feed(c)
  OBVIOUS
<1>1. lines \in Seq(Meant) /\ said \in Seq(Meant)
  BY DEF Heard
<1>2. <<>> \in Seq(Letter) /\ Len(<<>>) <= MAX_LINE_BYTES
  BY EmptySeq, LineBoundAssumption
<1> SUFFICES /\ buf' \in Seq(Letter) /\ Len(buf') <= MAX_LINE_BYTES
             /\ lines' \in Seq(Meant) /\ Coming(next)'
  OBVIOUS
<1>3. ASSUME rest \in Seq({"CR", "LF"})
      PROVE  c \in {"CR", "LF"} /\ next \in Seq({"CR", "LF"})
  BY <1>3, FirstAndRest
<1>4. CASE Ending(rest)
  <2>1. lines = said /\ buf = <<>> /\ open = <<>> /\ rest \in Seq({"CR", "LF"})
    BY <1>4 DEF Ending
  <2>2. c \in {"CR", "LF"} /\ next \in Seq({"CR", "LF"})
    BY <1>3, <2>1
  <2>3. buf' = <<>> /\ lines' = lines
    BY <1>0, <2>1, <2>2, FeedTerminator
  <2>4. Ending(next)'
    BY <2>1, <2>2, <2>3 DEF Ending
  <2> QED
    BY <1>1, <1>2, <2>3, <2>4 DEF Coming
<1>5. CASE MidLine(rest)
  <2> PICK read \in Seq(Plain), ahead \in Seq(Plain), e \in Ends :
        /\ rest = ahead \o e /\ buf = Retained(read)
        /\ said = lines \o Remains(read \o ahead) /\ open = <<>>
    BY <1>5 DEF MidLine
  <2>1. e \in Seq(Letter) /\ e \in Seq({"CR", "LF"}) /\ e # <<>>
    BY EndsAreTerminators
  <2>2. CASE ahead = <<>>
    <3>1. rest = e /\ read \o ahead = read
      BY <2>1, <2>2, ConcatEmptySeq
    <3>2. c \in {"CR", "LF"} /\ next \in Seq({"CR", "LF"})
      BY <1>3, <2>1, <3>1
    <3>3. buf' = <<>> /\ lines' = IF buf = <<>> THEN lines ELSE Append(lines, LineOf(buf))
      BY <1>0, <3>2, FeedTerminator
    <3>4. lines' = said
      <4>1. said = lines \o Remains(read)
        BY <3>1
      <4>2. CASE buf = <<>>
        <5>1. Remains(read) = <<>>
          BY <4>2 DEF Remains
        <5> QED
          BY <1>1, <3>3, <4>1, <4>2, <5>1, ConcatEmptySeq
      <4>3. CASE buf # <<>>
        <5>1. Remains(read) = <<LineOf(buf)>>
          BY <4>3 DEF Remains
        <5>2. LineOf(buf) \in Meant
          BY DEF Heard, Meant
        <5>3. Append(lines, LineOf(buf)) = lines \o <<LineOf(buf)>>
          BY <1>1, <5>2, AppendIsConcat
        <5> QED
          BY <3>3, <4>1, <4>3, <5>1, <5>3
      <4> QED
        BY <4>2, <4>3
    <3>5. Ending(next)'
      BY <3>2, <3>3, <3>4 DEF Ending
    <3> QED
      BY <1>1, <1>2, <3>3, <3>4, <3>5 DEF Coming
  <2>3. CASE ahead # <<>>
    <3>1. PICK d \in Plain, x \in Seq(Plain) :
            /\ rest[1] = d /\ Tail(rest) = x \o e
            /\ Append(read, d) \in Seq(Plain) /\ Append(read, d) \o x = read \o ahead
      <4>1. PICK d \in Plain, x \in Seq(Plain) :
              /\ (ahead \o e)[1] = d /\ Tail(ahead \o e) = x \o e
              /\ Append(read, d) \in Seq(Plain) /\ Append(read, d) \o x = read \o ahead
        BY <2>1, <2>3, Forward
      <4> QED
        BY <4>1
    <3>2. /\ buf' \in Seq(Letter) /\ Len(buf') <= MAX_LINE_BYTES /\ lines' = lines
          /\ buf' = Retained(Append(read, d))
      BY <1>0, <3>1, PlainRead
    <3>3. PICK now \in Seq(Plain) : now = Append(read, d)
      BY <3>1
    <3>4. /\ next = x \o e /\ buf' = Retained(now)
          /\ said' = lines' \o Remains(now \o x) /\ open' = <<>>
      BY <3>1, <3>2, <3>3
    <3>5. MidLine(next)'
      BY <3>4 DEF MidLine
    <3> QED
      BY <1>1, <3>2, <3>5 DEF Coming
  <2> QED
    BY <2>2, <2>3
<1>6. CASE CutOff(rest)
  <2> PICK ahead \in Seq(Plain) : rest = ahead \o <<"BELL">>
    BY <1>6 DEF CutOff
  <2>1. lines = said /\ open = <<>>
    BY <1>6 DEF CutOff
  <2>2. PICK e \in Seq(Letter) : e = <<"BELL">> /\ e = <<"BELL">> \o <<>> /\ e[1] = "BELL"
    <3>1. "BELL" \in Letter
      BY DEF Letter
    <3>2. <<"BELL">> \in Seq(Letter) /\ <<"BELL">>[1] = "BELL"
      BY <3>1
    <3> QED
      BY <3>2, ConcatEmptySeq
  <2>3. CASE ahead = <<>>
    <3>1. rest = e
      BY <2>2, <2>3, ConcatEmptySeq
    <3>2. c = "BELL" /\ next = <<>>
      <4>1. "BELL" \in Letter
        BY DEF Letter
      <4>2. Tail(<<"BELL">> \o <<>>) = <<>>
        BY <1>2, <4>1, RestOf
      <4> QED
        BY <2>2, <3>1, <4>2
    <3>3. buf' = <<>> /\ lines' = lines
      BY <1>0, <3>2, FeedBell
    <3>4. next \in Seq({"CR", "LF"})
      BY <3>2, EmptySeq
    <3>5. Ending(next)'
      BY <2>1, <3>3, <3>4 DEF Ending
    <3> QED
      BY <1>1, <1>2, <3>3, <3>5 DEF Coming
  <2>4. CASE ahead # <<>>
    <3>1. PICK d \in Plain, x \in Seq(Plain) : rest[1] = d /\ Tail(rest) = x \o e
      <4>1. PICK read \in Seq(Plain) : read = <<>>
        BY EmptySeq
      <4>2. PICK d \in Plain, x \in Seq(Plain) :
              /\ (ahead \o e)[1] = d /\ Tail(ahead \o e) = x \o e
              /\ Append(read, d) \in Seq(Plain) /\ Append(read, d) \o x = read \o ahead
        BY <2>4, Forward
      <4>3. rest = ahead \o e
        BY <2>2
      <4> QED
        BY <4>2, <4>3
    <3>2. buf' \in Seq(Letter) /\ Len(buf') <= MAX_LINE_BYTES /\ lines' = lines
      BY <1>0, <3>1, PlainRead
    <3>3. next = x \o <<"BELL">>
      BY <2>2, <3>1
    <3>4. CutOff(next)'
      BY <2>1, <3>2, <3>3 DEF CutOff
    <3> QED
      BY <1>1, <3>2, <3>4 DEF Coming
  <2> QED
    BY <2>3, <2>4
<1>7. CASE Endless(rest)
  <2>1. lines = said /\ rest \in Seq(Plain)
    BY <1>7 DEF Endless
  <2> PICK read \in Seq(Plain) : open = read \o rest /\ buf = Retained(read)
    BY <1>7 DEF Endless
  <2>2. rest \o <<>> = rest
    BY ConcatEmptySeq
  <2>3. PICK d \in Plain, x \in Seq(Plain) :
          /\ rest[1] = d /\ Tail(rest) = x \o <<>>
          /\ Append(read, d) \in Seq(Plain) /\ Append(read, d) \o x = read \o rest
    <3>1. PICK e \in Seq(Letter) : e = <<>>
      BY <1>2
    <3>2. rest \o e = rest
      BY <2>2, <3>1
    <3>3. PICK d \in Plain, x \in Seq(Plain) :
            /\ (rest \o e)[1] = d /\ Tail(rest \o e) = x \o e
            /\ Append(read, d) \in Seq(Plain) /\ Append(read, d) \o x = read \o rest
      BY <2>1, Forward
    <3> QED
      BY <3>1, <3>2, <3>3
  <2>4. next = x
    BY <2>3, ConcatEmptySeq
  <2>5. /\ buf' \in Seq(Letter) /\ Len(buf') <= MAX_LINE_BYTES /\ lines' = lines
        /\ buf' = Retained(Append(read, d))
    BY <1>0, <2>3, PlainRead
  <2>6. PICK now \in Seq(Plain) : now = Append(read, d)
    BY <2>3
  <2>7. open' = now \o next /\ buf' = Retained(now) /\ next \in Seq(Plain) /\ lines' = said'
    BY <2>1, <2>3, <2>4, <2>5, <2>6
  <2>8. Endless(next)'
    BY <2>7 DEF Endless
  <2> QED
    BY <1>1, <2>5, <2>8 DEF Coming
<1> QED
  BY <1>4, <1>5, <1>6, <1>7 DEF Coming

-----------------------------------------------------------------------------
(* The steps of the port.                                                  *)

LEMMA WholeIsPrefix ==
  ASSUME NEW S, NEW s \in Seq(S)
  PROVE  SubSeq(s, 1, Len(s)) = s /\ SubSeq(s, 0 + 1, Len(s)) = s /\ Len(s) \in Nat
BY SubSeqFull, LenProperties

\* With everything read nothing but what was left open is in progress.
LEMMA NothingInProgress ==
  ASSUME PortInv, wire = <<>>
  PROVE  lines = said /\ buf = Retained(open)
<1> PICK k \in 0 .. Len(wire) : Coming(SubSeq(wire, k + 1, Len(wire)))
  BY DEF PortInv
<1>1. Len(wire) = 0 /\ k = 0
  BY EmptySeq
<1>2. SubSeq(wire, k + 1, Len(wire)) = <<>>
  <2>1. k + 1 \in Int /\ Len(wire) \in Int /\ Len(wire) < k + 1
    BY <1>1
  <2> QED
    BY <2>1, SubSeqEmpty
<1>3. Coming(<<>>)
  BY <1>2
<1>4. CASE Ending(<<>>)
  BY <1>4, NothingRetained DEF Ending
<1>5. ~MidLine(<<>>)
  <2> SUFFICES ASSUME NEW ahead \in Seq(Plain), NEW e \in Ends, <<>> = ahead \o e
               PROVE  FALSE
    BY DEF MidLine
  <2>1. ahead \in Seq(Letter) /\ e \in Seq(Letter) /\ e # <<>>
    BY PlainText, EndsAreTerminators
  <2> QED
    BY <2>1, ConcatEqualIffEmpty
<1>6. ~CutOff(<<>>)
  <2> SUFFICES ASSUME NEW ahead \in Seq(Plain), <<>> = ahead \o <<"BELL">>
               PROVE  FALSE
    BY DEF CutOff
  <2>1. PICK e \in Seq(Letter) : e = <<"BELL">> /\ e # <<>>
    BY DEF Letter
  <2>2. ahead \in Seq(Letter)
    BY PlainText
  <2> QED
    BY <2>1, <2>2, ConcatEqualIffEmpty
<1>7. CASE Endless(<<>>)
  <2>1. PICK read \in Seq(Plain) : open = read \o <<>> /\ buf = Retained(read)
    BY <1>7 DEF Endless
  <2>2. open = read
    BY <2>1, ConcatEmptySeq
  <2> QED
    BY <1>7, <2>1, <2>2 DEF Endless
<1> QED
  BY <1>3, <1>4, <1>5, <1>6, <1>7 DEF Coming

\* A wire with no strays before what comes.
LEMMA StraightAhead ==
  ASSUME NEW w \in Seq(Letter), wire' = w, Coming(w)',
         buf' \in Seq(Letter), Len(buf') <= MAX_LINE_BYTES,
         lines' \in Seq(Meant), said' \in Seq(Meant), open' \in Seq(Plain)
  PROVE  PortInv'
<1>1. SubSeq(w, 0 + 1, Len(w)) = w /\ Len(w) \in Nat
  BY WholeIsPrefix
<1>2. 0 \in 0 .. Len(wire') /\ \A i \in 1 .. 0 : wire'[i] = "other"
  BY <1>1
<1>3. SubSeq(wire', 0 + 1, Len(wire')) = w
  BY <1>1
<1>4. Coming(SubSeq(wire, 0 + 1, Len(wire)))'
  BY <1>3
<1>5. \E k \in 0 .. Len(wire') :
        /\ \A i \in 1 .. k : wire'[i] = "other"
        /\ Coming(SubSeq(wire, k + 1, Len(wire)))'
  BY <1>2, <1>4
<1> QED
  BY <1>5 DEF PortInv, Heard

LEMMA PortInitHolds == PortInit => PortInv
<1> SUFFICES ASSUME PortInit PROVE PortInv
  OBVIOUS
<1>1. buf = <<>> /\ lines = <<>> /\ said = <<>> /\ wire = <<>> /\ open = <<>>
  BY DEF PortInit, DecoderInit
<1>2. Heard
  BY <1>1, EmptySeq, LineBoundAssumption DEF Heard
<1>3. Len(wire) = 0 /\ SubSeq(wire, 0 + 1, Len(wire)) = <<>>
  BY <1>1
<1>4. Ending(<<>>)
  BY <1>1, EmptySeq DEF Ending
<1>5. 0 \in 0 .. Len(wire) /\ \A i \in 1 .. 0 : wire[i] = "other"
  BY <1>3
<1> QED
  BY <1>2, <1>3, <1>4, <1>5 DEF PortInv, Coming

\* A text with an end, put on an idle wire: behind what was left open.
LEMMA LineSent ==
  ASSUME PortInv, wire = <<>>, NEW t \in Seq(Plain), NEW e \in Ends,
         wire' = t \o e, said' = said \o Remains(open \o t), open' = <<>>, UNCHANGED <<buf, lines>>
  PROVE  PortInv'
<1>1. lines = said /\ buf = Retained(open)
  BY NothingInProgress
<1>2. /\ buf \in Seq(Letter) /\ Len(buf) <= MAX_LINE_BYTES /\ open \in Seq(Plain)
      /\ lines \in Seq(Meant) /\ said \in Seq(Meant)
  BY DEF PortInv, Heard
<1>3. t \o e \in Seq(Letter)
  BY PlainText, EndsAreTerminators, ConcatProperties
<1>4. MidLine(t \o e)'
  <2>1. PICK read \in Seq(Plain) : read = open
    BY <1>2
  <2>2. PICK w : w = t \o e
    OBVIOUS
  <2>3. buf' = Retained(read) /\ said' = lines' \o Remains(read \o t) /\ open' = <<>> /\ w = t \o e
    BY <1>1, <2>1, <2>2
  <2>4. MidLine(w)'
    BY <2>3 DEF MidLine
  <2> QED
    BY <2>2, <2>4
<1>5. said' \in Seq(Meant)
  <2>1. open \o t \in Seq(Plain)
    BY <1>2, ConcatProperties
  <2>2. Remains(open \o t) \in Seq(Meant)
    BY <2>1, RemainsIsLine
  <2> QED
    BY <1>2, <2>2, ConcatProperties
<1>6. open' \in Seq(Plain)
  BY EmptySeq
<1>7. Coming(t \o e)'
  BY <1>4 DEF Coming
<1>8. buf' \in Seq(Letter) /\ Len(buf') <= MAX_LINE_BYTES /\ lines' \in Seq(Meant)
  BY <1>2
<1> QED
  BY <1>3, <1>5, <1>6, <1>7, <1>8, StraightAhead

LEMMA SendFrameStep ==
  ASSUME PortInv, NEW f \in BusFrames, NEW e \in Ends, SendFrame(f, e)
  PROVE  PortInv'
<1>1. /\ wire = <<>> /\ wire' = FrameText(f) \o e /\ open' = <<>>
      /\ said' = said \o Due(FrameText(f), FrameLine(AsOnTheBus(f))) /\ UNCHANGED <<buf, lines>>
  BY DEF SendFrame
<1>2. PICK t \in Texts : t = FrameText(f)
  BY DEF Texts
<1>3. LineOf(t) = FrameLine(AsOnTheBus(f))
  BY <1>2, FrameIsRead, PortAssumption
<1>4. Due(t, LineOf(t)) = Remains(open \o t)
  BY MeantRemains DEF PortInv, Heard
<1>5. t \in Seq(Plain)
  BY TextsAreLines
<1>6. wire' = t \o e /\ said' = said \o Remains(open \o t)
  BY <1>1, <1>2, <1>3, <1>4
<1> QED
  BY <1>1, <1>5, <1>6, LineSent

LEMMA SendReplyStep ==
  ASSUME PortInv, NEW r \in Replies, NEW e \in Ends, SendReply(r, e)
  PROVE  PortInv'
<1>1. /\ wire = <<>> /\ wire' = r \o e /\ open' = <<>>
      /\ said' = said \o Due(r, ReplyLine(r)) /\ UNCHANGED <<buf, lines>>
  BY DEF SendReply
<1>2. r \in Texts
  BY DEF Texts
<1>3. LineOf(r) = ReplyLine(r)
  BY PortAssumption DEF LineOf
<1>4. Due(r, LineOf(r)) = Remains(open \o r)
  BY <1>2, MeantRemains DEF PortInv, Heard
<1>5. r \in Seq(Plain)
  BY <1>2, TextsAreLines
<1>6. said' = said \o Remains(open \o r)
  BY <1>1, <1>3, <1>4
<1> QED
  BY <1>1, <1>5, <1>6, LineSent

LEMMA AcknowledgeStep ==
  ASSUME PortInv, NEW e \in Ends, Acknowledge(e)
  PROVE  PortInv'
<1>1. /\ wire = <<>> /\ wire' = e /\ open' = <<>>
      /\ said' = said \o Remains(open) /\ UNCHANGED <<buf, lines>>
  BY DEF Acknowledge
<1>2. PICK t \in Seq(Plain) : t = <<>>
  BY EmptySeq
<1>3. t \o e = e
  BY <1>2, EndsAreTerminators, ConcatEmptySeq
<1>4. open \o t = open
  BY <1>2, ConcatEmptySeq DEF PortInv, Heard
<1>5. wire' = t \o e /\ said' = said \o Remains(open \o t)
  BY <1>1, <1>3, <1>4
<1> QED
  BY <1>1, <1>5, LineSent

LEMMA BabbleStep ==
  ASSUME PortInv, NEW x \in Noises, NEW e \in Ends \cup {<<>>}, Babble(x, e)
  PROVE  PortInv'
<1>1. /\ wire = <<>> /\ wire' = x \o e /\ UNCHANGED <<buf, lines>>
      /\ IF e = <<>> THEN open' = open \o x /\ UNCHANGED said
                     ELSE open' = <<>> /\ said' = said \o Remains(open \o x)
  BY DEF Babble
<1>2. x \in Seq(Plain)
  BY PortAssumption, StringText
<1>3. CASE e # <<>>
  <2>1. e \in Ends
    BY <1>3
  <2> QED
    BY <1>1, <1>2, <1>3, <2>1, LineSent
<1>4. CASE e = <<>>
  <2>1. lines = said /\ buf = Retained(open)
    BY <1>1, NothingInProgress
  <2>2. /\ buf \in Seq(Letter) /\ Len(buf) <= MAX_LINE_BYTES
        /\ lines \in Seq(Meant) /\ said \in Seq(Meant)
    BY DEF PortInv, Heard
  <2>3. PICK read \in Seq(Plain) : read = open
    BY DEF PortInv, Heard
  <2>4. wire' = x
    BY <1>1, <1>2, <1>4, ConcatEmptySeq
  <2>5. open' = read \o x /\ open' \in Seq(Plain)
    BY <1>1, <1>2, <1>4, <2>3, ConcatProperties
  <2>6. Endless(x)'
    <3>1. lines' = said' /\ buf' = Retained(read)
      BY <1>1, <1>4, <2>1, <2>3
    <3> QED
      BY <1>2, <2>5, <3>1 DEF Endless
  <2>7. Coming(x)'
    BY <2>6 DEF Coming
  <2>8. /\ buf' \in Seq(Letter) /\ Len(buf') <= MAX_LINE_BYTES
        /\ lines' \in Seq(Meant) /\ said' \in Seq(Meant)
    BY <1>1, <1>4, <2>2
  <2>9. x \in Seq(Letter)
    BY <1>2, PlainText
  <2> QED
    BY <2>4, <2>5, <2>7, <2>8, <2>9, StraightAhead
<1> QED
  BY <1>3, <1>4

LEMMA RefuseStep ==
  ASSUME PortInv, NEW f \in BusFrames, NEW n \in {0, 4}, Refuse(f, n)
  PROVE  PortInv'
<1>1. /\ wire = <<>> /\ wire' = SubSeq(encode_frame(f), 1, n) \o <<"BELL">>
      /\ open' = <<>> /\ UNCHANGED <<buf, lines, said>>
  BY DEF Refuse
<1>2. PICK t \in Texts : t = FrameText(f)
  BY DEF Texts
<1>3. f \in BusFrame
  BY PortAssumption
<1>4. t \in Seq(Plain) /\ t \in Seq(Letter) /\ Len(t) \in Nat /\ Len(t) >= 5
  <2>1. PICK m \in Nat : m = PayloadLen(f.rtr, f.dlc, f.fd)
    BY <1>3, PayloadOfFrame
  <2>2. PICK w \in Nat : w = Len(IdDigits(f)) /\ w >= 3
    <3>1. PICK q : q = Len(IdDigits(f))
      OBVIOUS
    <3>2. q = IF f.extended THEN 8 ELSE 3
      BY <1>3, <3>1, IdOfFrame
    <3>3. q \in Nat /\ q >= 3
      BY <3>2
    <3> QED
      BY <3>1, <3>3
  <2>3. Len(t) = w + 2 + 2 * m
    BY <1>2, <1>3, <2>1, <2>2, TextOfFrame
  <2>4. Len(t) \in Nat /\ Len(t) >= 5
    BY <2>2, <2>3
  <2> QED
    BY <2>4, TextsAreLines, PlainText
<1>5. PICK p : p = SubSeq(t, 1, n)
  OBVIOUS
<1>6. p \in Seq(Plain)
  <2>1. 1 \in Nat \ {0} /\ n \in Nat /\ n <= Len(t) /\ 1 <= n + 1
    BY <1>4
  <2> QED
    BY <1>4, <1>5, <2>1, Stretch
<1>7. SubSeq(encode_frame(f), 1, n) = p
  <2>1. encode_frame(f) = t \o <<"CR">> /\ <<"CR">> \in Seq(Letter)
    BY <1>2 DEF encode_frame, Letter
  <2>2. CASE n = 0
    BY <1>5, <2>2, SubSeqEmpty
  <2>3. CASE n = 4
    <3>1. 1 \in 1 .. Len(t) /\ n \in 1 .. Len(t)
      BY <1>4, <2>3
    <3> QED
      BY <1>4, <1>5, <2>1, <3>1, SubSeqOfConcat1
  <2> QED
    BY <2>2, <2>3
<1>8. PICK w : w = p \o <<"BELL">>
  OBVIOUS
<1>9. w \in Seq(Letter)
  <2>1. <<"BELL">> \in Seq(Letter)
    BY DEF Letter
  <2> QED
    BY <1>6, <1>8, <2>1, PlainText, ConcatProperties
<1>10. lines = said
  BY <1>1, NothingInProgress
<1>11. CutOff(w)'
  BY <1>1, <1>6, <1>8, <1>10 DEF CutOff
<1>12. /\ buf' \in Seq(Letter) /\ Len(buf') <= MAX_LINE_BYTES
       /\ lines' \in Seq(Meant) /\ said' \in Seq(Meant) /\ open' \in Seq(Plain)
  BY <1>1, EmptySeq DEF PortInv, Heard
<1>13. wire' = w /\ Coming(w)'
  BY <1>1, <1>7, <1>8, <1>11 DEF Coming
<1> QED
  BY <1>9, <1>12, <1>13, StraightAhead

\* Strays before what comes.
LEMMA GlitchStep ==
  ASSUME PortInv, Glitch
  PROVE  PortInv'
<1>1. wire' = <<"other">> \o wire /\ UNCHANGED <<buf, lines, said, open>>
  BY DEF Glitch
<1>2. Heard
  BY DEF PortInv
<1>3. PICK k \in 0 .. Len(wire) :
        /\ \A i \in 1 .. k : wire[i] = "other"
        /\ Coming(SubSeq(wire, k + 1, Len(wire)))
  BY DEF PortInv
<1>4. PICK w \in Seq(Letter) : w = wire
  BY <1>2 DEF Heard
<1>5. PICK l \in Nat : l = Len(w) /\ k \in 0 .. l
  BY <1>3, <1>4, LenProperties
<1>6. PICK b : b = <<"other">>
  OBVIOUS
<1>7. b \in Seq(Letter) /\ Len(b) = 1 /\ b[1] = "other"
  BY <1>6 DEF Letter
<1>8. PICK v : v = b \o w
  OBVIOUS
<1>9. /\ v \in Seq(Letter) /\ Len(v) = 1 + l
      /\ \A i \in 1 .. 1 + l : v[i] = IF i <= 1 THEN b[i] ELSE w[i - 1]
  <2>1. /\ v \in Seq(Letter) /\ Len(v) = Len(b) + Len(w)
        /\ \A i \in 1 .. Len(b) + Len(w) : v[i] = IF i <= Len(b) THEN b[i] ELSE w[i - Len(b)]
    BY <1>7, <1>8, ConcatProperties
  <2> QED
    BY <1>5, <1>7, <2>1
<1>10. wire' = v
  BY <1>1, <1>4, <1>6, <1>8
<1>11. ASSUME NEW i \in 1 .. k + 1 PROVE v[i] = "other"
  <2>1. i \in 1 .. 1 + l
    BY <1>5
  <2>2. CASE i <= 1
    <3>1. i = 1
      BY <2>2
    <3> QED
      BY <1>7, <1>9, <2>1, <2>2, <3>1
  <2>3. CASE ~(i <= 1)
    <3>1. i - 1 \in 1 .. k
      BY <1>5, <2>3
    <3>2. v[i] = w[i - 1]
      BY <1>9, <2>1, <2>3
    <3> QED
      BY <1>3, <1>4, <3>1, <3>2
  <2> QED
    BY <2>2, <2>3
<1>12. SubSeq(v, (k + 1) + 1, Len(v)) = SubSeq(w, k + 1, Len(w))
  <2>1. PICK a \in Nat \ {0} : a = k + 1
    BY <1>5
  <2>2. PICK d \in Nat : d = l - k
    <3>1. l - k \in Nat
      BY <1>5
    <3> QED
      BY <3>1
  <2>3. PICK c \in Nat \ {0} : c = a + 1
    BY <2>1
  <2>4. /\ SubSeq(w, a, l) \in Seq(Letter) /\ Len(SubSeq(w, a, l)) = d
        /\ \A i \in 1 .. d : SubSeq(w, a, l)[i] = w[a + i - 1]
    <3>1. l <= Len(w) /\ a <= l + 1 /\ l - a + 1 = d
      BY <1>5, <2>1, <2>2
    <3> QED
      BY <3>1, Stretch
  <2>5. PICK z \in Nat : z = l + 1
    OBVIOUS
  <2>6. /\ SubSeq(v, c, z) \in Seq(Letter) /\ Len(SubSeq(v, c, z)) = d
        /\ \A i \in 1 .. d : SubSeq(v, c, z)[i] = v[c + i - 1]
    <3>1. z <= Len(v) /\ c <= z + 1 /\ z - c + 1 = d
      BY <1>5, <1>9, <2>1, <2>2, <2>3, <2>5
    <3> QED
      BY <1>9, <3>1, Stretch
  <2>7. ASSUME NEW i \in 1 .. d PROVE SubSeq(v, c, z)[i] = SubSeq(w, a, l)[i]
    <3>1. /\ c + i - 1 \in 1 .. 1 + l /\ ~(c + i - 1 <= 1) /\ c + i - 1 - 1 = a + i - 1
      BY <1>5, <2>1, <2>2, <2>3
    <3>2. v[c + i - 1] = w[c + i - 1 - 1]
      BY <1>9, <3>1, SMTT(30)
    <3> QED
      BY <2>4, <2>6, <3>1, <3>2
  <2>8. SubSeq(v, c, z) = SubSeq(w, a, l)
    BY <2>4, <2>6, <2>7, SeqEqual
  <2>9. Len(v) = z
    BY <1>9, <2>5
  <2> QED
    BY <1>5, <2>1, <2>3, <2>8, <2>9
<1>13. PICK rest : rest = SubSeq(w, k + 1, Len(w))
  OBVIOUS
<1>14. Coming(rest)
  BY <1>3, <1>4, <1>13
<1>15. Coming(rest)'
  BY <1>1, <1>14 DEF Coming, Ending, MidLine, CutOff, Endless
<1>16. \E j \in 0 .. Len(wire') :
         /\ \A i \in 1 .. j : wire'[i] = "other"
         /\ Coming(SubSeq(wire, j + 1, Len(wire)))'
  <2>1. k + 1 \in 0 .. Len(v)
    BY <1>5, <1>9
  <2>2. SubSeq(wire', (k + 1) + 1, Len(wire')) = rest
    BY <1>10, <1>12, <1>13
  <2>3. Coming(SubSeq(wire, (k + 1) + 1, Len(wire)))'
    BY <1>15, <2>2
  <2> QED
    BY <1>10, <1>11, <2>1, <2>3
<1>17. Heard'
  BY <1>1, <1>2, <1>9, <1>10 DEF Heard
<1> QED
  BY <1>16, <1>17 DEF PortInv

LEMMA ReadStep ==
  ASSUME PortInv, Read
  PROVE  PortInv'
<1>1. wire # <<>> /\ feed(Head(wire)) /\ wire' = Tail(wire) /\ said' = said /\ open' = open
  BY DEF Read
<1>2. Heard
  BY DEF PortInv
<1>3. PICK k \in 0 .. Len(wire) :
        /\ \A i \in 1 .. k : wire[i] = "other"
        /\ Coming(SubSeq(wire, k + 1, Len(wire)))
  BY DEF PortInv
<1>4. PICK w \in Seq(Letter) : w = wire
  BY <1>2 DEF Heard
<1>5. PICK v : v = Tail(w)
  OBVIOUS
<1>6. /\ w # <<>> /\ v \in Seq(Letter) /\ Len(w) \in Nat /\ Len(w) >= 1 /\ Len(v) = Len(w) - 1
      /\ Head(wire) = w[1] /\ wire' = v
      /\ \A i \in 1 .. Len(w) - 1 : v[i] = w[i + 1]
  BY <1>1, <1>4, <1>5, TailOf
<1>7. said' \in Seq(Meant) /\ open' \in Seq(Plain)
  BY <1>1, <1>2 DEF Heard
<1>8. CASE k = 0
  <2>1. SubSeq(wire, k + 1, Len(wire)) = w
    BY <1>4, <1>8, WholeIsPrefix
  <2>2. Coming(w)
    BY <1>3, <2>1
  <2>3. feed(w[1])
    BY <1>1, <1>6
  <2>4. /\ buf' \in Seq(Letter) /\ Len(buf') <= MAX_LINE_BYTES
        /\ lines' \in Seq(Meant) /\ Coming(Tail(w))'
    BY <1>1, <1>2, <1>6, <2>2, <2>3, CharacterRead
  <2>5. Coming(v)'
    BY <1>5, <2>4
  <2> QED
    BY <1>6, <1>7, <2>4, <2>5, StraightAhead
<1>9. CASE k # 0
  <2>1. PICK j \in Nat : j + 1 = k /\ k \in Nat /\ j <= Len(w) - 1
    <3>1. k - 1 \in Nat /\ (k - 1) + 1 = k /\ k \in Nat /\ k - 1 <= Len(w) - 1
      BY <1>4, <1>6, <1>9
    <3> QED
      BY <3>1
  <2>2. w[1] = "other"
    <3>1. 1 \in 1 .. k
      BY <2>1
    <3> QED
      BY <1>3, <1>4, <3>1
  <2>3. buf' = buf /\ lines' = lines /\ said' = said /\ open' = open
    BY <1>1, <1>6, <2>2, FeedStray
  <2>4. PICK rest : rest = SubSeq(w, k + 1, Len(w))
    OBVIOUS
  <2>5. Coming(rest)
    BY <1>3, <1>4, <2>4
  <2>6. Coming(rest)'
    BY <2>3, <2>5 DEF Coming, Ending, MidLine, CutOff, Endless
  <2>7. SubSeq(v, j + 1, Len(v)) = rest
    <3>1. PICK l \in Nat : l = Len(v) /\ l + 1 = Len(w)
      BY <1>6, LenProperties
    <3>2. PICK d \in Nat : d = l - j
      <4>1. l - j \in Nat
        BY <2>1, <3>1
      <4> QED
        BY <4>1
    <3>3. PICK a \in Nat \ {0} : a = j + 1
      OBVIOUS
    <3>4. PICK c \in Nat \ {0} : c = k + 1
      BY <2>1
    <3>5. PICK z \in Nat : z = Len(w)
      BY <1>6
    <3>6. /\ SubSeq(v, a, l) \in Seq(Letter) /\ Len(SubSeq(v, a, l)) = d
          /\ \A i \in 1 .. d : SubSeq(v, a, l)[i] = v[a + i - 1]
      <4>1. l <= Len(v) /\ a <= l + 1 /\ l - a + 1 = d
        BY <2>1, <3>1, <3>2, <3>3
      <4> QED
        BY <1>6, <4>1, Stretch
    <3>7. /\ SubSeq(w, c, z) \in Seq(Letter) /\ Len(SubSeq(w, c, z)) = d
          /\ \A i \in 1 .. d : SubSeq(w, c, z)[i] = w[c + i - 1]
      <4>1. z <= Len(w) /\ c <= z + 1 /\ z - c + 1 = d
        BY <2>1, <3>1, <3>2, <3>4, <3>5
      <4> QED
        BY <4>1, Stretch
    <3>8. ASSUME NEW i \in 1 .. d PROVE SubSeq(v, a, l)[i] = SubSeq(w, c, z)[i]
      <4>1. a + i - 1 \in 1 .. Len(w) - 1 /\ a + i - 1 + 1 = c + i - 1
        BY <2>1, <3>1, <3>2, <3>3, <3>4
      <4>2. v[a + i - 1] = w[a + i - 1 + 1]
        BY <1>6, <4>1
      <4> QED
        BY <3>6, <3>7, <4>1, <4>2
    <3>9. SubSeq(v, a, l) = SubSeq(w, c, z)
      BY <3>6, <3>7, <3>8, SeqEqual
    <3> QED
      BY <2>4, <3>1, <3>3, <3>4, <3>5, <3>9
  <2>8. ASSUME NEW i \in 1 .. j PROVE v[i] = "other"
    <3>1. i \in 1 .. Len(w) - 1 /\ i + 1 \in 1 .. k
      BY <1>6, <2>1
    <3> QED
      BY <1>3, <1>4, <1>6, <3>1
  <2>9. \E n \in 0 .. Len(wire') :
          /\ \A i \in 1 .. n : wire'[i] = "other"
          /\ Coming(SubSeq(wire, n + 1, Len(wire)))'
    <3>1. j \in 0 .. Len(v)
      BY <1>6, <2>1
    <3>2. SubSeq(wire', j + 1, Len(wire')) = rest
      BY <1>6, <2>7
    <3>3. Coming(SubSeq(wire, j + 1, Len(wire)))'
      BY <2>6, <3>2
    <3> QED
      BY <1>6, <2>8, <3>1, <3>3
  <2>10. Heard'
    BY <1>2, <1>6, <2>3 DEF Heard
  <2> QED
    BY <2>9, <2>10 DEF PortInv
<1> QED
  BY <1>8, <1>9

LEMMA PortNextHolds == PortInv /\ [PortNext]_portVars => PortInv'
<1> SUFFICES ASSUME PortInv, [PortNext]_portVars PROVE PortInv'
  OBVIOUS
<1>1. ASSUME NEW f \in BusFrames, NEW e \in Ends, SendFrame(f, e) PROVE PortInv'
  BY <1>1, SendFrameStep
<1>2. ASSUME NEW r \in Replies, NEW e \in Ends, SendReply(r, e) PROVE PortInv'
  BY <1>2, SendReplyStep
<1>3. ASSUME NEW f \in BusFrames, NEW n \in {0, 4}, Refuse(f, n) PROVE PortInv'
  BY <1>3, RefuseStep
<1>4. ASSUME NEW e \in Ends, Acknowledge(e) PROVE PortInv'
  BY <1>4, AcknowledgeStep
<1>5. ASSUME NEW x \in Noises, NEW e \in Ends \cup {<<>>}, Babble(x, e) PROVE PortInv'
  BY <1>5, BabbleStep
<1>6. CASE Glitch
  BY <1>6, GlitchStep
<1>7. CASE Read
  BY <1>7, ReadStep
<1>8. CASE UNCHANGED portVars
  <2>1. buf' = buf /\ lines' = lines /\ said' = said /\ open' = open /\ wire' = wire
    BY <1>8 DEF portVars
  <2> QED
    BY <2>1 DEF PortInv, Heard, Coming, Ending, MidLine, CutOff, Endless
<1> QED
  BY <1>1, <1>2, <1>3, <1>4, <1>5, <1>6, <1>7, <1>8 DEF PortNext

LEMMA PortInvariance == PortSpec => []PortInv
<1>1. PortInit => PortInv
  BY PortInitHolds
<1>2. PortInv /\ [PortNext]_portVars => PortInv'
  BY PortNextHolds
<1> QED
  BY <1>1, <1>2, PTL DEF PortSpec

-----------------------------------------------------------------------------
\* For every text without a meaning, of any length, with an end or without: a
\* line that begins behind an end or a bell comes out once, in order and as it
\* was meant, what follows an overlong text is what the bound leaves of it, and
\* the decoder never buffers more than the bound.
THEOREM LinesAreComplete == PortSpec => []LinesComplete
<1>1. PortInv => LinesComplete
  <2> SUFFICES ASSUME PortInv PROVE LinesComplete
    OBVIOUS
  <2>1. wire = <<>> => lines = said /\ buf = Retained(open)
    BY NothingInProgress
  <2>2. PICK k \in 0 .. Len(wire) : Coming(SubSeq(wire, k + 1, Len(wire)))
    BY DEF PortInv
  <2>3. lines \in Seq(Meant) /\ Len(buf) <= MAX_LINE_BYTES
    BY DEF PortInv, Heard
  <2>4. \E more \in Seq(Meant) : said = lines \o more
    <3>1. CASE lines = said
      <4>1. lines \o <<>> = said /\ <<>> \in Seq(Meant)
        BY <2>3, <3>1, ConcatEmptySeq, EmptySeq
      <4> QED
        BY <4>1
    <3>2. CASE lines # said
      <4>1. PICK read \in Seq(Plain), ahead \in Seq(Plain) : said = lines \o Remains(read \o ahead)
        BY <2>2, <3>2 DEF Coming, Ending, MidLine, CutOff, Endless
      <4>2. read \o ahead \in Seq(Plain)
        BY ConcatProperties
      <4> QED
        BY <4>1, <4>2, RemainsIsLine
    <3> QED
      BY <3>1, <3>2
  <2>5. IsPrefix(lines, said)
    <3>1. PICK more \in Seq(Meant) : said = lines \o more
      BY <2>4
    <3>2. PICK n \in Nat : n = Len(lines)
      BY <2>3, LenProperties
    <3>3. PICK o \in Nat : o = Len(more)
      BY LenProperties
    <3>4. /\ said \in Seq(Meant) /\ Len(said) = n + o
          /\ \A i \in 1 .. n : said[i] = lines[i]
      <4>1. /\ said \in Seq(Meant) /\ Len(said) = Len(lines) + Len(more)
            /\ \A i \in 1 .. Len(lines) + Len(more) :
                 said[i] = IF i <= Len(lines) THEN lines[i] ELSE more[i - Len(lines)]
        BY <2>3, <3>1, ConcatProperties
      <4>2. ASSUME NEW i \in 1 .. n PROVE said[i] = lines[i]
        <5>1. i \in 1 .. Len(lines) + Len(more) /\ i <= Len(lines)
          BY <3>2, <3>3
        <5> QED
          BY <4>1, <5>1
      <4> QED
        BY <3>2, <3>3, <4>1, <4>2
    <3>5. SubSeq(said, 1, n) = SubSeq(lines, 1, n)
      <4>1. n <= Len(said) /\ n <= Len(lines) /\ 1 <= n + 1 /\ n - 1 + 1 = n /\ 1 \in Nat \ {0}
        BY <3>2, <3>3, <3>4
      <4>2. /\ SubSeq(said, 1, n) \in Seq(Meant) /\ Len(SubSeq(said, 1, n)) = n
            /\ \A i \in 1 .. n : SubSeq(said, 1, n)[i] = said[1 + i - 1]
        BY <3>4, <4>1, Stretch
      <4>3. /\ SubSeq(lines, 1, n) \in Seq(Meant) /\ Len(SubSeq(lines, 1, n)) = n
            /\ \A i \in 1 .. n : SubSeq(lines, 1, n)[i] = lines[1 + i - 1]
        BY <2>3, <4>1, Stretch
      <4>4. ASSUME NEW i \in 1 .. n PROVE SubSeq(said, 1, n)[i] = SubSeq(lines, 1, n)[i]
        <5>1. 1 + i - 1 = i
          OBVIOUS
        <5> QED
          BY <3>4, <4>2, <4>3, <5>1
      <4> QED
        BY <4>2, <4>3, <4>4, SeqEqual
    <3>6. Len(lines) <= Len(said)
      BY <3>2, <3>3, <3>4
    <3> QED
      BY <3>2, <3>5, <3>6 DEF IsPrefix
  <2> QED
    BY <2>1, <2>3, <2>5 DEF LinesComplete
<1> QED
  BY <1>1, PortInvariance, PTL
=============================================================================
