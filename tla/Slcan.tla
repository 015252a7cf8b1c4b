------------------------------- MODULE Slcan -------------------------------
(***************************************************************************)
(* SLCAN frames and the line decoder (crates/wiretap-protocol/src/         *)
(* slcan.rs). A character is a one-letter string; "CR", "LF", "BELL" and    *)
(* "other" stand for the characters that have no letter. Identifiers are    *)
(* eight hexadecimal digits, most significant first.                       *)
(***************************************************************************)
EXTENDS Dlc, Sequences, SequencesExt

CONSTANT MAX_LINE_BYTES  \* the longest line that is accumulated

ASSUME LineBoundAssumption == MAX_LINE_BYTES \in Nat \ {0}

VARIABLES
  buf,    \* the line in progress
  lines   \* the lines completed so far

Upper == <<"0", "1", "2", "3", "4", "5", "6", "7", "8", "9", "A", "B", "C", "D", "E", "F">>
Lower == <<"a", "b", "c", "d", "e", "f">>

Digit == [n \in 0 .. 15 |-> Upper[n + 1]]
HexDigits == ToSet(Upper) \cup ToSet(Lower)
DigitValue == [c \in HexDigits |->
  CHOOSE n \in 0 .. 15 : Digit[n] = c \/ (n > 9 /\ Lower[IF n > 9 THEN n - 9 ELSE 1] = c)]

\* Digits, with the sign that from_str_radix allows before them.
Unsigned(cs) == IF Len(cs) > 1 /\ cs[1] = "+" THEN Tail(cs) ELSE cs
IsHex(cs)    == cs # <<>> /\ \A i \in 1 .. Len(Unsigned(cs)) : Unsigned(cs)[i] \in HexDigits
Digits(cs)   == [i \in 1 .. Len(Unsigned(cs)) |-> DigitValue[Unsigned(cs)[i]]]

Zeros(n) == [i \in 1 .. n |-> 0]
WidenTo(n, digits) == Zeros(n - Len(digits)) \o digits

-----------------------------------------------------------------------------
\* The four flags live in the prefix.
Flags == [c \in {"t", "T", "r", "R", "d", "D", "b", "B"} |->
  [extended |-> c \in {"T", "R", "D", "B"}, rtr |-> c \in {"r", "R"},
   fd |-> c \in {"d", "D", "b", "B"},       brs |-> c \in {"b", "B"}]]

Prefix(f) ==
  CHOOSE c \in DOMAIN Flags :
    Flags[c] = [extended |-> f.extended, rtr |-> f.rtr, fd |-> ~f.rtr /\ f.fd,
                brs |-> ~f.rtr /\ f.fd /\ f.brs]

\* Frame::data and Frame::remote.
DataFrame(id, extended, fd, brs, data) ==
  [arb_id |-> id, extended |-> extended, rtr |-> FALSE, fd |-> fd, brs |-> brs,
   dlc |-> PayloadDlc(Len(data), fd), data |-> data]
RemoteFrame(id, extended, dlc) ==
  [arb_id |-> id, extended |-> extended, rtr |-> TRUE, fd |-> FALSE, brs |-> FALSE,
   dlc |-> IF dlc < 8 THEN dlc ELSE 8, data |-> <<>>]

PayloadLen(rtr, dlc, fd) == IF rtr THEN 0 ELSE DlcToLen(dlc, fd)

\* The digits of an identifier: masked to 29 bits, or to the last 11.
IdDigits(f) ==
  IF f.extended THEN <<f.arb_id[1] % 2>> \o SubSeq(f.arb_id, 2, 8)
                ELSE <<f.arb_id[6] % 8, f.arb_id[7], f.arb_id[8]>>

\* The payload on the wire: cut or zero-padded to the length its code names.
Padded(f) == [i \in 1 .. PayloadLen(f.rtr, f.dlc, f.fd) |->
                IF i <= Len(f.data) THEN f.data[i] ELSE 0]

Letters(digits) == [i \in 1 .. Len(digits) |-> Digit[digits[i]]]

HexPairs(bytes) ==
  [i \in 1 .. 2 * Len(bytes) |->
     IF i % 2 = 1 THEN Digit[bytes[(i + 1) \div 2] \div 16] ELSE Digit[bytes[i \div 2] % 16]]

\* The line of a frame, and the line with its terminator.
FrameText(f) ==
  <<Prefix(f)>> \o Letters(IdDigits(f)) \o <<Digit[f.dlc % 16]>> \o HexPairs(Padded(f))

encode_frame(f) == FrameText(f) \o <<"CR">>

-----------------------------------------------------------------------------
\* Where the length code of a line stands; the payload follows it.
CodeAt(b) == IF Flags[b[1]].extended THEN 10 ELSE 5

PairAt(b, i) == SubSeq(b, CodeAt(b) + 2 * i - 1, CodeAt(b) + 2 * i)

\* A line that is a frame. What follows the payload is not looked at.
IsFrame(b) ==
  /\ b # <<>>
  /\ b[1] \in DOMAIN Flags
  /\ Len(b) >= CodeAt(b)
  /\ IsHex(SubSeq(b, 2, CodeAt(b) - 1))
  /\ b[CodeAt(b)] \in HexDigits
  /\ LET flags == Flags[b[1]]
         dlc   == DigitValue[b[CodeAt(b)]]
         len   == PayloadLen(flags.rtr, dlc, flags.fd)
     IN  /\ flags.fd \/ dlc <= 8
         /\ Len(b) >= CodeAt(b) + 2 * len
         /\ \A i \in 1 .. len : IsHex(PairAt(b, i))

parse_frame(b) ==
  LET flags == Flags[b[1]]
      dlc   == DigitValue[b[CodeAt(b)]]
      Value(i) == LET d == WidenTo(2, Digits(PairAt(b, i))) IN 16 * d[1] + d[2]
  IN  [arb_id |-> WidenTo(8, Digits(SubSeq(b, 2, CodeAt(b) - 1))),
       extended |-> flags.extended, rtr |-> flags.rtr, fd |-> flags.fd, brs |-> flags.brs,
       dlc |-> dlc, data |-> [i \in 1 .. PayloadLen(flags.rtr, dlc, flags.fd) |-> Value(i)]]

FrameLine(f) == [kind |-> "Frame", frame |-> f]
ReplyLine(b) == [kind |-> "Reply", text |-> b]
LineOf(b)    == IF IsFrame(b) THEN FrameLine(parse_frame(b)) ELSE ReplyLine(b)

-----------------------------------------------------------------------------
\* LineDecoder::feed keeps nothing but the line in progress, so feeding a
\* chunk is feeding its characters one after the other.
Printable(c) == c \notin {"CR", "LF", "BELL", "other"}

EndLine(c) ==
  /\ c \in {"CR", "LF"}
  /\ lines' = IF buf = <<>> THEN lines ELSE Append(lines, LineOf(buf))
  /\ buf' = <<>>

Discard(c) == c = "BELL" /\ buf' = <<>> /\ UNCHANGED lines

\* Variant: what has grown past the bound is cut short, not abandoned.
AccumulateTruncated(c) ==
  /\ Printable(c)
  /\ buf' = IF Len(buf) + 1 > MAX_LINE_BYTES THEN buf ELSE Append(buf, c)
  /\ UNCHANGED lines

\* A line grown past the bound is abandoned, and its next character is taken
\* for the first of a line.
Accumulate(c) ==
  /\ Printable(c)
  /\ buf' = IF Len(buf) + 1 > MAX_LINE_BYTES THEN <<>> ELSE Append(buf, c)
  /\ UNCHANGED lines

Ignore(c) == c = "other" /\ UNCHANGED <<buf, lines>>

feed(c) == EndLine(c) \/ Discard(c) \/ Accumulate(c) \/ Ignore(c)

DecoderInit == buf = <<>> /\ lines = <<>>

-----------------------------------------------------------------------------
(* A serial port with a device at the other end: frames it has seen on its *)
(* bus, answers to commands, refusals, and what a line picks up on the way.*)

CONSTANTS
  BusFrames,   \* the frames on the device's bus
  Replies,     \* the answers to queries
  Noises,      \* texts without a meaning: of any length, with an end or without
  Ends,        \* how the device ends its lines
  MaxLines,    \* bound: lines the device sends
  MaxTrouble   \* bound: refusals, texts without a meaning and stray characters

\* What frames are: CAN FD has no remote request, classic CAN no code above 8.
BusFrame ==
  {f \in [arb_id : Seq(0 .. 15), extended : BOOLEAN, rtr : BOOLEAN, fd : BOOLEAN, brs : BOOLEAN,
          dlc : 0 .. 15, data : Seq(0 .. 255)] :
     Len(f.arb_id) = 8 /\ (f.rtr => ~f.fd) /\ (f.fd \/ f.dlc <= 8)}

\* No answer reads as a frame, and no line that is meant is longer than the
\* decoder allows.
ASSUME PortAssumption ==
  /\ \A f \in BusFrames : f \in BusFrame /\ Len(FrameText(f)) <= MAX_LINE_BYTES
  /\ \A r \in Replies :
       /\ r \in Seq(STRING) /\ r # <<>> /\ Len(r) <= MAX_LINE_BYTES
       /\ \A i \in 1 .. Len(r) : Printable(r[i])
       /\ ~IsFrame(r)
  /\ \A x \in Noises : x \in Seq(STRING) /\ \A i \in 1 .. Len(x) : Printable(x[i])
  /\ \A e \in Ends : e \in Seq({"CR", "LF"}) /\ e # <<>>
  /\ MaxLines \in Nat /\ MaxTrouble \in Nat

VARIABLES
  said,     \* the lines that are to come of what the device has sent
  open,     \* what it has sent behind the last end of a line or bell
  wire,     \* the characters not read yet
  trouble

portVars == <<buf, lines, said, open, wire, trouble>>

PortInit == DecoderInit /\ said = <<>> /\ open = <<>> /\ wire = <<>> /\ trouble = 0

\* What is on a bus: an identifier of its width, a payload of its length, and
\* a rate switch only in CAN FD.
AsOnTheBus(f) ==
  [arb_id |-> WidenTo(8, IdDigits(f)), extended |-> f.extended, rtr |-> f.rtr, fd |-> f.fd,
   brs |-> f.fd /\ f.brs, dlc |-> f.dlc, data |-> Padded(f)]

\* A text is abandoned as often as it fills the bound and one more: what is
\* kept of it is what lies behind the last such stretch.
Retained(text) ==
  SubSeq(text, Len(text) - (Len(text) % (MAX_LINE_BYTES + 1)) + 1, Len(text))

\* The line that comes of a text with no regard to what was meant, if any does.
Remains(text) == IF Retained(text) = <<>> THEN <<>> ELSE <<LineOf(Retained(text))>>

\* The line that is to come of a text: the one meant, unless the text runs on
\* from one that was never ended.
Due(text, line) == IF open = <<>> THEN <<line>> ELSE Remains(open \o text)

SendFrame(f, end) ==
  /\ wire = <<>> /\ Len(said) < MaxLines
  /\ wire' = FrameText(f) \o end
  /\ said' = said \o Due(FrameText(f), FrameLine(AsOnTheBus(f)))
  /\ open' = <<>>
  /\ UNCHANGED <<buf, lines, trouble>>

SendReply(text, end) ==
  /\ wire = <<>> /\ Len(said) < MaxLines
  /\ wire' = text \o end
  /\ said' = said \o Due(text, ReplyLine(text))
  /\ open' = <<>>
  /\ UNCHANGED <<buf, lines, trouble>>

\* The line in progress is cut off by a bell.
Refuse(f, n) ==
  /\ wire = <<>> /\ trouble < MaxTrouble
  /\ wire' = SubSeq(encode_frame(f), 1, n) \o <<"BELL">>
  /\ open' = <<>>
  /\ trouble' = trouble + 1
  /\ UNCHANGED <<buf, lines, said>>

\* A success is an end with nothing before it.
Acknowledge(end) ==
  /\ wire = <<>> /\ trouble < MaxTrouble
  /\ wire' = end
  /\ said' = said \o Remains(open)
  /\ open' = <<>>
  /\ trouble' = trouble + 1
  /\ UNCHANGED <<buf, lines>>

\* A text without a meaning, left without an end or ended.
Babble(text, end) ==
  /\ wire = <<>> /\ trouble < MaxTrouble
  /\ wire' = text \o end
  /\ IF end = <<>> THEN open' = open \o text /\ UNCHANGED said
                   ELSE open' = <<>> /\ said' = said \o Remains(open \o text)
  /\ trouble' = trouble + 1
  /\ UNCHANGED <<buf, lines>>

\* A character that is no character of a line gets into one.
Glitch ==
  /\ wire # <<>> /\ trouble < MaxTrouble
  /\ wire' = <<"other">> \o wire
  /\ trouble' = trouble + 1
  /\ UNCHANGED <<buf, lines, said, open>>

Read ==
  /\ wire # <<>>
  /\ feed(Head(wire))
  /\ wire' = Tail(wire)
  /\ UNCHANGED <<said, open, trouble>>

PortNext ==
  \/ \E f \in BusFrames, end \in Ends : SendFrame(f, end)
  \/ \E r \in Replies, end \in Ends : SendReply(r, end)
  \/ \E f \in BusFrames, n \in {0, 4} : Refuse(f, n)
  \/ \E end \in Ends : Acknowledge(end)
  \/ \E x \in Noises, end \in Ends \cup {<<>>} : Babble(x, end)
  \/ Glitch
  \/ Read

PortSpec == PortInit /\ [][PortNext]_portVars

-----------------------------------------------------------------------------
\* A line that begins behind an end or a bell comes out once, in order and as
\* it was meant, whatever was sent before it. Of an overlong text comes what lies
\* behind the last stretch abandoned, and nothing else: as a line of its own, or
\* in front of the line the text runs into. A text never ended costs at most that
\* line, and a refused one or a stray character none. With everything read no
\* line is outstanding, and what is buffered is what was kept of a text that has
\* no end yet: never more than the bound.
LinesComplete ==
  /\ Len(buf) <= MAX_LINE_BYTES
  /\ IsPrefix(lines, said)
  /\ wire = <<>> => lines = said /\ buf = Retained(open)
=============================================================================
