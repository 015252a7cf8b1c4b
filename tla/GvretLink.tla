----------------------------- MODULE GvretLink -----------------------------
(***************************************************************************)
(* A GVRET connection: a client that asks, a device that answers and       *)
(* pushes captured frames, and a byte stream each way that is read in      *)
(* chunks of any size. The two decoders and the encoders are the code's;   *)
(* the client and the server around them are not in the repository.        *)
(*                                                                         *)
(* The client may speak before its handshake (noise), may or may not send  *)
(* the checksum after a transmit, and may have joined in the middle of     *)
(* what the device was saying (rubbish). Each stream is kept whole, with   *)
(* how far its reader has come.                                            *)
(***************************************************************************)
EXTENDS GvretHost, GvretDevice, FiniteSets

CONSTANTS
  Asks,        \* what the client may ask: [op] or a transmit
  Pushes,      \* the frames the device may capture
  Noises,      \* what the client may have sent before its handshake
  Rubbish,     \* what the host may hear first
  ChunkSizes,  \* how many bytes one read may return
  MaxMessages  \* bound: commands asked and frames captured

\* An id that fits its 29 or 11 bits, as four bytes.
FitsMask(id, extended) ==
  /\ id \in Seq(Byte) /\ Len(id) = 4
  /\ IF extended THEN id[4] < 32 ELSE id[2] < 8 /\ id[3] = 0 /\ id[4] = 0

\* No two bytes of b in a row are a handshake.
SyncFree(b) == \A i \in 1 .. Len(b) - 1 : b[i] = SYNC[1] => b[i + 1] # SYNC[2]

Request == [op : Requests]

\* A transmit a device can act on whole: at most eight bytes, and none of its
\* bytes read together as a handshake.
Transmit ==
  {a \in [op : {OP_FRAME}, bus : Byte, id : Seq(Byte), extended : BOOLEAN, data : Seq(Byte)] :
     FitsMask(a.id, a.extended) /\ Len(a.data) <= 8 /\ SyncFree(EncodeTransmit(a))}

\* A frame of a bus, CAN or CAN FD.
Capture ==
  {f \in [ts : Seq(Byte), bus : 0 .. 15, id : Seq(Byte), extended : BOOLEAN,
          data : Seq(Byte), fd : BOOLEAN] :
     /\ Len(f.ts) = 4 /\ FitsMask(f.id, f.extended)
     /\ Len(f.data) <= IF f.fd THEN 64 ELSE 8}

ASSUME LinkAssumption ==
  /\ Asks \subseteq Request \cup Transmit
  /\ Pushes \subseteq Capture
  /\ \A noise \in Noises : noise \in Seq(Byte) /\ SyncFree(noise)
  /\ Rubbish \subseteq Seq(Byte)
  /\ ChunkSizes \cup {MaxMessages} \subseteq Nat

VARIABLES
  spoken,   \* every byte the client has sent
  got,      \* how many of them the device has read
  asked,    \* what the client asked, in order
  asks,     \* where in "spoken" each of those begins and ends
  served,   \* how many commands the device has acted on
  wire,     \* every byte the host may hear
  fed,      \* how many of them it has read
  said,     \* what the device said, in order, as the host should hear it
  spans,    \* where in "wire" each of those begins and ends
  pushed,   \* how many of those are captured frames
  rubbish   \* what the host may hear first

linkVars == <<hostVars, devVars, spoken, got, asked, asks, served, wire, fed, said, spans,
              pushed, rubbish>>

LinkInit ==
  /\ HostInit
  /\ DevInit
  /\ \E noise \in Noises : spoken = noise \o SYNC
  /\ rubbish \in Rubbish
  /\ wire = rubbish
  /\ asked = <<>> /\ asks = <<>> /\ said = <<>> /\ spans = <<>>
  /\ got = 0 /\ fed = 0 /\ served = 0 /\ pushed = 0

-----------------------------------------------------------------------------
(* The client and the server.                                              *)

\* Where a message of n bytes lies that is put behind what is on a line.
Behind(line, n) == [first |-> Len(line) + 1, last |-> Len(line) + n]

Ask(a, checksum) ==
  /\ Len(asked) + pushed < MaxMessages
  /\ asked' = Append(asked, a)
  /\ LET bytes == IF a.op = OP_FRAME THEN EncodeTransmit(a) ELSE EncodeRequest(a.op)
         rest  == IF a.op = OP_FRAME THEN checksum ELSE <<>>
     IN  /\ spoken' = spoken \o (bytes \o rest)
         /\ asks' = Append(asks, Behind(spoken, Len(bytes)))
  /\ UNCHANGED <<hostVars, devVars, got, served, wire, fed, said, spans, pushed, rubbish>>

\* The fields of each reply; what a timebase says does not matter here.
Answer(op) ==
  CASE op = OP_TIMEBASE      -> <<CMD, 0, 0, 1>>
    [] op = OP_CANBUS_PARAMS -> <<1, 32, 161, 7, 0, 0, 0, 0, 0, 0>>
    [] op = OP_DEV_INFO      -> <<144, 1, 1, 0, 0, 0>>
    [] op = OP_KEEPALIVE     -> <<222, 173>>
    [] op = OP_NUM_BUSES     -> <<2>>

\* The device answers a request, and transmits a transmit.
Serve ==
  /\ served < Len(commands)
  /\ served' = served + 1
  /\ LET op    == commands[served + 1].op
         bytes == EncodeReply(op, Answer(op))
     IN  IF op = OP_FRAME
         THEN UNCHANGED <<wire, said, spans>>
         ELSE /\ wire' = wire \o bytes
              /\ said' = Append(said, [op |-> op, body |-> Answer(op)])
              /\ spans' = Append(spans, Behind(wire, Len(bytes)))
  /\ UNCHANGED <<hostVars, devVars, spoken, got, asked, asks, fed, pushed, rubbish>>

\* What a client should make of a captured frame: its payload zero-padded to
\* the next length CAN FD knows, never cut short for want of a code.
Captured(f) ==
  LET fits == {n \in 0 .. 64 : n >= Len(f.data) /\ \E c \in 0 .. 15 : n = FD_DLC_LEN[c]}
      len  == CHOOSE n \in fits : \A k \in fits : n <= k
  IN  [op |-> OP_FRAME, ts |-> f.ts, id |-> f.id, extended |-> f.extended, bus |-> f.bus,
       dlc |-> CHOOSE c \in 0 .. 15 : FD_DLC_LEN[c] = len,
       data |-> f.data \o [i \in 1 .. len - Len(f.data) |-> 0]]

\* A frame off the bus goes to every client that has shaken hands. Its
\* checksum is no part of it.
Push(f) ==
  /\ binary
  /\ Len(asked) + pushed < MaxMessages
  /\ pushed' = pushed + 1
  /\ wire' = wire \o EncodeFrame(f)
  /\ said' = Append(said, Captured(f))
  /\ spans' = Append(spans, Behind(wire, Len(EncodeFrame(f)) - 1))
  /\ UNCHANGED <<hostVars, devVars, spoken, got, asked, asks, served, fed, rubbish>>

-----------------------------------------------------------------------------
(* The two reads.                                                          *)

\* How far a read of at most n bytes comes.
Reach(line, from, n) == IF from + n < Len(line) THEN from + n ELSE Len(line)

DeviceReads(n) ==
  /\ got < Len(spoken)
  /\ got' = Reach(spoken, got, n)
  /\ DevFeed(SubSeq(spoken, got + 1, got'))
  /\ UNCHANGED <<hostVars, spoken, asked, asks, served, wire, fed, said, spans, pushed, rubbish>>

DeviceRuns ==
  /\ DevPass
  /\ UNCHANGED <<hostVars, spoken, got, asked, asks, served, wire, fed, said, spans, pushed,
                 rubbish>>

HostReads(n) ==
  /\ fed < Len(wire)
  /\ fed' = Reach(wire, fed, n)
  /\ HostFeed(SubSeq(wire, fed + 1, fed'))
  /\ UNCHANGED <<devVars, spoken, got, asked, asks, served, wire, said, spans, pushed, rubbish>>

HostRuns ==
  /\ HostPass
  /\ UNCHANGED <<devVars, spoken, got, asked, asks, served, wire, fed, said, spans, pushed,
                 rubbish>>

LinkNext ==
  \/ \E a \in Asks, checksum \in {<<>>, <<0>>} : Ask(a, checksum)
  \/ Serve
  \/ \E f \in Pushes : Push(f)
  \/ \E n \in ChunkSizes : DeviceReads(n) \/ HostReads(n)
  \/ DeviceRuns
  \/ HostRuns

LinkSpec == LinkInit /\ [][LinkNext]_linkVars

-----------------------------------------------------------------------------
\* The device acts on what the client asked: each command whole, once and in
\* order, whatever came before the handshake and however the stream is cut,
\* with the checksum nobody expects after a transmit or without it.
Commands == INSTANCE FramedLine WITH sent <- asked, delivered <- commands

CommandsKept == Commands!Spec

\* How many of the messages that lie at "where" end within the first n bytes.
Whole(where, n) == Cardinality({k \in 1 .. Len(where) : where[k].last <= n})

\* How many messages the host has behind it.
Done == Whole(spans, fed - Len(hostBuf))

\* What looks like the head of a message in what the host heard first, and
\* where the message it announces would end; a length code that is not there
\* yet may turn out to be the largest.
FalseHeads ==
  {i \in 1 .. Len(rubbish) - 1 : rubbish[i] = CMD /\ rubbish[i + 1] \in Requests \cup {OP_FRAME}}

Claimed(i) ==
  i - 1 + IF rubbish[i + 1] # OP_FRAME THEN ReplyLen(rubbish[i + 1])
          ELSE IF i + FRAME_HEADER - 1 > Len(rubbish) THEN FRAME_HEADER + 64
          ELSE FrameLen(Drop(rubbish, i - 1))

\* Nothing in a message but its first byte looks like a sync byte.
Plain(m) ==
  LET bytes == IF m.op = OP_FRAME THEN m.ts \o m.id \o <<16 * m.bus + m.dlc>> \o m.data
                                  ELSE m.body
  IN  \A i \in 1 .. Len(bytes) : bytes[i] # CMD

EndsWith(s, t) == Len(t) <= Len(s) /\ Drop(s, Len(s) - Len(t)) = t

\* A host that joins at a message boundary, or in a part of a message with no
\* sync byte a known opcode follows, hears exactly what was said: each
\* message once, in order, unaltered, whatever its payload looks like. A false
\* head may swallow what it claims to be long, and be heard as a message of its
\* own; every plain message beyond its reach is heard: framing is lost for one
\* message, not for good.
RepliesRecover ==
  /\ FalseHeads = {} => heard = Prefix(said, Done)
  /\ \A first \in 1 .. Done :
       (\A k \in 1 .. Done : Plain(said[k]))
         /\ (\A i \in FalseHeads : Claimed(i) < spans[first].first)
       => EndsWith(heard, SubSeq(said, first, Done))

\* Neither end holds back what it has: between calls every command whose last
\* byte has been read has been acted on, and every message whose last byte has
\* been read has been heard, without anything more having to come.
NothingHeldBack ==
  /\ ~serving => commands = Prefix(asked, Whole(asks, got))
  /\ ~reading /\ FalseHeads = {} => heard = Prefix(said, Whole(spans, fed))
=============================================================================
