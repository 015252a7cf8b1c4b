------------------------------- MODULE Gvret -------------------------------
(***************************************************************************)
(* The GVRET wire format (crates/wiretap-protocol/src/gvret.rs): what the  *)
(* encoders of either end put on a connection.                             *)
(*                                                                         *)
(* Multi-byte fields are kept as the little-endian bytes they travel as;   *)
(* the flag and the masks of an id word are then those of its last bytes.  *)
(***************************************************************************)
EXTENDS Dlc, Sequences

Byte == 0 .. 255

CMD  == 241           \* 0xF1
SYNC == <<231, 231>>  \* 0xE7 0xE7

OP_FRAME         == 0
OP_TIMEBASE      == 1
OP_CANBUS_PARAMS == 6
OP_DEV_INFO      == 7
OP_KEEPALIVE     == 9
OP_NUM_BUSES     == 12

Requests == {OP_TIMEBASE, OP_CANBUS_PARAMS, OP_DEV_INFO, OP_KEEPALIVE, OP_NUM_BUSES}

FRAME_HEADER    == 11
TRANSMIT_HEADER == 8

Prefix(b, n) == SubSeq(b, 1, n)
Drop(b, n)   == SubSeq(b, n + 1, Len(b))

\* The top bit of the word marks an extended id; 29 or 11 bits are the id.
Extended(word) == word[4] >= 128
SplitId(word) ==
  IF Extended(word) THEN <<word[1], word[2], word[3], word[4] % 32>>
                    ELSE <<word[1], word[2] % 8, 0, 0>>

MakeId(id, extended) ==
  IF extended THEN <<id[1], id[2], id[3], 128 + (id[4] % 32)>>
              ELSE <<id[1], id[2] % 8, 0, 0>>

\* A payload cut or zero-padded to the length its code claims.
Padded(data, len) == [i \in 1 .. len |-> IF i <= Len(data) THEN data[i] ELSE 0]

\* encode_frame_into: a captured frame; the last byte is the checksum.
EncodeFrame(f) ==
  LET dlc == PayloadDlc(Len(f.data), f.fd)
  IN  <<CMD, OP_FRAME>> \o f.ts \o MakeId(f.id, f.extended)
        \o <<16 * (f.bus % 16) + dlc>> \o Padded(f.data, DlcToLen(dlc, f.fd)) \o <<0>>

\* encode_timebase, encode_canbus_params, ...: a reply is its fields.
EncodeReply(op, body) == <<CMD, op>> \o body

\* How long each reply is on the wire.
ReplyLen(op) ==
  CASE op = OP_TIMEBASE      -> 6
    [] op = OP_CANBUS_PARAMS -> 12
    [] op = OP_DEV_INFO      -> 8
    [] op = OP_KEEPALIVE     -> 4
    [] op = OP_NUM_BUSES     -> 3

EncodeRequest(op) == <<CMD, op>>

\* encode_transmit_into: a byte count where a captured frame has a code, no
\* timestamp and no checksum.
EncodeTransmit(t) ==
  LET take == IF Len(t.data) < 64 THEN Len(t.data) ELSE 64
  IN  <<CMD, OP_FRAME>> \o MakeId(t.id, t.extended) \o <<t.bus, take>>
        \o Prefix(t.data, take)
=============================================================================
