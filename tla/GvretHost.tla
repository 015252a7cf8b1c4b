----------------------------- MODULE GvretHost -----------------------------
(***************************************************************************)
(* DeviceDecoder (crates/wiretap-protocol/src/gvret.rs): the host's end of *)
(* a GVRET connection, which reads what a device sends.                    *)
(*                                                                         *)
(* A call of feed runs a loop; one round of it is one step, and "reading"  *)
(* is TRUE from the call until it returns.                                 *)
(***************************************************************************)
EXTENDS Gvret

CONSTANT MAX_RESYNC_BYTES  \* 1024 in the code

ASSUME ResyncAssumption == MAX_RESYNC_BYTES \in Nat

VARIABLES
  hostBuf,  \* bytes fed and not consumed
  reading,  \* feed is running
  heard     \* every message returned so far, in order

hostVars == <<hostBuf, reading, heard>>

FrameMessage(b, len) ==
  [op |-> OP_FRAME, ts |-> SubSeq(b, 3, 6),
   id |-> SplitId(SubSeq(b, 7, 10)), extended |-> Extended(SubSeq(b, 7, 10)),
   bus |-> b[11] \div 16, dlc |-> b[11] % 16,
   data |-> SubSeq(b, FRAME_HEADER + 1, FRAME_HEADER + len)]

ReplyMessage(b) == [op |-> b[2], body |-> SubSeq(b, 3, ReplyLen(b[2]))]

HostInit ==
  /\ hostBuf = <<>>
  /\ reading = FALSE
  /\ heard = <<>>

HostFeed(chunk) ==
  /\ ~reading
  /\ hostBuf' = hostBuf \o chunk
  /\ reading' = TRUE
  /\ UNCHANGED heard

\* The first byte a message can begin with is behind the first k.
SyncAfter(k, buf) ==
  /\ k < Len(buf)
  /\ buf[k + 1] = CMD
  /\ \A i \in 1 .. k : buf[i] # CMD

\* GVRET has no FD flag, so a code is read as CAN FD.
FrameLen(b) == FRAME_HEADER + DlcToLen(b[11], TRUE)

IsFrame(b) == Len(b) >= 2 /\ b[2] = OP_FRAME
IsReply(b) == Len(b) >= 2 /\ b[2] \in Requests

Incomplete(b) ==
  \/ Len(b) < 2
  \/ IsFrame(b) /\ (Len(b) >= FRAME_HEADER => Len(b) < FrameLen(b))
  \/ IsReply(b) /\ Len(b) < ReplyLen(b[2])

HostTakeFrame(b) ==
  /\ IsFrame(b)
  /\ ~Incomplete(b)
  /\ heard' = Append(heard, FrameMessage(b, FrameLen(b) - FRAME_HEADER))
  /\ hostBuf' = Drop(b, FrameLen(b))
  /\ UNCHANGED reading

HostTakeReply(b) ==
  /\ IsReply(b)
  /\ ~Incomplete(b)
  /\ heard' = Append(heard, ReplyMessage(b))
  /\ hostBuf' = Drop(b, ReplyLen(b[2]))
  /\ UNCHANGED reading

\* Variant: the opcode is dropped with the sync byte.
HostDropBoth(b) ==
  /\ ~Incomplete(b) /\ ~IsFrame(b) /\ ~IsReply(b)
  /\ hostBuf' = Drop(b, 2)
  /\ UNCHANGED <<reading, heard>>

\* An opcode nobody knows: the sync byte alone is dropped.
HostDropSync(b) ==
  /\ ~Incomplete(b) /\ ~IsFrame(b) /\ ~IsReply(b)
  /\ hostBuf' = Drop(b, 1)
  /\ UNCHANGED <<reading, heard>>

HostWait(b) ==
  /\ Incomplete(b)
  /\ hostBuf' = b
  /\ reading' = FALSE
  /\ UNCHANGED heard

\* Variant: noise is kept, in hope.
HostWaitForSyncForever ==
  /\ \A i \in 1 .. Len(hostBuf) : hostBuf[i] # CMD
  /\ reading' = FALSE
  /\ UNCHANGED <<hostBuf, heard>>

\* Nothing in the buffer can begin a message.
HostWaitForSync ==
  /\ \A i \in 1 .. Len(hostBuf) : hostBuf[i] # CMD
  /\ hostBuf' = IF Len(hostBuf) > MAX_RESYNC_BYTES THEN <<>> ELSE hostBuf
  /\ reading' = FALSE
  /\ UNCHANGED heard

HostRound(b) == HostTakeFrame(b) \/ HostTakeReply(b) \/ HostDropSync(b) \/ HostWait(b)

HostPass ==
  /\ reading
  /\ \/ HostWaitForSync
     \/ \E k \in 0 .. Len(hostBuf) :
          SyncAfter(k, hostBuf) /\ HostRound(Drop(hostBuf, k))

HostNext == (\E chunk \in Seq(Byte) : HostFeed(chunk)) \/ HostPass

HostSpec == HostInit /\ [][HostNext]_hostVars

-----------------------------------------------------------------------------
\* Between calls the buffer is bounded, whatever the device sends: either
\* noise without a sync byte, which is given up past MAX_RESYNC_BYTES, or one
\* incomplete message, sync byte first. "Noise is bounded but a partial frame
\* is not dropped."
HostBounded ==
  ~reading =>
    \/ /\ \A i \in 1 .. Len(hostBuf) : hostBuf[i] # CMD
       /\ Len(hostBuf) <= MAX_RESYNC_BYTES
    \/ Len(hostBuf) \in 1 .. FRAME_HEADER + 63 /\ hostBuf[1] = CMD
=============================================================================
