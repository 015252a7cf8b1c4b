---------------------------- MODULE GvretDevice ----------------------------
(***************************************************************************)
(* Decoder (crates/wiretap-protocol/src/gvret.rs): the device's end of a   *)
(* GVRET connection, which reads what a client sends. Nothing is read      *)
(* before the handshake; the scan for it never stops.                      *)
(*                                                                         *)
(* A call of feed scans and then runs a loop; the scan and each round are  *)
(* a step, and "serving" is TRUE from the call until it returns.           *)
(***************************************************************************)
EXTENDS Gvret

VARIABLES
  binary,   \* the handshake has been seen
  devBuf,   \* bytes fed and not consumed
  serving,  \* feed is running
  commands  \* every command returned so far, in order

devVars == <<binary, devBuf, serving, commands>>

DevInit ==
  /\ binary = FALSE
  /\ devBuf = <<>>
  /\ serving = FALSE
  /\ commands = <<>>

\* Where a handshake ends when b is scanned from index "from", two bytes at a
\* time: the end of an even run of E7.
SyncEnds(b, from) ==
  {c \in from .. Len(b) : \E s \in from .. c :
     /\ \A k \in s .. c : b[k] = SYNC[1]
     /\ s = from \/ b[s - 1] # SYNC[1]
     /\ (c - s + 1) % 2 = 0}

\* Variant: the byte before the chunk is not looked at again.
ScanFromChunk(old) == Len(old) + 1

\* The scan starts at the last byte of what is already buffered.
ScanFrom(old) == IF old = <<>> THEN 1 ELSE Len(old)

\* scan_for_handshake, and the return of a call that is not in binary mode.
DevFeed(chunk) ==
  /\ ~serving
  /\ LET b    == devBuf \o chunk
         ends == SyncEnds(b, ScanFrom(devBuf))
     IN  \/ /\ ends = {}
            /\ devBuf' = b
            /\ UNCHANGED binary
         \/ \E c \in ends :
              /\ \A d \in ends : d <= c
              /\ devBuf' = Drop(b, c)
              /\ binary' = TRUE
  /\ serving' = binary'
  /\ UNCHANGED commands

\* Resync: the first byte a command can begin with is behind the first k, or
\* there is none and k is all.
Skippable(k, buf) ==
  /\ \A i \in 1 .. k : buf[i] # CMD
  /\ k < Len(buf) => buf[k + 1] = CMD

\* The declared length decides how much is consumed; eight bytes are kept.
TransmitLen(b) == TRANSMIT_HEADER + b[8]

TransmitCommand(b) ==
  LET kept == IF b[8] < 8 THEN b[8] ELSE 8
  IN  [op |-> OP_FRAME, bus |-> b[7],
       id |-> SplitId(SubSeq(b, 3, 6)), extended |-> Extended(SubSeq(b, 3, 6)),
       data |-> SubSeq(b, TRANSMIT_HEADER + 1, TRANSMIT_HEADER + kept)]

IsTransmit(b) == Len(b) >= 2 /\ b[2] = OP_FRAME

\* Variant: the checksum is waited for.
UnfinishedUntilChecksum(b) ==
  \/ Len(b) < 2
  \/ IsTransmit(b) /\ (Len(b) >= TRANSMIT_HEADER => Len(b) <= TransmitLen(b))

Unfinished(b) ==
  \/ Len(b) < 2
  \/ IsTransmit(b) /\ (Len(b) >= TRANSMIT_HEADER => Len(b) < TransmitLen(b))

\* Variant: the trailing checksum byte is taken along.
DevTakeTransmitAndChecksum(b) ==
  /\ IsTransmit(b)
  /\ ~Unfinished(b)
  /\ commands' = Append(commands, TransmitCommand(b))
  /\ devBuf' = Drop(b, TransmitLen(b) + 1)
  /\ UNCHANGED <<binary, serving>>

DevTakeTransmit(b) ==
  /\ IsTransmit(b)
  /\ ~Unfinished(b)
  /\ commands' = Append(commands, TransmitCommand(b))
  /\ devBuf' = Drop(b, TransmitLen(b))
  /\ UNCHANGED <<binary, serving>>

\* The header is consumed whether or not anybody knows the opcode.
DevTakeRequest(b) ==
  /\ ~Unfinished(b) /\ ~IsTransmit(b)
  /\ commands' = IF b[2] \in Requests THEN Append(commands, [op |-> b[2]]) ELSE commands
  /\ devBuf' = Drop(b, 2)
  /\ UNCHANGED <<binary, serving>>

\* Variant: what was skipped stays in the buffer.
DevWaitUnskipped(b) ==
  /\ Unfinished(b)
  /\ serving' = FALSE
  /\ UNCHANGED <<binary, devBuf, commands>>

DevWait(b) ==
  /\ Unfinished(b)
  /\ devBuf' = b
  /\ serving' = FALSE
  /\ UNCHANGED <<binary, commands>>

DevRound(b) == DevTakeTransmit(b) \/ DevTakeRequest(b) \/ DevWait(b)

DevPass ==
  /\ serving
  /\ \E k \in 0 .. Len(devBuf) :
       Skippable(k, devBuf) /\ DevRound(Drop(devBuf, k))

DevNext == (\E chunk \in Seq(Byte) : DevFeed(chunk)) \/ DevPass

DevSpec == DevInit /\ [][DevNext]_devVars

-----------------------------------------------------------------------------
\* "This function never leaves a SYNC behind, and the command loop only
\* removes prefixes": scanning only what is new misses no handshake.
NoSyncBuffered ==
  \A i \in 1 .. Len(devBuf) - 1 : SubSeq(devBuf, i, i + 1) # SYNC

\* Once the client has said hello, a call leaves at most one unfinished
\* command behind.
DevBounded ==
  binary /\ ~serving =>
    /\ Len(devBuf) < TRANSMIT_HEADER + 255
    /\ devBuf # <<>> => devBuf[1] = CMD
=============================================================================
