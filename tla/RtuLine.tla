------------------------------ MODULE RtuLine ------------------------------
(***************************************************************************)
(* One serial line or CAN tunnel and the reassembler that listens to it:   *)
(* the environment ModbusRtuStream is written for.                         *)
(*                                                                         *)
(* A line is a byte string together with the places in it where genuine    *)
(* messages stand. The caller hands it over in chunks of any allowed size, *)
(* as frames (push) or as raw bytes (push_bytes), and may declare the end  *)
(* of the stream (finish) once everything has been fed.                    *)
(***************************************************************************)
EXTENDS ModbusRtuStream, FiniteSets

CONSTANTS
  Lines,       \* the lines to choose from
  ChunkSizes,  \* how many bytes one read may return
  Tunnelled    \* TRUE: chunks are frames (push); FALSE: reads (push_bytes)

Spans == [first : Nat \ {0}, last : Nat \ {0}]

Genuine(l, i) == SubSeq(l.bytes, l.genuine[i].first, l.genuine[i].last)

\* The marks of a line are in order and disjoint. Each is a message of the
\* device with a good checksum, as long as a consistent header of its own
\* declares; and no other stretch that begins like a message of the device and
\* is of a length its own header declares has a good checksum by accident:
\* sixteen bits cannot tell such a stretch from a message.
Marked(l) ==
  /\ \A i \in 1 .. Len(l.genuine) :
       /\ l.genuine[i].last <= Len(l.bytes)
       /\ AddressMatches(l.bytes[l.genuine[i].first])
       /\ Genuine(l, i) \in CrcValid
       /\ \E c \in Candidates(Genuine(l, i)) :
            Plausible(Genuine(l, i), c) /\ c.len = Len(Genuine(l, i))
  /\ \A i, j \in 1 .. Len(l.genuine) :
       i < j => l.genuine[i].last < l.genuine[j].first
  /\ \A n \in 0 .. Len(l.bytes) - 2 : AddressMatches(l.bytes[n + 1]) =>
       \A c \in Valid(Drop(l.bytes, n)) : \E i \in 1 .. Len(l.genuine) :
         l.genuine[i] = [first |-> n + 1, last |-> n + c.len]

\* Every byte of the line belongs to a message.
OnlyMessages(l) ==
  \A n \in 1 .. Len(l.bytes) :
    \E i \in 1 .. Len(l.genuine) : l.genuine[i].first <= n /\ n <= l.genuine[i].last

\* Junk is for a strict reassembler of raw bytes. A lenient one guesses at it,
\* and a frame whose bytes are all dropped as junk stays counted until the
\* next message is taken.
ASSUME LineAssumption ==
  /\ ChunkSizes \subseteq Nat \ {0}
  /\ Tunnelled \in BOOLEAN
  /\ \A l \in Lines :
       /\ l.bytes \in Seq(Byte)
       /\ l.genuine \in Seq(Spans)
       /\ Marked(l)
       /\ Tunnelled \/ Policy = "Lenient" => OnlyMessages(l)

VARIABLES
  line,   \* the line, fixed at the start
  fed,    \* how many of its bytes have been handed over
  ended,  \* finish has been called
  cuts,   \* where frames end, of the bytes still buffered; raw bytes have none
  spans   \* for each message of out, where it stood and its frames

lineVars == <<buf, pending, lastReq, call, out, residue,
              line, fed, ended, cuts, spans>>

LineInit ==
  /\ Init
  /\ line \in Lines
  /\ fed = 0
  /\ ended = FALSE
  /\ cuts = {}
  /\ spans = <<>>

\* How many bytes of the line have left the buffer.
Consumed == fed - Len(buf)

Feed(n) ==
  /\ ~ended
  /\ fed + n <= Len(line.bytes)
  /\ LET chunk == SubSeq(line.bytes, fed + 1, fed + n)
     IN  IF Tunnelled THEN Push(chunk) ELSE PushBytes(chunk)
  /\ fed' = fed + n
  /\ cuts' = IF Tunnelled THEN cuts \cup {fed + n} ELSE cuts
  /\ UNCHANGED <<line, ended, spans>>

EndOfStream ==
  /\ ~ended
  /\ fed = Len(line.bytes)
  /\ Finish
  /\ ended' = TRUE
  /\ UNCHANGED <<line, fed, cuts, spans>>

\* A frame contributed to a span unless it ended before the span began or
\* began after it ended.
FramesOf(first, last) == 1 + Cardinality({c \in cuts : first <= c /\ c < last})

Reassemble ==
  /\ DrainPass
  /\ LET last  == fed - Len(buf')
         first == last + 1 - Len(out'[Len(out')].raw)
     IN  IF out' = out
         THEN spans' = spans
         ELSE spans' = Append(spans, [first |-> first, last |-> last,
                                      frames |-> FramesOf(first, last)])
  /\ cuts' = {c \in cuts : c > fed - Len(buf')}
  /\ UNCHANGED <<line, fed, ended>>

LineNext ==
  \/ \E n \in ChunkSizes : Feed(n)
  \/ EndOfStream
  \/ Reassemble

LineSpec == LineInit /\ [][LineNext]_lineVars

\* The transport goes on delivering while there is something to deliver and
\* a call, once made, runs to its end. Nobody is obliged to call finish.
Fairness ==
  /\ WF_lineVars(\E n \in ChunkSizes : Feed(n))
  /\ WF_lineVars(Reassemble)

FairLineSpec == LineSpec /\ Fairness

-----------------------------------------------------------------------------
Found == {<<spans[i].first, spans[i].last>> : i \in 1 .. Len(spans)}

\* Mid-stream, reassembly never discards a byte of a genuine message: one
\* whose first byte has left the buffer has been returned. Resynchronising
\* past junk, skipping to an address and giving up on a candidate may drop
\* only what belongs to no message, whatever the chunk boundaries are. What is
\* returned reports as many frames as contributed bytes to it ("how many frames
\* contributed bytes to this message"), or one when it came as raw bytes.
GenuineKept ==
  /\ ~ended =>
       \A i \in 1 .. Len(line.genuine) :
         line.genuine[i].first <= Consumed =>
           <<line.genuine[i].first, line.genuine[i].last>> \in Found
  /\ \A i \in 1 .. Len(out) : out[i].frame_count = spans[i].frames

\* What finish hands back holds no complete message ("the bytes left over,
\* which are by construction not a message").
ResidueHoldsNoMessage ==
  ended /\ call = "none" =>
    \A i \in 1 .. Len(line.genuine) :
      line.genuine[i].first <= Len(line.bytes) - Len(residue)

-----------------------------------------------------------------------------
\* The promise to the caller: the genuine messages of the line, each once
\* and in order. Implemented under any chunking, with junk between messages.
Promise == INSTANCE FramedLine WITH
  sent      <- [i \in 1 .. Len(line.genuine) |-> Genuine(line, i)],
  delivered <- [i \in 1 .. Len(out) |-> out[i].raw]

PromiseKept == Promise!Spec

\* On a line of nothing but messages, every one of them is delivered as soon
\* as its last byte has been fed, without waiting for the end of the stream.
PromiseDelivers == OnlyMessages(line) => Promise!EveryMessageArrives
=============================================================================
