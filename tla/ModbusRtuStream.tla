-------------------------- MODULE ModbusRtuStream --------------------------
(***************************************************************************)
(* ModbusRtuStream (crates/wiretap-catalog/src/modbus_rtu_stream.rs): one  *)
(* reassembler, the byte stream it is fed and the messages it hands back.  *)
(*                                                                         *)
(* A call of push, push_bytes or finish runs the loop of drain_messages.   *)
(* "call" says which call is running, and one pass of that loop is one     *)
(* step; nothing else can happen until the loop returns, because the code  *)
(* holds &mut self. interpret has no loop and is one step.                 *)
(***************************************************************************)
EXTENDS ModbusRtu

CONSTANTS
  None,           \* Rust's Option::None
  DeviceAddress,  \* the declared device address, or None
  Policy,         \* CrcPolicy: "Strict" or "Lenient"
  CrcValid        \* the byte strings crc16_modbus_valid accepts

ASSUME StreamAssumption ==
  /\ None \notin Int
  /\ None \notin [function : Byte, start : Word, quantity : Word]
  /\ DeviceAddress \in Byte \cup {None}
  /\ Policy \in {"Strict", "Lenient"}
  /\ \A b \in CrcValid : b \in Seq(Byte) /\ Len(b) >= 4

VARIABLES
  buf,      \* bytes fed and not yet consumed
  pending,  \* pending_frames
  lastReq,  \* last_request: the outstanding request, or None
  call,     \* the call that is running: "none", "push" or "finish"
  out,      \* every message returned so far, in order
  residue   \* the bytes the last finish handed back

vars == <<buf, pending, lastReq, call, out, residue>>

MAX_BUFFER == 2 * MAX_RTU_LEN

OutstandingRequest == [function : Byte, start : Word, quantity : Word]

Message ==
  [direction : Direction, address : Byte, function : Byte,
   start : Word \cup {None}, quantity : Word \cup {None},
   registers : Seq(Word), exception : Byte \cup {None},
   raw : Seq(Byte), crc_valid : BOOLEAN, frame_count : Nat \ {0}]

TypeOK ==
  /\ buf \in Seq(Byte)
  /\ pending \in Nat
  /\ lastReq \in OutstandingRequest \cup {None}
  /\ call \in {"none", "push", "finish"}
  /\ out \in Seq(Message)
  /\ residue \in Seq(Byte)

Init ==
  /\ buf = <<>>
  /\ pending = 0
  /\ lastReq = None
  /\ call = "none"
  /\ out = <<>>
  /\ residue = <<>>

-----------------------------------------------------------------------------
(* build: what the wire leaves out is filled in from the outstanding       *)
(* request, which a message of its own may replace or use up.              *)

CarriesAddress(f, direction) ==
  \/ f \in WriteSingle \cup WriteMany
  \/ f \in Reads /\ direction = "Request"

\* Variant: every write taken to be the same on both sides.
ResolvedAnyWrite(f, direction) ==
  IF f \in WriteSingle \cup WriteMany
  THEN IF lastReq # None /\ lastReq.function = f THEN "Response" ELSE "Request"
  ELSE direction

\* A write-single is the same on both sides: it is the response when the
\* request before it had the same function code.
Resolved(f, direction) ==
  IF f \in WriteSingle
  THEN IF lastReq # None /\ lastReq.function = f THEN "Response" ELSE "Request"
  ELSE direction

\* Variant: the max(1) left out.
FramesReportedUnclamped == pending

\* The frame count of a message; zero frames were counted on the byte-stream
\* and pre-framed paths.
FramesReported == IF pending = 0 THEN 1 ELSE pending

\* The values a message carries.
DataBlock(raw, layout) ==
  CASE raw[2] \in Reads /\ layout = "Response"    -> Registers(raw, 4, raw[3])
    [] raw[2] \in WriteMany /\ layout = "Request" -> Registers(raw, 8, raw[7])
    [] raw[2] \in WriteSingle                     -> <<Be(raw, 5)>>
    [] OTHER                                      -> <<>>

Build(raw, layout, valid) ==
  LET f         == raw[2]
      direction == Resolved(f, layout)
      own       == CarriesAddress(f, layout)
      answers   == direction = "Response" /\ ~own /\ lastReq # None
  IN  [direction   |-> direction,
       address     |-> raw[1],
       function    |-> f,
       start       |-> IF own THEN Be(raw, 3)
                       ELSE IF answers THEN lastReq.start ELSE None,
       quantity    |-> IF own THEN IF f \in WriteSingle THEN 1 ELSE Be(raw, 5)
                       ELSE IF answers THEN lastReq.quantity ELSE None,
       registers   |-> DataBlock(raw, layout),
       exception   |-> IF IsException(f) THEN raw[3] ELSE None,
       raw         |-> raw,
       crc_valid   |-> valid,
       frame_count |-> FramesReported]

\* Variants: a response uses nothing up; a request does not replace another.
OutstandingForever(m) ==
  IF m.direction = "Request"
  THEN [function |-> m.function, start |-> m.start, quantity |-> m.quantity]
  ELSE lastReq
OutstandingFirst(m) ==
  IF m.direction = "Request" /\ lastReq = None
  THEN [function |-> m.function, start |-> m.start, quantity |-> m.quantity]
  ELSE IF m.direction = "Request" \/ m.function \in WriteMany THEN lastReq ELSE None

\* last_request after build returned m: a request replaces it; a response
\* without an address of its own, and a write-single, have taken it.
Outstanding(m) ==
  IF m.direction = "Request"
  THEN [function |-> m.function, start |-> m.start, quantity |-> m.quantity]
  ELSE IF m.function \in WriteMany THEN lastReq ELSE None

Emit(m) ==
  /\ out' = Append(out, m)
  /\ lastReq' = Outstanding(m)

-----------------------------------------------------------------------------
(* The calls.                                                              *)

AddressMatches(byte) ==
  IF DeviceAddress # None THEN byte = DeviceAddress ELSE byte \in 1 .. 247

\* push_bytes: bytes of a serial line, where there are no frames to count.
PushBytes(bytes) ==
  /\ call = "none"
  /\ bytes # <<>>
  /\ buf' = buf \o bytes
  /\ call' = "push"
  /\ UNCHANGED <<pending, lastReq, out, residue>>

\* push: one frame's payload. An empty one is not counted and changes nothing.
Push(bytes) ==
  /\ call = "none"
  /\ bytes # <<>>
  /\ pending' = pending + 1
  /\ buf' = buf \o bytes
  /\ call' = "push"
  /\ UNCHANGED <<lastReq, out, residue>>

Finish ==
  /\ call = "none"
  /\ call' = "finish"
  /\ UNCHANGED <<buf, pending, lastReq, out, residue>>

\* interpret: a message somebody else framed. Anything it returns None for
\* changes nothing.
Interpret(raw) ==
  /\ call = "none"
  /\ Len(raw) >= 4
  /\ AddressMatches(raw[1])
  /\ \E c \in Candidates(raw) :
       /\ IsFirst(c, {d \in Candidates(raw) : d.len = Len(raw)})
       /\ raw \in CrcValid \/ Plausible(raw, c)
       /\ Emit(Build(raw, c.direction, raw \in CrcValid))
  /\ UNCHANGED <<buf, pending, call, residue>>

-----------------------------------------------------------------------------
(* One pass of the loop in drain_messages. b is the buffer after           *)
(* skip_to_address has dropped the k bytes no message can start at.        *)

IsSkip(k) ==
  /\ \A i \in 1 .. k : ~AddressMatches(buf[i])
  /\ k < Len(buf) => AddressMatches(buf[k + 1])

\* Variant: a message the buffer holds to its last byte is not taken yet.
FitsStrictly(b) == {c \in Candidates(b) : c.len < Len(b)}

Fits(b)  == {c \in Candidates(b) : c.len <= Len(b)}
Valid(b) == {c \in Fits(b) : Prefix(b, c.len) \in CrcValid}

\* Variant: a candidate that contradicts its own header is waited for like any
\* other.
AwaitedImplausibly(b) ==
  call = "push" /\ \E c \in Candidates(b) : c.len > Len(b)

\* More bytes could still complete the first plausible candidate.
Awaited(b) ==
  /\ call = "push"
  /\ \E c \in Candidates(b) :
       /\ IsFirst(c, {d \in Candidates(b) : Plausible(b, d)})
       /\ c.len > Len(b)

\* Variant: the policy is not asked.
GuessesAlways(b) == {c \in Fits(b) : Plausible(b, c)}

\* Under the lenient policy, what is guessed where strict would give up.
Guesses(b) ==
  IF Policy = "Lenient" THEN {c \in Fits(b) : Plausible(b, c)} ELSE {}

NeedMore(b) == Len(b) >= 4 => Valid(b) = {} /\ Awaited(b)

NoMessage(b) == ~NeedMore(b) /\ Valid(b) = {} /\ Guesses(b) = {}

\* What is left after a message came from the newest frame, which is shared
\* with the message after it.
FramesLeft(rest) == IF rest = <<>> THEN 0 ELSE 1

Take(b, c, valid) ==
  /\ Emit(Build(Prefix(b, c.len), c.direction, valid))
  /\ buf' = Drop(b, c.len)
  /\ pending' = FramesLeft(Drop(b, c.len))
  /\ UNCHANGED <<call, residue>>

TakeValid(b) ==
  /\ Len(b) >= 4
  /\ \E c \in Valid(b) : IsFirst(c, Valid(b)) /\ Take(b, c, TRUE)

TakeGuess(b) ==
  /\ ~NeedMore(b)
  /\ Valid(b) = {}
  /\ \E c \in Guesses(b) : IsFirst(c, Guesses(b)) /\ Take(b, c, FALSE)

\* Variant: resynchronising gives up the whole buffer.
DropBuffer(b) ==
  /\ call = "push"
  /\ NoMessage(b)
  /\ buf' = <<>>
  /\ UNCHANGED <<pending, lastReq, call, out, residue>>

\* Mid-stream, a byte that starts no message is dropped.
DropByte(b) ==
  /\ call = "push"
  /\ NoMessage(b)
  /\ buf' = Drop(b, 1)
  /\ UNCHANGED <<pending, lastReq, call, out, residue>>

\* push_bytes returns, keeping no more than MAX_BUFFER bytes.
ReturnFromPush(b) ==
  /\ call = "push"
  /\ NeedMore(b)
  /\ buf' = IF Len(b) > MAX_BUFFER THEN Drop(b, Len(b) - MAX_BUFFER) ELSE b
  /\ call' = "none"
  /\ UNCHANGED <<pending, lastReq, out, residue>>

\* finish returns whatever yields no message as the residue.
ReturnFromFinish(b) ==
  /\ call = "finish"
  /\ NeedMore(b) \/ NoMessage(b)
  /\ residue' = b
  /\ buf' = <<>>
  /\ pending' = 0
  /\ call' = "none"
  /\ UNCHANGED <<lastReq, out>>

Pass(b) == TakeValid(b) \/ TakeGuess(b) \/ DropByte(b)
             \/ ReturnFromPush(b) \/ ReturnFromFinish(b)

DrainPass ==
  /\ call # "none"
  /\ \E k \in 0 .. Len(buf) : IsSkip(k) /\ Pass(Drop(buf, k))

Next ==
  \/ \E bytes \in Seq(Byte) : Push(bytes) \/ PushBytes(bytes) \/ Interpret(bytes)
  \/ Finish
  \/ DrainPass

Spec == Init /\ [][Next]_vars

-----------------------------------------------------------------------------
\* Between calls the buffer is shorter than the longest message, so the
\* MAX_BUFFER ceiling of push_bytes never discards a byte: the wait rule
\* alone keeps a desynced stream from growing.
BufferBounded == call = "none" => Len(buf) < 5 + MAX_DATA_BYTES

\* The length a header declares for a message of this direction.
Declared(raw, direction) ==
  CASE IsException(raw[2])                              -> 5
    [] raw[2] \in Reads /\ direction = "Response"       -> 5 + raw[3]
    [] raw[2] \in WriteMany /\ direction = "Request"    -> 9 + raw[7]
    [] OTHER                                            -> 8

\* Every message, framed here or elsewhere, is exactly as long as its own
\* header declares for the direction reported: the slices build takes of it
\* (the address and quantity words, the data block, the exception code) are
\* all inside it and none of it is left over.
LengthDeclared ==
  \A i \in 1 .. Len(out) :
    Len(out[i].raw) = Declared(out[i].raw, out[i].direction)
=============================================================================
