----------------------------- MODULE ModbusRtu -----------------------------
(***************************************************************************)
(* The length rules of Modbus RTU as the reassembler reads them: which     *)
(* message layouts the head of a buffer may be (candidates), which of them *)
(* contradicts its own header (is_plausible), and the protocol numbers of  *)
(* crates/wiretap-catalog/src/modbus/protocol.rs both rest on.             *)
(*                                                                         *)
(* A byte string is a sequence over Byte, indexed from 1 where the code    *)
(* indexes from 0: the function code is b[2], the byte count of a read     *)
(* response b[3], that of a write-multiple request b[7].                   *)
(***************************************************************************)
EXTENDS Integers, Sequences

Byte == 0 .. 255
Word == {n \in Nat : n < 65536}

MAX_RTU_LEN    == 256
MAX_DATA_BYTES == 250

Reads       == 1 .. 4     \* FC01..FC04
WriteSingle == {5, 6}     \* FC05, FC06
WriteMany   == {15, 16}   \* FC0F, FC10

\* The high bit of a function code marks an exception response.
IsException(f) == f >= 128

\* RegisterType::is_register_bank of the bank the code addresses: two bytes
\* per register for holding and input, eight to a byte for coil and discrete.
IsRegisterBank(f) == f \in {3, 4, 6, 16}

MaxPerRead(f)  == IF IsRegisterBank(f) THEN 125 ELSE 2000
MaxPerWrite(f) == IF IsRegisterBank(f) THEN 123 ELSE 1968

DataBytes(f, quantity) ==
  IF IsRegisterBank(f) THEN 2 * quantity ELSE (quantity + 7) \div 8

\* The big-endian word whose high byte is at index i.
Be(b, i) == 256 * b[i] + b[i + 1]

Prefix(b, n) == SubSeq(b, 1, n)
Drop(b, n)   == SubSeq(b, n + 1, Len(b))

-----------------------------------------------------------------------------
(* Candidate layouts.                                                      *)

Direction == {"Request", "Response"}
Candidate == [len : Nat, direction : Direction, counted : BOOLEAN]

\* "counted" marks the layout whose length a byte_count decides.
Fixed(len, direction) ==
  [len |-> len, direction |-> direction, counted |-> FALSE]
Counted(len, direction) ==
  [len |-> len, direction |-> direction, counted |-> TRUE]

FixedLayouts(b) ==
  CASE IsException(b[2])      -> {Fixed(5, "Response")}
    [] b[2] \in Reads         -> {Fixed(8, "Request")}
    [] b[2] \in WriteSingle   -> {Fixed(8, "Request")}
    [] b[2] \in WriteMany     -> {Fixed(8, "Response")}
    [] OTHER                  -> {}

\* Only offered once the byte count itself has arrived.
CountedLayouts(b) ==
  CASE b[2] \in Reads /\ Len(b) >= 3     -> {Counted(5 + b[3], "Response")}
    [] b[2] \in WriteMany /\ Len(b) >= 7 -> {Counted(9 + b[7], "Request")}
    [] OTHER                             -> {}

Candidates(b) == FixedLayouts(b) \cup CountedLayouts(b)

\* c is what the code's longest-first array yields first among the set S:
\* the longest, and of two as long the one of fixed length.
IsFirst(c, S) ==
  /\ c \in S
  /\ \A d \in S : \/ c.len > d.len
                  \/ c.len = d.len /\ (d.counted \/ d = c)

\* Whether a candidate's header is self-consistent. Header bytes that have
\* not arrived are undecidable, and undecidable counts as plausible.
Plausible(b, c) ==
  LET f == b[2] IN
  /\ IsException(f) /\ Len(b) >= 3 => b[3] \in 1 .. 11
  /\ f \in Reads /\ ~c.counted /\ Len(b) >= 6 => Be(b, 5) \in 1 .. MaxPerRead(f)
  /\ f \in Reads /\ c.counted =>
       b[3] \in 1 .. MAX_DATA_BYTES /\ (IsRegisterBank(f) => b[3] % 2 = 0)
  /\ f \in WriteMany /\ c.counted =>
       /\ Be(b, 5) \in 1 .. MaxPerWrite(f)
       /\ b[7] = DataBytes(f, Be(b, 5))

\* A data block of n bytes whose first byte is at index i, as registers; a
\* trailing odd byte is dropped.
Registers(b, i, n) == [k \in 1 .. n \div 2 |-> Be(b, i + 2 * (k - 1))]
=============================================================================
