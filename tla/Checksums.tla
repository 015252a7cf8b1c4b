----------------------------- MODULE Checksums -----------------------------
(***************************************************************************)
(* The checksum algorithms (crates/wiretap-checksum/src/algorithms.rs), a  *)
(* checksum applied to a frame (src/frame.rs), and the sweep that measures *)
(* many configurations against many frames (src/spec.rs).                  *)
(*                                                                         *)
(* A word is the set of its one bits, bit 0 the least significant: XOR is  *)
(* the symmetric difference, a shift adds to every member, and a           *)
(* polynomial is the set of its exponents below the leading one.           *)
(***************************************************************************)
EXTENDS Integers, Sequences, SequencesExt, FiniteSetsExt

Xor(a, b) == (a \ b) \cup (b \ a)

Bits(width, n) == {i \in 0 .. width - 1 : (n \div 2^i) % 2 = 1}
Number(byte)   ==
  LET Bit(i) == IF i \in byte THEN 1 ELSE 0
  IN  Bit(0) + 2 * Bit(1) + 4 * Bit(2) + 8 * Bit(3) + 16 * Bit(4) + 32 * Bit(5) + 64 * Bit(6) + 128 * Bit(7)

Full(width) == 0 .. width - 1
ShiftLeft(width, word) == {i + 1 : i \in word \ {width - 1}}
ShiftRight(word)       == {i - 1 : i \in word \ {0}}
Reflect(width, word)   == {width - 1 - i : i \in word}

-----------------------------------------------------------------------------
\* One bit of polynomial division, least or most significant bit first.
BitReflected(poly, crc) ==
  IF 0 \in crc THEN Xor(ShiftRight(crc), poly) ELSE ShiftRight(crc)
BitNormal(width, poly, crc) ==
  IF width - 1 \in crc THEN Xor(ShiftLeft(width, crc), poly) ELSE ShiftLeft(width, crc)

ByteReflected(poly, crc) ==
  LET after[k \in 0 .. 8] == IF k = 0 THEN crc ELSE BitReflected(poly, after[k - 1]) IN after[8]
ByteNormal(width, poly, crc) ==
  LET after[k \in 0 .. 8] == IF k = 0 THEN crc ELSE BitNormal(width, poly, after[k - 1]) IN after[8]

\* The register after data; a byte enters a normal register at its top end.
RegisterReflected(width, data, poly, init) ==
  LET after[k \in 0 .. Len(data)] ==
        IF k = 0 THEN init
        ELSE ByteReflected(Reflect(width, poly), Xor(after[k - 1], data[k]))
  IN  after[Len(data)]
RegisterNormal(width, data, poly, init) ==
  LET after[k \in 0 .. Len(data)] ==
        IF k = 0 THEN init
        ELSE ByteNormal(width, poly, Xor(after[k - 1], {i + width - 8 : i \in data[k]}))
  IN  after[Len(data)]

crc8_parameterised(data, poly, init, xor_out, reflect) ==
  Xor(IF reflect THEN RegisterReflected(8, data, poly, init)
                 ELSE RegisterNormal(8, data, poly, init), xor_out)

\* Reflecting the input already reverses the register.
crc16_parameterised(data, poly, init, xor_out, reflect_in, reflect_out) ==
  LET crc == IF reflect_in THEN RegisterReflected(16, data, poly, init)
                           ELSE RegisterNormal(16, data, poly, init)
  IN  Xor(IF reflect_out # reflect_in THEN Reflect(16, crc) ELSE crc, xor_out)

-----------------------------------------------------------------------------
xor_checksum(data) ==
  LET after[k \in 0 .. Len(data)] == IF k = 0 THEN {} ELSE Xor(after[k - 1], data[k])
  IN  after[Len(data)]
sum8_checksum(data) ==
  LET sum[k \in 0 .. Len(data)] == IF k = 0 THEN 0 ELSE (sum[k - 1] + Number(data[k])) % 256
  IN  Bits(8, sum[Len(data)])

\* 0x8005 and 0x1021.
CRC16_MODBUS_POLY == Bits(16, 32773)
CRC16_CCITT_POLY  == Bits(16, 4129)

\* 0xA001, the Modbus polynomial as the reflected algorithm uses it.
CRC16_MODBUS_POLY_REFLECTED == Bits(16, 40961)
CRC16_MODBUS_TABLE ==
  [byte \in SUBSET Full(8) |-> ByteReflected(CRC16_MODBUS_POLY_REFLECTED, byte)]

crc16_modbus_checksum(data) ==
  LET after[k \in 0 .. Len(data)] ==
        IF k = 0 THEN Full(16)
        ELSE Xor({i - 8 : i \in after[k - 1] \ Full(8)},
                 CRC16_MODBUS_TABLE[Xor(after[k - 1], data[k]) \cap Full(8)])
  IN  after[Len(data)]

crc16_modbus_valid(message) ==
  LET n == Len(message)
  IN  /\ n >= 4
      /\ crc16_modbus_checksum(SubSeq(message, 1, n - 2))
           = message[n - 1] \cup {i + 8 : i \in message[n]}

crc16_ccitt_checksum(data) ==
  crc16_parameterised(data, CRC16_CCITT_POLY, Full(16), {}, FALSE, FALSE)

\* The named 8-bit CRCs: polynomial, initial value, final XOR, reflected.
Crc8Parameters ==
  [Crc8         |-> [poly |-> 7,   init |-> {},      xor_out |-> {},      reflect |-> FALSE],
   Crc8SaeJ1850 |-> [poly |-> 29,  init |-> Full(8), xor_out |-> Full(8), reflect |-> FALSE],
   Crc8Autosar  |-> [poly |-> 47,  init |-> Full(8), xor_out |-> Full(8), reflect |-> FALSE],
   Crc8Maxim    |-> [poly |-> 49,  init |-> {},      xor_out |-> {},      reflect |-> TRUE],
   Crc8Cdma2000 |-> [poly |-> 155, init |-> Full(8), xor_out |-> {},      reflect |-> FALSE],
   Crc8DvbS2    |-> [poly |-> 213, init |-> {},      xor_out |-> {},      reflect |-> FALSE],
   Crc8Nissan   |-> [poly |-> 133, init |-> {},      xor_out |-> {},      reflect |-> FALSE]]

ALL_ALGORITHMS == {"Xor", "Sum8", "Crc16Modbus", "Crc16Ccitt"} \cup DOMAIN Crc8Parameters

output_bytes(algorithm) == IF algorithm \in {"Crc16Modbus", "Crc16Ccitt"} THEN 2 ELSE 1

calculate_checksum_simple(algorithm, data) ==
  CASE algorithm = "Xor" -> xor_checksum(data)
    [] algorithm = "Sum8" -> sum8_checksum(data)
    [] algorithm = "Crc16Modbus" -> crc16_modbus_checksum(data)
    [] algorithm = "Crc16Ccitt" -> crc16_ccitt_checksum(data)
    [] algorithm \in DOMAIN Crc8Parameters ->
         LET p == Crc8Parameters[algorithm]
         IN  crc8_parameterised(data, Bits(8, p.poly), p.init, p.xor_out, p.reflect)

-----------------------------------------------------------------------------
(* Frames. Indices count from zero, negative ones from the end.            *)

NoRange == [start |-> 0, end |-> 0]

\* The members of a set in a strict total order.
Arranged(set, Before(_, _)) ==
  [n \in 1 .. Cardinality(set) |-> CHOOSE x \in set : Cardinality({y \in set : Before(y, x)}) = n - 1]

Each(list, Op(_)) == [n \in DOMAIN list |-> Op(list[n])]

\* A negative index saturates at the first byte.
resolve_byte_index(index, length) ==
  IF index >= 0 THEN index ELSE IF length + index < 0 THEN 0 ELSE length + index

Clamped(index, length) ==
  LET at == resolve_byte_index(index, length) IN IF at < length THEN at ELSE length

\* The checksum of a spec fits in a frame of this length.
Fits(length, spec) == resolve_byte_index(spec.position, length) + spec.byte_length <= length

\* The half-open range of bytes calculated over; a frame that is no evidence
\* about the spec has none.
calculated_range(length, spec) ==
  LET start == Clamped(spec.calc_start_byte, length)
      end   == Clamped(spec.calc_end_byte, length)
  IN  IF Fits(length, spec) /\ start < end THEN [start |-> start, end |-> end] ELSE NoRange

Slice(data, start, end) == SubSeq(data, start + 1, end)

\* Zero over a degenerate range.
calculate_checksum(data, spec) ==
  LET start == Clamped(spec.calc_start_byte, Len(data))
      end   == Clamped(spec.calc_end_byte, Len(data))
  IN  IF start >= end THEN {}
      ELSE calculate_checksum_simple(spec.algorithm, Slice(data, start, end))

\* Variant: the two bytes are read in the order they stand, whatever the spec.
ExtractBigEndian(data, spec) ==
  LET at == resolve_byte_index(spec.position, Len(data)) + 1
  IN  IF spec.byte_length = 0 \/ ~Fits(Len(data), spec) THEN {}
      ELSE IF spec.byte_length = 1 THEN data[at]
      ELSE {i + 8 : i \in data[at]} \cup data[at + 1]

\* At most two bytes are read, in either order; zero where they overrun.
extract_checksum(data, spec) ==
  LET at == resolve_byte_index(spec.position, Len(data)) + 1
      Two(high, low) == {i + 8 : i \in high} \cup low
  IN  IF spec.byte_length = 0 \/ ~Fits(Len(data), spec) THEN {}
      ELSE IF spec.byte_length = 1 THEN data[at]
      ELSE IF spec.big_endian THEN Two(data[at], data[at + 1])
      ELSE Two(data[at + 1], data[at])

validate_checksum(data, spec) == extract_checksum(data, spec) = calculate_checksum(data, spec)

-----------------------------------------------------------------------------
\* The key one calculation is shared under.
Key(spec) == <<spec.algorithm, spec.calc_start_byte, spec.calc_end_byte>>

\* What a group calculates, of the frames whose range is not degenerate.
Calculated(frames, spec) ==
  LET HasRange(length) == Clamped(spec.calc_start_byte, length) < Clamped(spec.calc_end_byte, length)
  IN  [i \in {n \in 1 .. Len(frames) : HasRange(Len(frames[n]))} |-> calculate_checksum(frames[i], spec)]

\* Variant: frames too short for the checksum are counted as misses.
CountedAll(frames, calculated, spec) == DOMAIN calculated

Counted(frames, calculated, spec) == {i \in DOMAIN calculated : Fits(Len(frames[i]), spec)}

\* How the k-th spec fares.
Result(frames, calculated, spec, k) ==
  LET counted == Counted(frames, calculated, spec)
      matches == {i \in counted : extract_checksum(frames[i], spec) = calculated[i]}
  IN  [spec_index |-> k, match_count |-> Cardinality(matches), total_count |-> Cardinality(counted)]

FirstOfGroup(specs, k) ==
  CHOOSE j \in 1 .. k : /\ Key(specs[j]) = Key(specs[k])
                        /\ \A i \in 1 .. j - 1 : Key(specs[i]) # Key(specs[k])

\* specs is a sequence; every group calculates once, by its first member, and
\* results come back in the order of the specs. A spec no frame fits has none.
sweep_specs(frames, specs) ==
  LET First(k) == FirstOfGroup(specs, k)
      Fitting(groups) == {k \in 1 .. Len(specs) : Counted(frames, groups[First(k)], specs[k]) # {}}
      Results(groups) == Each(Arranged(Fitting(groups), <),
                              LAMBDA k : Result(frames, groups[First(k)], specs[k], k))
  IN  Results([j \in {First(k) : k \in 1 .. Len(specs)} |-> Calculated(frames, specs[j])])
=============================================================================
