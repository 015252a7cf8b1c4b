--------------------------- MODULE ChecksumSample ---------------------------
(***************************************************************************)
(* The frames a checksum is looked for in, gathered one at a time, and     *)
(* what the algorithms and the sweep must say of them.                     *)
(***************************************************************************)
EXTENDS Checksums

CONSTANTS
  Frames,     \* the frames that may be gathered
  Specs,      \* the configurations swept, a sequence
  MaxFrames   \* bound: frames gathered

Configuration ==
  [algorithm : ALL_ALGORITHMS, position : Int, byte_length : Nat, big_endian : BOOLEAN,
   calc_start_byte : Int, calc_end_byte : Int]

ASSUME SampleAssumption ==
  /\ MaxFrames \in Nat
  /\ \A f \in Frames : f \in Seq(SUBSET Full(8)) /\ f # <<>>
  /\ Specs \in Seq(Configuration)

VARIABLE sample

SampleInit == sample = <<>>

Gather(f) == Len(sample) < MaxFrames /\ sample' = Append(sample, f)

SampleNext == \E f \in Frames : Gather(f)

SampleSpec == SampleInit /\ [][SampleNext]_sample

-----------------------------------------------------------------------------
\* A sweep, calculating once per group and reading each spec on its own, says
\* of every spec what validating the frames one by one says: its total is the
\* frames calculated_range finds to be evidence, its matches those of them
\* that validate. A frame the spec does not fit is neither.
SweepIsValidation ==
  LET swept == sweep_specs(sample, Specs)
      Evidence(k) == {i \in 1 .. Len(sample) :
                        calculated_range(Len(sample[i]), Specs[k]) # NoRange}
      Valid(k) == {i \in Evidence(k) : validate_checksum(sample[i], Specs[k])}
  IN  /\ \A n \in 1 .. Len(swept) - 1 : swept[n].spec_index < swept[n + 1].spec_index
      /\ ToSet(swept) = {[spec_index |-> k, match_count |-> Cardinality(Valid(k)),
                          total_count |-> Cardinality(Evidence(k))] :
                           k \in {j \in 1 .. Len(Specs) : Evidence(j) # {}}}

\* A body with its checksum after it, in either byte order.
SealSpec(algorithm, big_endian) ==
  LET n == output_bytes(algorithm)
  IN  [algorithm |-> algorithm, position |-> -n, byte_length |-> n, big_endian |-> big_endian,
       calc_start_byte |-> 0, calc_end_byte |-> -n]

Sealed(body, spec) ==
  LET value == calculate_checksum_simple(spec.algorithm, body)
      low   == value \cap Full(8)
      high  == {i - 8 : i \in value \ Full(8)}
  IN  body \o (IF spec.byte_length = 1 THEN <<low>>
               ELSE IF spec.big_endian THEN <<high, low>> ELSE <<low, high>>)

SealSpecs == {s \in {SealSpec(a, e) : a \in ALL_ALGORITHMS, e \in BOOLEAN} :
                s.big_endian => s.byte_length = 2}

Flipped(data, i, bit) == [data EXCEPT ![i] = Xor(@, {bit})]

\* What was sealed with an algorithm validates under it, and a single flipped
\* bit, of the body or of the checksum, is always detected. The check of the
\* Modbus framers is the same one, from two bytes of body on, and its table is
\* the parameterised CRC ("the same computation eight branches at a time").
\* Every form of a CRC-16 is one division: reflection turns it around and
\* changes nothing else, so the two modes agree on reflected inputs, whatever
\* the output flag.
SealHolds ==
  Len(sample) = 1 =>
    LET body   == Last(sample)
        mirror == [i \in 1 .. Len(body) |-> Reflect(8, body[i])]
    IN  /\ \A spec \in SealSpecs :
             LET sealed == Sealed(body, spec)
             IN  /\ validate_checksum(sealed, spec)
                 /\ spec = SealSpec("Crc16Modbus", FALSE) =>
                      (crc16_modbus_valid(sealed) <=> Len(body) >= 2)
                 /\ \A i \in 1 .. Len(sealed), bit \in Full(8) :
                      ~validate_checksum(Flipped(sealed, i, bit), spec)
        /\ \A poly \in {CRC16_MODBUS_POLY, CRC16_CCITT_POLY}, init \in {{}, {0, 9}, Full(16)},
             reflect_out \in BOOLEAN :
               crc16_parameterised(body, poly, init, {}, FALSE, reflect_out)
                 = crc16_parameterised(mirror, poly, Reflect(16, init), {}, TRUE, reflect_out)
        /\ crc16_modbus_checksum(body)
             = crc16_parameterised(body, CRC16_MODBUS_POLY, Full(16), {}, TRUE, TRUE)
=============================================================================
