------------------------------ MODULE MC_Parts ------------------------------
(* The parts that share no state with any other: a behaviour is of the one *)
(* that part names, and the others stand still.                            *)
EXTENDS Slcan, ChecksumSample, Latencies, ScanCapture, MirrorBus, SequenceStream

VARIABLE part

partsVars == <<part, portVars, sample, samples, scanVars, busVars, streamVars>>

MCInit ==
  /\ part \in {"slcan", "checksum", "latency", "scan", "mirror", "sequence"}
  /\ PortInit /\ SampleInit /\ LatencyInit /\ ScanInit /\ BusInit /\ StreamInit
  /\ part # "scan" => truth = CHOOSE t \in Truths : TRUE
  /\ part # "mirror" => value = CHOOSE v \in Values : TRUE
  /\ part # "sequence" => next.seq = CHOOSE s \in Starts : TRUE

MCNext ==
  /\ UNCHANGED part
  /\ IF part = "slcan" THEN PortNext ELSE UNCHANGED portVars
  /\ IF part = "checksum" THEN SampleNext ELSE UNCHANGED sample
  /\ IF part = "latency" THEN LatencyNext ELSE UNCHANGED samples
  /\ IF part = "scan" THEN ScanNext ELSE UNCHANGED scanVars
  /\ IF part = "mirror" THEN BusNext ELSE UNCHANGED busVars
  /\ IF part = "sequence" THEN StreamNext ELSE UNCHANGED streamVars

MCSpec == MCInit /\ [][MCNext]_partsVars

-----------------------------------------------------------------------------
Id(a, b, c) == <<0, 0, 0, 0, 0, a, b, c>>

\* Every prefix; a payload with no code of its own, an id wider than its mask.
MCBusFrames ==
  {DataFrame(Id(1, 2, 3), FALSE, FALSE, TRUE, <<171, 7>>),
   DataFrame(Id(15, 14, 0), FALSE, TRUE, FALSE, <<1, 2, 3, 4, 5, 6, 7, 8, 255>>),
   DataFrame(<<15, 2, 3, 4, 5, 6, 7, 8>>, TRUE, TRUE, TRUE, <<>>),
   RemoteFrame(<<1, 0, 0, 0, 0, 0, 0, 13>>, TRUE, 9)}

\* The second begins like a frame.
MCReplies == {<<"V", "1", "0">>, <<"T", "1", "2">>}

\* One character over the bound; more, with a tail that reads as a frame nobody
\* sent; and the beginning of a frame, which passes the bound with the longest
\* frame it runs into. Two in a row are more than twice the bound.
MCNoises ==
  LET As(n) == [i \in 1 .. n |-> "A"] IN
    {As(33), As(33) \o <<"t", "1", "2", "3", "0">>, <<"t", "1", "2", "0">>}

MCEnds == {<<"LF">>, <<"CR", "LF">>}

MCFrames ==
  LET Bytes == {{}, {0}, {7}, {1, 3, 4, 6}, Full(8)}
      Doublet == [i \in 1 .. 2 |-> Bits(8, 17 * i)]
  IN  {<<b>> : b \in Bytes} \cup {<<b, c>> : b, c \in {{}, {0}, {7}, Full(8)}}
        \cup {Sealed(Doublet, s) : s \in SealSpecs}
        \cup {Doublet \o <<xor_checksum(Doublet)>> \o <<{0}>>, Doublet \o Doublet \o Doublet}

Swept(algorithm, position, byte_length, big_endian, start, end) ==
  [algorithm |-> algorithm, position |-> position, byte_length |-> byte_length,
   big_endian |-> big_endian, calc_start_byte |-> start, calc_end_byte |-> end]

\* Specs that share a calculation and differ in where and how they read.
MCSpecs ==
  <<Swept("Crc16Modbus", -2, 2, FALSE, 0, -2), Swept("Xor", -1, 1, TRUE, 0, -1),
    Swept("Crc16Modbus", -2, 2, TRUE, 0, -2), Swept("Xor", 2, 1, TRUE, 0, -1),
    Swept("Sum8", -1, 1, TRUE, 1, -1), Swept("Xor", -3, 1, TRUE, -9, -1),
    Swept("Sum8", 0, 1, TRUE, 1, 9), Swept("Xor", -1, 3, TRUE, 0, -1)>>
-----------------------------------------------------------------------------
\* A source with two mirrors of its second byte, each with a first byte of
\* its own, and a third that inherits nothing and is not tracked. Frames are
\* seen with a node number above the mask.
Signal(start, length, inherited) ==
  [start_bit |-> start, bit_length |-> length, inherited |-> inherited]

MCCatalog ==
  [f \in {1, 2, 3, 4} |->
     CASE f = 1 -> [mirror_of |-> Absent, interval |-> 2,
                    signals |-> {Signal(0, 8, FALSE), Signal(8, 8, FALSE)}]
       [] f \in {2, 3} -> [mirror_of |-> 1, interval |-> 2,
                    signals |-> {Signal(0, 8, FALSE), Signal(8, 8, TRUE), Signal(16, 0, TRUE), Signal(Absent, Absent, TRUE)}]
       [] f = 4 -> [mirror_of |-> 1, interval |-> 2, signals |-> {Signal(0, 8, FALSE)}]]

MCRawId == [f \in {1, 2, 3} |-> 8 * f + f]

\* The wrong payload is one the source never sends: the byte is missing.
MCWrong == {<<5>>}
-----------------------------------------------------------------------------
At(position, byte_length, big_endian, start, end) ==
  [position |-> position, byte_length |-> byte_length, big_endian |-> big_endian,
   calc_start_byte |-> start, calc_end_byte |-> end]

Truth(spec, target) == [specification |-> spec, target |-> target]
Last1(start) == At(-1, 1, TRUE, start, -1)

MCTruths ==
  {Truth(Additive("Sum", Bits(8, 3)), Last1(1)), Truth(Additive("NegatedSum", {}), At(-2, 1, TRUE, 0, -2)),
   Truth(Additive("Xor", Bits(8, 165)), Last1(0)),
   Truth(Crc(8, 29, FALSE, FALSE, Full(8), Bits(8, 90)), Last1(0)),
   Truth(Crc(8, 9, TRUE, TRUE, {}, {}), Last1(1)),
   Truth(Crc(16, 4129, TRUE, FALSE, Bits(16, 7439), {3}), At(-2, 2, FALSE, 0, -2)),
   Truth(Named("Crc8Nissan"), Last1(1)), Truth(Named("Sum8"), Last1(0)),
   Truth(Named("Crc16Modbus"), At(-2, 2, FALSE, 0, -2))}

Byte(n) == Bits(8, n)
MCBodies == {<<Byte(16), Byte(7), Byte(0), {}>>, <<Byte(16), Byte(200), Byte(33), {}>>,
             <<Byte(16), Byte(9), Byte(1), Byte(77), {}>>}
MCRunts  == {<<Byte(6)>>, <<Byte(21)>>}
MCForms ==
  {[algorithm |-> a, start_byte |-> s, byte_length |-> n, endianness |-> {}, calc_start_byte |-> c,
    calc_end_byte |-> e, offset |-> {}, crc |-> {}] :
     a \in {"Xor", "Sum9"}, s \in -6 .. 5, n \in {0, 1, 2, 5}, c \in {-5, -2, -1, 0, 2, 4}, e \in {{}} \cup {{k} : k \in -5 .. 5}}

MCAlgorithms == <<"Xor", "Sum8", "Crc8Nissan", "Crc16Modbus">>
MCSearched == [w \in {8, 16} |-> IF w = 8 THEN {9, 29, 213} ELSE {4129, 40961}]
MCScanOptions == [max_solutions |-> 2,
  scan |-> [positions |-> <<-1, -2>>, min_samples |-> 3, min_likeness |-> 50, search_custom_polynomials |-> TRUE],
  detection |-> [positions |-> <<-1, -2, -3>>, lengths |-> {}, header_boundaries |-> {1},
                 min_match_rate |-> 50, min_confidence |-> MIN_CONFIDENCE]]
=============================================================================
