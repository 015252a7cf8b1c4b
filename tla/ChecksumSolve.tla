--------------------------- MODULE ChecksumSolve ---------------------------
(***************************************************************************)
(* Solving a checksum from frames that carry it                            *)
(* (crates/wiretap-checksum/src/solve.rs), and the solution as a catalogue *)
(* keeps it (crates/wiretap-catalog/src/model.rs) and measures it          *)
(* (src/validate.rs). A target has the fields of a swept spec, without an  *)
(* algorithm. An optional value is a set with at most one member.          *)
(***************************************************************************)
EXTENDS Checksums

CONSTANTS
  Searched,    \* what an exhaustive search tries: every polynomial of a width, in the code
  MIN_SAMPLES  \* samples before a solution means anything: 3 in the code

KNOWN_CRC8_POLYNOMIALS  == {7, 29, 47, 49, 155, 213, 133}
KNOWN_CRC16_POLYNOMIALS == {32773, 4129, 15717, 35767, 51303, 1417, 2061, 7631}
Known(width) == IF width = 8 THEN KNOWN_CRC8_POLYNOMIALS ELSE KNOWN_CRC16_POLYNOMIALS

Add(a, b)      == Bits(8, (Number(a) + Number(b)) % 256)
Subtract(a, b) == Bits(8, (Number(a) - Number(b)) % 256)

-----------------------------------------------------------------------------
\* A specification is a named algorithm, an additive one with its offset, or a
\* CRC with its parameters.
Named(algorithm)     == [kind |-> "named", algorithm |-> algorithm]
Additive(op, offset) == [kind |-> "additive", op |-> op, offset |-> offset]
Crc(width, poly, reflect_in, reflect_out, init, xor_out) ==
  [kind |-> "crc", width |-> width, polynomial |-> poly, reflect_in |-> reflect_in,
   reflect_out |-> reflect_out, init |-> init, xor_out |-> xor_out]

\* What is left of a specification when what a range absorbs is taken away.
family(spec) ==
  CASE spec.kind = "named" -> spec
    [] spec.kind = "additive" -> [spec EXCEPT !.offset = {}]
    [] spec.kind = "crc" -> [spec EXCEPT !.init = {}, !.xor_out = {}]

algorithm_id(spec) ==
  CASE spec.kind = "named" -> spec.algorithm
    [] spec.kind = "additive" -> [Xor |-> "Xor", Sum |-> "Sum8", NegatedSum |-> "sum8_negated"][spec.op]
    [] spec.kind = "crc" -> "crc_custom"

\* A CRC of 8 bits reflects its output with its input.
CrcOf(width, data, poly, init, xor_out, reflect_in, reflect_out) ==
  IF width = 8 THEN crc8_parameterised(data, Bits(8, poly), init, xor_out, reflect_in)
  ELSE crc16_parameterised(data, Bits(16, poly), init, xor_out, reflect_in, reflect_out)

calculate(spec, data) ==
  CASE spec.kind = "named" -> calculate_checksum_simple(spec.algorithm, data)
    [] spec.kind = "additive" ->
         (CASE spec.op = "Xor" -> Xor(xor_checksum(data), spec.offset)
            [] spec.op = "Sum" -> Add(sum8_checksum(data), spec.offset)
            [] spec.op = "NegatedSum" -> Subtract(spec.offset, sum8_checksum(data)))
    [] spec.kind = "crc" ->
         CrcOf(spec.width, data, spec.polynomial, spec.init, spec.xor_out, spec.reflect_in, spec.reflect_out)

is_expressible_by_sweep(spec) ==
  spec.kind = "named" \/ (spec.kind = "additive" /\ spec.offset = {} /\ spec.op \in {"Xor", "Sum"})

-----------------------------------------------------------------------------
\* The bytes calculated over and the checksum beside them, of the frames that
\* are evidence.
observations(frames, target) ==
  LET evidence == {i \in DOMAIN frames : calculated_range(Len(frames[i]), target) # NoRange}
      Of(f) == LET range == calculated_range(Len(f), target)
               IN  [data |-> Slice(f, range.start, range.end), observed |-> extract_checksum(f, target)]
  IN  Each(Arranged(evidence, <), LAMBDA i : Of(frames[i]))

Solution(target, spec, samples, excluded, alternatives) ==
  [target |-> target, specification |-> spec, sample_count |-> samples, excluded_count |-> excluded,
   alternatives |-> alternatives, equivalent_ranges |-> <<>>]

\* The value every member of a nonempty sequence shares.
Shared(list) == {v \in {list[1]} : \A i \in DOMAIN list : list[i] = v}

Residue(op, s) ==
  CASE op = "Xor" -> Xor(s.observed, xor_checksum(s.data))
    [] op = "Sum" -> Subtract(s.observed, sum8_checksum(s.data))
    [] op = "NegatedSum" -> Add(s.observed, sum8_checksum(s.data))

\* The first of the additive kinds whose residue does not move.
solve_additive(frames, target) ==
  LET samples == observations(frames, target)
      Offset(op) == Shared([i \in DOMAIN samples |-> Residue(op, samples[i])])
      First == IF Offset("Xor") # {} THEN "Xor" ELSE IF Offset("Sum") # {} THEN "Sum" ELSE "NegatedSum"
  IN  IF target.byte_length # 1 \/ Len(samples) < MIN_SAMPLES THEN <<>>
      ELSE SetToSeq({Solution(target, Additive(First, offset), Len(samples), 0, {}) : offset \in Offset(First)})

\* The commonest length of what is calculated over, the longest of those.
largest_length_group(samples) ==
  LET Length(i) == Len(samples[i].data)
      Count(n)  == Cardinality({i \in DOMAIN samples : Length(i) = n})
      lengths   == {Length(i) : i \in DOMAIN samples}
  IN  {n \in lengths : \A m \in lengths : Count(m) < Count(n) \/ (Count(m) = Count(n) /\ m <= n)}

\* Variant: what a conventional initial value leads to is forgotten.
AlternativesUncarried(width, poly, reflect_in, reflect_out, length, residue) ==
  {<<Full(width), residue>>}

\* The other initial value that is usual, and the final one that goes with it.
conventional_alternatives(width, poly, reflect_in, reflect_out, length, residue) ==
  LET zeros == [i \in 1 .. length |-> {}]
  IN  {<<Full(width), Xor(residue, CrcOf(width, zeros, poly, Full(width), {}, reflect_in, reflect_out))>>}

reflection_combinations(width) ==
  {r \in BOOLEAN \X BOOLEAN : width = 8 => r[1] = r[2]}

\* Polynomials whose residue samples of one length share, the standards first,
\* then the lower. (A first pass over three samples only saves time.)
SolvedGroup(samples, excluded, target, options) ==
  LET width  == 8 * target.byte_length
      Zeroed(s, poly, r) == Xor(s.observed, CrcOf(width, s.data, poly, {}, {}, r[1], r[2]))
      Fits3(poly, r) == Shared([i \in DOMAIN samples |-> Zeroed(samples[i], poly, r)])
      fits == UNION {{Crc(width, poly, r[1], r[2], {}, residue) : residue \in Fits3(poly, r)} :
                       poly \in IF options.known_polynomials_only THEN Known(width) ELSE Searched[width],
                       r \in reflection_combinations(width)}
      Order(c) == <<c.polynomial \notin Known(width), c.polynomial, c.reflect_in, c.reflect_out>>
      Before(c, d) ==
        LET a == Order(c) b == Order(d)
            differ == {k \in 1 .. 4 : a[k] # b[k]}
            First == Min(differ)
        IN  differ # {} /\ IF First = 2 THEN a[2] < b[2] ELSE b[First]
      Found(c) == Solution(target, c, Len(samples), excluded,
                           conventional_alternatives(width, c.polynomial, c.reflect_in, c.reflect_out,
                                                     Len(samples[1].data), c.xor_out))
  IN  IF Len(samples) < MIN_SAMPLES THEN <<>>
      ELSE Each(SubSeq(Arranged(fits, Before), 1, Min({Cardinality(fits), options.max_solutions})), Found)

solve_crc(frames, target, options) ==
  LET Largest(all) == SelectSeq(all, LAMBDA s : Len(s.data) \in largest_length_group(all))
      Solved(all)  == SolvedGroup(Largest(all), Len(all) - Len(Largest(all)), target, options)
  IN  IF target.byte_length \notin {1, 2} THEN <<>> ELSE Solved(observations(frames, target))

Range2(s) == <<s.target.calc_start_byte, s.target.calc_end_byte>>

\* Variant: the ranges of the others are not named.
CollapsedUnnamed(solutions) ==
  LET Same(i, j) == /\ solutions[i].target.position = solutions[j].target.position
                    /\ family(solutions[i].specification) = family(solutions[j].specification)
      first == {i \in DOMAIN solutions : \A j \in 1 .. i - 1 : ~Same(i, j)}
      order == Arranged(first, <)
  IN  [n \in DOMAIN order |-> solutions[order[n]]]

\* Solutions of one family in one place are one answer: that of the widest
\* range, the first found of those, which names the ranges of the others.
FoldedKin(ordered) ==
  LET Same(s, t) ==
        /\ \A f \in {"position", "byte_length", "big_endian"} : s.target[f] = t.target[f]
        /\ family(s.specification) = family(t.specification)
      Kin(n)  == {m \in DOMAIN ordered : Same(ordered[m], ordered[n])}
      winners == {n \in DOMAIN ordered : \A m \in Kin(n) : n <= m}
      Others(n) == Each(Arranged(Kin(n) \ {n}, <), LAMBDA m : Range2(ordered[m]))
  IN  Each(Arranged(winners, <), LAMBDA n : [ordered[n] EXCEPT !.equivalent_ranges = Others(n)])

collapse_solved(solutions) ==
  LET Wider(i, j) ==
        LET a == Range2(solutions[i]) b == Range2(solutions[j])
        IN  \/ a[1] < b[1] \/ (a[1] = b[1] /\ a[2] > b[2]) \/ (a = b /\ i < j)
  IN  FoldedKin(Each(Arranged(DOMAIN solutions, Wider), LAMBDA i : solutions[i]))

solve_all(frames, targets, options) ==
  collapse_solved(FlattenSeq([i \in DOMAIN targets |->
    solve_additive(frames, targets[i]) \o solve_crc(frames, targets[i], options)]))

-----------------------------------------------------------------------------
\* A solution as a catalogue declares it. The width of a CRC is that of the
\* bytes it fills; an order of bytes is said when there are two.
from_solved(s) ==
  LET spec == s.specification
  IN  [algorithm |-> algorithm_id(spec), start_byte |-> s.target.position, byte_length |-> s.target.byte_length,
       endianness |-> IF s.target.byte_length > 1 THEN {IF s.target.big_endian THEN "big" ELSE "little"} ELSE {},
       calc_start_byte |-> s.target.calc_start_byte, calc_end_byte |-> {s.target.calc_end_byte},
       offset |-> IF spec.kind = "additive" THEN {spec.offset} ELSE {},
       crc    |-> IF spec.kind = "crc" THEN {[spec EXCEPT !.width = 0]} ELSE {}]

\* And read back: an offset makes an additive one of what is named as a plain
\* sum. A CRC that lacks its polynomial is none.
specification(declared) ==
  CASE declared.algorithm = "crc_custom" -> {[c EXCEPT !.width = 8 * declared.byte_length] : c \in declared.crc}
    [] declared.algorithm = "sum8_negated" ->
         {Additive("NegatedSum", o) : o \in IF declared.offset = {} THEN {{}} ELSE declared.offset}
    [] declared.algorithm \in {"Xor", "Sum8"} /\ declared.offset # {} ->
         {Additive([Xor |-> "Xor", Sum8 |-> "Sum"][declared.algorithm], o) : o \in declared.offset}
    [] OTHER -> {Named(a) : a \in {declared.algorithm} \cap ALL_ALGORITHMS}

TargetOf(declared) ==
  [position |-> declared.start_byte, byte_length |-> declared.byte_length,
   big_endian |-> declared.endianness # {"little"}, calc_start_byte |-> declared.calc_start_byte,
   calc_end_byte |-> IF declared.calc_end_byte = {} THEN declared.start_byte
                     ELSE CHOOSE e \in declared.calc_end_byte : TRUE]

\* How many frames a declaration reproduces, of those that are evidence.
verify_frame_checksum(declared, frames) ==
  {LET samples == observations(frames, TargetOf(declared))
   IN  [matched |-> Cardinality({i \in DOMAIN samples : calculate(spec, samples[i].data) = samples[i].observed}),
        total |-> Len(samples)] : spec \in specification(declared)}

\* Variant: each index is judged by itself.
FieldsApart(c, frame_length) ==
  LET At(index) == resolve_byte_index(index, frame_length)
  IN  {"start_byte" : i \in {j \in {c.start_byte} : At(j) + c.byte_length > frame_length}}
        \cup {"byte_length" : n \in {c.byte_length} \ (1 .. 4)}
        \cup {"calc_start_byte" : i \in {j \in {c.calc_start_byte} : At(j) >= frame_length}}
        \cup {"calc_end_byte" : i \in IF c.calc_end_byte = {} THEN {0}
                                      ELSE {j \in c.calc_end_byte : At(j) \notin 1 .. frame_length}}

\* What an editor says of the form of a checksum, for frames of some length:
\* the fields it finds fault with.
validate_checksum_fields(c, frame_length) ==
  LET At(index) == resolve_byte_index(index, frame_length)
      Outside(index, low, high) == At(index) \notin low .. high
  IN  {"algorithm" : a \in {c.algorithm} \ (ALL_ALGORITHMS \cup {"crc_custom", "sum8_negated"})}
        \cup {"start_byte" : i \in {j \in {c.start_byte} :
                Outside(j, 0, frame_length - 1) \/ At(j) + c.byte_length > frame_length}}
        \cup {"byte_length" : n \in {c.byte_length} \ (1 .. 4)}
        \cup {"calc_start_byte" : i \in {j \in {c.calc_start_byte} : Outside(j, 0, frame_length - 1)}}
        \cup {"calc_end_byte" : i \in IF c.calc_end_byte = {} THEN {0}
                                      ELSE {j \in c.calc_end_byte : Outside(j, 1, frame_length)}}
        \cup {"calc_range" : i \in {j \in c.calc_end_byte : At(c.calc_start_byte) >= At(j)}}
=============================================================================
