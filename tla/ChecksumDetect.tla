--------------------------- MODULE ChecksumDetect ---------------------------
(***************************************************************************)
(* Finding a checksum among the named algorithms: columns profiled, ranges *)
(* proposed, specs swept, scored and ranked                                *)
(* (crates/wiretap-checksum/src/{columns,sampling,detect}.rs). A column is *)
(* counted from the end of a frame. Rates are compared as fractions; notes *)
(* are left out.                                                           *)
(***************************************************************************)
EXTENDS Checksums

CONSTANTS
  Algorithms,                  \* the named ones in their order: all eleven in the code
  CONSTANT_COLUMN_MIN_SAMPLES, \* 8 in the code
  MAX_SAMPLES,                 \* 200 in the code
  MAX_POOL,                    \* 2048 in the code
  MAX_CANDIDATES               \* 12 in the code

ASSUME DetectAssumption == MAX_SAMPLES \in Nat

MIN_CONFIDENCE    == 35
STRONG_MATCH_RATE == 95

MaxLength(frames) == Max({0} \cup {Len(f) : f \in ToSet(frames)})
Kept(list, most)  == SubSeq(list, 1, Min({most, Len(list)}))

-----------------------------------------------------------------------------
\* Sampling: every so many of the frames that are not empty, or the frames
\* that differ most.
strided_samples(frames, limit) ==
  LET usable == Arranged({i \in DOMAIN frames : frames[i] # <<>>}, <)
      stride == Max({1, (Len(usable) + limit - 1) \div limit})
      taken  == Min({limit, (Len(usable) + stride - 1) \div stride})
  IN  IF limit = 0 THEN <<>> ELSE [i \in 1 .. taken |-> frames[usable[1 + (i - 1) * stride]]]

deduplicate(frames) ==
  LET first == {i \in DOMAIN frames : frames[i] # <<>> /\ \A j \in 1 .. i - 1 : frames[j] # frames[i]}
      order == Arranged(first, <)
  IN  [n \in DOMAIN order |-> frames[order[n]]]

hamming_distance(a, b) ==
  LET common == Min({Len(a), Len(b)})
  IN  FoldFunction(LAMBDA n, sum : n + sum, 0, [i \in 1 .. common |-> Cardinality(Xor(a[i], b[i]))])
        + 8 * (Max({Len(a), Len(b)}) - common)

\* Each next one the farthest from those chosen, the last of the farthest.
diverse_samples(frames, limit) ==
  LET distinct == deduplicate(frames)
      pool     == strided_samples(distinct, MAX_POOL)
      Nearest(i, chosen) == Min({hamming_distance(pool[i], pool[c]) : c \in ToSet(chosen)})
      Farthest(chosen) ==
        {i \in DOMAIN pool : /\ Nearest(i, chosen) > 0
                             /\ \A j \in DOMAIN pool : \/ Nearest(j, chosen) < Nearest(i, chosen)
                                                       \/ Nearest(j, chosen) = Nearest(i, chosen) /\ j <= i}
      Chosen[n \in 1 .. limit] ==
        IF n = 1 THEN <<1>> ELSE Chosen[n - 1] \o SetToSeq(Farthest(Chosen[n - 1]))
  IN  IF limit = 0 \/ Len(distinct) <= limit THEN distinct
      ELSE [n \in DOMAIN Chosen[limit] |-> pool[Chosen[limit][n]]]

-----------------------------------------------------------------------------
\* What one byte does across the samples that reach it.
Column(samples, depth) ==
  LET reach == {i \in DOMAIN samples : Len(samples[i]) >= depth}
      Value(i) == samples[i][Len(samples[i]) - depth + 1]
      values == {Value(i) : i \in reach}
      pairs  == {i \in reach : i + 1 \in reach}
  IN  [position |-> -depth, sample_count |-> Cardinality(reach), distinct_values |-> Cardinality(values),
       counts |-> {<<v, Cardinality({i \in reach : Value(i) = v})>> : v \in values},
       constant_value |-> IF Cardinality(values) = 1 THEN values ELSE {},
       transitions |-> Cardinality(pairs), changes |-> Cardinality({i \in pairs : Value(i) # Value(i + 1)})]

analyse_columns(samples) == [depth \in 1 .. MaxLength(samples) |-> Column(samples, depth)]

padding_value(column) ==
  IF column.sample_count >= CONSTANT_COLUMN_MIN_SAMPLES THEN column.constant_value ELSE {}

column_at(columns, position) == {columns[d] : d \in {-position} \cap DOMAIN columns}
Padding(columns, position)   == UNION {padding_value(c) : c \in column_at(columns, position)}

constant_run_before(position, columns) ==
  LET Stops(p) == Padding(columns, p) = {}
  IN  position - 1 - Max({p \in Min({position, -Len(columns)}) - 1 .. position - 1 : Stops(p)})

\* The ends, each with the starts in order; a range that is empty in the
\* longest frame is empty in all.
calc_ranges(position, columns, header_boundaries) ==
  LET starts == Arranged({s \in {0, 1, 2} \cup header_boundaries : s >= 0}, <)
      run    == constant_run_before(position, columns)
      ends   == IF run > 0 THEN <<position, position - run>> ELSE <<position>>
      From(end) == SelectSeq(starts, LAMBDA s : resolve_byte_index(end, Len(columns)) > s)
  IN  FlattenSeq(Each(ends, LAMBDA end : Each(From(end), LAMBDA start : <<start, end>>)))

\* A spec is tried if the longest frame could carry it.
build_checksum_specs(frames, options, columns) ==
  LET Length(a) == output_bytes(a)
      Tried(a)  == /\ options.lengths = {} \/ Length(a) \in options.lengths
                   /\ MaxLength(frames) > Length(a)
      Orders(a) == IF Length(a) = 2 THEN <<FALSE, TRUE>> ELSE <<TRUE>>
      Over(a, position, range) == Each(Orders(a), LAMBDA big :
              [algorithm |-> a, position |-> position, byte_length |-> Length(a), big_endian |-> big,
               calc_start_byte |-> range[1], calc_end_byte |-> range[2]])
      At(a, position) == FlattenSeq(Each(calc_ranges(position, columns, options.header_boundaries),
                                         LAMBDA range : Over(a, position, range)))
      Places(a) == SelectSeq(options.positions, LAMBDA p : p + Length(a) <= 0)
  IN  FlattenSeq(Each(SelectSeq(Algorithms, Tried),
                      LAMBDA a : FlattenSeq(Each(Places(a), LAMBDA p : At(a, p)))))

-----------------------------------------------------------------------------
volume_bonus(count) ==
  IF count >= 200 THEN 20 ELSE IF count >= 50 THEN 15 ELSE IF count >= 20 THEN 10
  ELSE IF count >= 8 THEN 5 ELSE 0

narrowest_calc_span(spec, frames) ==
  LET Span(f) == Clamped(spec.calc_end_byte, Len(f)) - Clamped(spec.calc_start_byte, Len(f))
      spans   == {n \in {Span(f) : f \in ToSet(frames)} : n > 0}
  IN  IF spans = {} THEN 0 ELSE Min(spans)

\* So many percent of all.
AtLeast(part, whole, percent) == 100 * part >= percent * whole

\* How far the column moves, against the most it could have.
VarietyScore(column, byte_length) ==
  LET ceiling == Min({column.sample_count, IF byte_length = 2 THEN 65536 ELSE 256})
  IN  IF AtLeast(column.distinct_values, ceiling, 50) THEN 15
      ELSE IF AtLeast(column.distinct_values, ceiling, 20) THEN 8
      ELSE IF ~AtLeast(column.distinct_values, ceiling, 5) THEN -30
      ELSE 0

\* No candidate where the column is padding, however well it matches.
score_candidate(spec, matched, total, context) ==
  LET high == IF spec.big_endian THEN spec.position ELSE spec.position + 1
      rate == IF matched = total THEN 55
              ELSE IF AtLeast(matched, total, 99) THEN 48
              ELSE IF AtLeast(matched, total, 95) THEN 40
              ELSE IF AtLeast(matched, total, 80) THEN 25
              ELSE 10
      If(condition, points) == IF condition THEN points ELSE 0
      score == rate + volume_bonus(total)
        + SumSet({VarietyScore(c, spec.byte_length) : c \in column_at(context.columns, spec.position)})
        + If(spec.calc_end_byte = spec.position, 10)
        + If(spec.calc_start_byte \in context.header_boundaries, 5)
        + If(spec.calc_end_byte < spec.position /\ Padding(context.columns, spec.calc_end_byte) # {}, 5)
        + If(narrowest_calc_span(spec, context.frames) < 2, -15)
        + If(spec.byte_length = 2 /\ Padding(context.columns, high) # {}, -10)
  IN  IF Padding(context.columns, spec.position) # {} THEN {}
      ELSE {Max({0, Min({100, score})})}

\* Confidence, then rate, then the shorter, the earlier start and the order of
\* the algorithms; what is equal in all of these stays in order.
AlgorithmRank(a) == CHOOSE n \in DOMAIN Algorithms : Algorithms[n] = a

Better(c, d) ==
  LET Rate(x, y) == x.match_count * y.total_count
      keys == <<<<d.confidence, c.confidence>>, <<Rate(d, c), Rate(c, d)>>, <<c.byte_length, d.byte_length>>,
                <<c.calc_start_byte, d.calc_start_byte>>, <<AlgorithmRank(c.algorithm), AlgorithmRank(d.algorithm)>>>>
      differ == {k \in DOMAIN keys : keys[k][1] # keys[k][2]}
  IN  differ # {} /\ keys[Min(differ)][1] < keys[Min(differ)][2]

\* A stable sort by what is better.
Ranked(list, Precedes(_, _)) ==
  LET order == Arranged(DOMAIN list, LAMBDA i, j :
                 Precedes(list[i], list[j]) \/ (~Precedes(list[j], list[i]) /\ i < j))
  IN  Each(order, LAMBDA i : list[i])

\* The best for each algorithm and place stands for the other ranges, and
\* names those that match as often.
Collapsed(ranked) ==
  LET Same(n, m) == \A f \in {"algorithm", "position", "byte_length", "big_endian"} : ranked[n][f] = ranked[m][f]
      winners == {n \in DOMAIN ranked : \A m \in 1 .. n - 1 : ~Same(m, n)}
      Rate(n, m) == ranked[n].match_count * ranked[m].total_count
      Folded(n) == Arranged({m \in n + 1 .. Len(ranked) : Same(m, n) /\ Rate(n, m) = Rate(m, n)}, <)
      Ranges(n) == Each(Folded(n), LAMBDA m : <<ranked[m].calc_start_byte, ranked[m].calc_end_byte>>)
  IN  Each(Arranged(winners, <), LAMBDA n : ranked[n] @@ [equivalent_ranges |-> Ranges(n)])

collapse_equivalent(candidates) == Collapsed(Ranked(candidates, Better))

\* A result as a candidate, when it is scored at all.
Candidate(spec, r, context) ==
  SetToSeq({spec @@ [match_count |-> r.match_count, total_count |-> r.total_count, confidence |-> score] :
              score \in score_candidate(spec, r.match_count, r.total_count, context)})

Detected(samples, specs, options, columns) ==
  LET context == [columns |-> columns, header_boundaries |-> options.header_boundaries, frames |-> samples]
      Often(r) == AtLeast(r.match_count, r.total_count, options.min_match_rate)
      found   == Each(SelectSeq(sweep_specs(samples, specs), Often),
                      LAMBDA r : Candidate(specs[r.spec_index], r, context))
  IN  Kept(SelectSeq(collapse_equivalent(FlattenSeq(found)), LAMBDA c : c.confidence >= options.min_confidence),
           MAX_CANDIDATES)

detect_checksum_with_columns(samples, options, columns) ==
  Detected(samples, build_checksum_specs(samples, options, columns), options, columns)

detect_checksum(frames, options) ==
  LET Of(samples) == detect_checksum_with_columns(samples, options, analyse_columns(samples))
  IN  Of(strided_samples(frames, MAX_SAMPLES))
=============================================================================
