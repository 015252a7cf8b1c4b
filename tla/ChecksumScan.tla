---------------------------- MODULE ChecksumScan ----------------------------
(***************************************************************************)
(* A capture scanned for checksums, frame id by frame id: which columns    *)
(* could be one, the sweep of the named algorithms, and the solver for the *)
(* columns left (crates/wiretap-analysis/src/{checksum,scan}.rs).          *)
(***************************************************************************)
EXTENDS ChecksumDetect, ChecksumSolve

CONSTANTS
  MIN_TRANSITIONS,      \* 8 in the code
  MAX_CANDIDATES_PER_ID \* 6 in the code

-----------------------------------------------------------------------------
\* Which columns could be a checksum.

\* log2 in thousandths, for as many frames as a model gathers.
Log2 == <<0, 1000, 1585, 2000, 2322, 2585, 2807, 3000, 3170, 3322, 3459, 3585>>

entropy_bits(column) ==
  LET Part(value) == value[2] * (Log2[column.sample_count] - Log2[value[2]])
  IN  MapThenSumSet(Part, column.counts) \div column.sample_count

\* Variant: frames of different lengths are compared from their ends.
PairsEndOnly(payloads, depth, rest, column) ==
  LET Byte(i, d) == payloads[i][Len(payloads[i]) - d + 1]
      common(i)  == Min({Len(payloads[i]), Len(payloads[i + 1])})
      RestMoved(i) == \E d \in 1 .. common(i) : d # depth /\ Byte(i, d) # Byte(i + 1, d)
  IN  Cardinality({i \in 1 .. Len(payloads) - 1 :
        /\ common(i) >= depth
        /\ RestMoved(i) = rest /\ (Byte(i, depth) # Byte(i + 1, depth)) = column})

\* Pairs of neighbours of one length that reach the column, by what moved.
Pairs(payloads, depth, rest, column) ==
  LET Moved(i, at) == payloads[i][at] # payloads[i + 1][at]
      Index(i) == Len(payloads[i]) - depth + 1
      RestMoved(i) == \E at \in DOMAIN payloads[i] \ {Index(i)} : Moved(i, at)
  IN  Cardinality({i \in 1 .. Len(payloads) - 1 :
        /\ Len(payloads[i]) >= depth /\ Len(payloads[i]) = Len(payloads[i + 1])
        /\ RestMoved(i) = rest /\ Moved(i, Index(i)) = column})

\* Why a column is ruled out, in the order the reasons are tried.
Rejection(column, payloads, distinct_payloads) ==
  LET depth    == -column.position
      with     == Pairs(payloads, depth, TRUE, TRUE)
      changed  == with + Pairs(payloads, depth, TRUE, FALSE)
      alone    == Pairs(payloads, depth, FALSE, TRUE)
  IN  IF padding_value(column) # {} THEN {"Constant"}
      ELSE IF changed + alone < MIN_TRANSITIONS THEN {"TooFewTransitions"}
      ELSE IF 50 * alone > changed + alone THEN {"NotAFunctionOfTheOtherBytes"}
      ELSE IF changed = 0 THEN {"TooFewTransitions"}
      ELSE IF ~AtLeast(with, changed, 90) THEN {"TooOftenUnchanged"}
      ELSE IF 4 * column.distinct_values < Min({distinct_payloads, 256}) THEN {"TooFewDistinctValues"}
      ELSE {}

\* Out of 100; the parts are thousandths.
Likeness(column, payloads) ==
  LET depth   == -column.position
      with    == Pairs(payloads, depth, TRUE, TRUE)
      changed == with + Pairs(payloads, depth, TRUE, FALSE)
      responsive == (40000 * (10 * with - 9 * changed)) \div changed
      spread  == (15000 * column.distinct_values) \div Min({column.sample_count, 256})
  IN  (responsive + 20000 + (25 * entropy_bits(column)) \div 8 + spread) \div 1000

evaluate(column, payloads, distinct_payloads) ==
  LET rejected == Rejection(column, payloads, distinct_payloads)
  IN  [position |-> column.position, rejected |-> rejected,
       likeness |-> IF rejected = {} THEN Likeness(column, payloads) ELSE 0]

checksum_evidence_with_columns(sample, columns) ==
  [d \in DOMAIN columns |-> evaluate(columns[d], sample, Cardinality(ToSet(sample)))]

checksum_evidence(payloads) ==
  LET sample == strided_samples(payloads, MAX_SAMPLES)
  IN  checksum_evidence_with_columns(sample, analyse_columns(sample))

\* What to solve, best first: every column left, and with it the one before
\* when that is left too, over every range the sweep tries.
solve_targets(evidence, columns, min_likeness) ==
  LET IsCandidate(e) == e.rejected = {}
      Chosen(e) == IsCandidate(e) /\ e.likeness >= min_likeness
      Pair(e) == {n \in ToSet(evidence) : n.position = e.position - 1 /\ IsCandidate(n)}
      Over(position, byte_length, orders) ==
        LET likeness == Max({0} \cup {e.likeness : e \in {f \in ToSet(evidence) :
                                                     f.position \in position .. position + byte_length - 1}})
            Target(range, big) ==
              [target |-> [position |-> position, byte_length |-> byte_length, big_endian |-> big,
                           calc_start_byte |-> range[1], calc_end_byte |-> range[2]], likeness |-> likeness]
        IN  FlattenSeq(Each(calc_ranges(position, columns, {}),
                            LAMBDA range : Each(orders, LAMBDA big : Target(range, big))))
      Tried(e) == Over(e.position, 1, <<TRUE>>)
                    \o (IF Pair(e) = {} THEN <<>> ELSE Over(e.position - 1, 2, <<FALSE, TRUE>>))
  IN  FlattenSeq(Each(Ranked(SelectSeq(evidence, Chosen), LAMBDA e, f : e.likeness > f.likeness), Tried))

-----------------------------------------------------------------------------
\* The whole of one frame id, then of a capture.
score_solved(likeness, samples) == Min({100, 55 + volume_bonus(samples) + (likeness * 25) \div 100})

Discovered(spec, place, match_count, total_count, exact, confidence, ranges) ==
  [specification |-> spec, position |-> place.position, length |-> place.byte_length, big_endian |-> place.big_endian,
   calc_start_byte |-> place.calc_start_byte, calc_end_byte |-> place.calc_end_byte, match_count |-> match_count,
   total_count |-> total_count, exact |-> exact, confidence |-> confidence, equivalent_ranges |-> ranges]

FromSweep(c) ==
  Discovered(Named(c.algorithm), c, c.match_count, c.total_count, FALSE, c.confidence, c.equivalent_ranges)

\* Solved, and news: not what the sweep finds too. The last two steps come
\* after the solutions were folded.
SolvedNews(ranked, solver_samples, options) ==
  LET LikenessOf(target) ==
        LET at == {n \in DOMAIN ranked : ranked[n].target = target} IN ranked[Min(at)].likeness
      crc      == [known_polynomials_only |-> ~options.search_custom_polynomials, max_solutions |-> 2]
      Score(s) == score_solved(LikenessOf(s.target), Len(solver_samples))
      IsNews(s) == ~is_expressible_by_sweep(s.specification) /\ Score(s) >= MIN_CONFIDENCE
  IN  Each(SelectSeq(solve_all(solver_samples, Each(ranked, LAMBDA r : r.target), crc), IsNews),
           LAMBDA s : Discovered(s.specification, s.target, s.sample_count, s.sample_count, TRUE, Score(s),
                                 s.equivalent_ranges))

solved_candidates(columns, column_stats, solver_samples, options) ==
  SolvedNews(solve_targets(columns, column_stats, options.min_likeness), solver_samples, options)

\* A solved one counts as exact.
Compare(c, d) ==
  LET Rate(x, y) == x.match_count * y.total_count
      keys == <<<<d.confidence, c.confidence>>, <<Rate(d, c), Rate(c, d)>>, <<c.length, d.length>>,
                <<c.calc_start_byte, d.calc_start_byte>>>>
      differ == {k \in DOMAIN keys : keys[k][1] # keys[k][2]}
  IN  differ # {} /\ keys[Min(differ)][1] < keys[Min(differ)][2]

AllCandidates(samples, stats, columns, solver_samples, options) ==
  Each(detect_checksum_with_columns(samples,
         [positions |-> options.positions, lengths |-> {}, header_boundaries |-> {},
          min_match_rate |-> STRONG_MATCH_RATE, min_confidence |-> MIN_CONFIDENCE], stats), FromSweep)
    \o solved_candidates(columns, stats, solver_samples, options)

analyse_group(frames, options) ==
  LET Report(samples, stats, columns, solver_samples) ==
        [frame_count |-> Len(frames), distinct_payloads |-> Len(solver_samples), columns |-> columns,
         candidates |-> Kept(Ranked(AllCandidates(samples, stats, columns, solver_samples, options), Compare),
                             MAX_CANDIDATES_PER_ID)]
      Profiled(samples, stats) ==
        Report(samples, stats, checksum_evidence_with_columns(samples, stats), diverse_samples(frames, MAX_SAMPLES))
      Sampled(samples) == Profiled(samples, analyse_columns(samples))
  IN  Sampled(strided_samples(frames, MAX_SAMPLES))

\* Frames with an id of their own, in the order they came; empty ones are left
\* out, and so are ids with too few.
scan_frames(frames, options) ==
  LET Of(key) == Each(SelectSeq(frames, LAMBDA f : f.key = key /\ f.bytes # <<>>), LAMBDA f : f.bytes)
      keys == {f.key : f \in {g \in ToSet(frames) : g.bytes # <<>>}}
      enough == {k \in keys : Len(Of(k)) >= options.min_samples}
  IN  [findings |-> [k \in enough |-> analyse_group(Of(k), options)], unique_frame_ids |-> Cardinality(keys),
       skipped_frame_ids |-> Cardinality(keys \ enough)]
=============================================================================
