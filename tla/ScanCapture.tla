---------------------------- MODULE ScanCapture ----------------------------
(***************************************************************************)
(* A device whose frames carry a checksum, on a link it shares with others *)
(* too short to, and the capture of it that is searched for the checksum.  *)
(***************************************************************************)
EXTENDS ChecksumScan

CONSTANTS
  Truths,     \* what the device may do: a specification and where it is applied
  Bodies,     \* its frames, before the checksum is put in
  Runts,      \* the others
  Forms,      \* declarations an editor may be given
  ScanOptions,
  MaxCapture  \* bound: frames in a capture

\* A checksum of a byte or two comes after what it is calculated over, both
\* counted from the end of the frame.
EndsFrames(target) ==
  /\ target.position \in Int /\ target.byte_length \in {1, 2} /\ target.position + target.byte_length <= 0
  /\ target.calc_start_byte \in Int /\ target.calc_end_byte \in Int
  /\ target.calc_end_byte <= target.position

ASSUME CaptureAssumption ==
  /\ Bodies \cup Runts \subseteq Seq(SUBSET Full(8))
  /\ \A t \in Truths : EndsFrames(t.target) /\ \A r \in Runts : calculated_range(Len(r), t.target) = NoRange
  /\ \A f \in Forms : /\ f.start_byte \in Int /\ f.byte_length \in Nat /\ f.calc_start_byte \in Int
                      /\ \A d, e \in f.calc_end_byte : d = e /\ e \in Int

VARIABLES
  truth,   \* the specification and target of the device
  capture  \* the frames so far

scanVars == <<truth, capture>>

ScanInit == truth \in Truths /\ capture = <<>>

\* The body with the checksum in its place.
SealAs(spec, target, body) ==
  LET range == calculated_range(Len(body), target)
      value == calculate(spec, Slice(body, range.start, range.end))
      at    == resolve_byte_index(target.position, Len(body)) + 1
      low   == value \cap Full(8)
      high  == {i - 8 : i \in value \ Full(8)}
      seal  == IF target.byte_length = 1 THEN <<low>>
               ELSE IF target.big_endian THEN <<high, low>> ELSE <<low, high>>
  IN  [i \in DOMAIN body |-> IF i \in at .. at + target.byte_length - 1 THEN seal[i - at + 1] ELSE body[i]]

Hear(frame) ==
  /\ Len(capture) < MaxCapture
  /\ capture' = Append(capture, frame)
  /\ UNCHANGED truth

ScanNext ==
  \/ \E body \in Bodies : Hear(SealAs(truth.specification, truth.target, body))
  \/ \E runt \in Runts : Hear(runt)

ScanSpec == ScanInit /\ [][ScanNext]_scanVars

-----------------------------------------------------------------------------
Place(t) == [position |-> t.position, byte_length |-> t.byte_length, big_endian |-> t.big_endian]

\* Every range the search tries at the place of the checksum.
Targets ==
  Each(calc_ranges(truth.target.position, analyse_columns(capture), {}),
       LAMBDA range : Place(truth.target) @@ [calc_start_byte |-> range[1], calc_end_byte |-> range[2]])

Solved == solve_all(capture, Targets,
                    [known_polynomials_only |-> FALSE, max_solutions |-> ScanOptions.max_solutions])

\* A solution, and every other initial value reported with it, reproduces each
\* sample it counts; declared in a catalogue and read back, it still does.
\* ("`(init = 0, xorOut = K)` always reproduces the data exactly"; "The inverse
\* of from_solved")
SolutionsReproduce ==
  \A s \in ToSet(Solved) :
    LET samples == observations(capture, s.target)
        Reproduced(spec) == Cardinality({i \in DOMAIN samples : calculate(spec, samples[i].data) = samples[i].observed})
    IN  /\ Reproduced(s.specification) >= s.sample_count
        /\ s.sample_count + s.excluded_count = Len(samples)
        /\ \A pair \in s.alternatives :
             Reproduced([s.specification EXCEPT !.init = pair[1], !.xor_out = pair[2]]) >= s.sample_count
        /\ \A v \in verify_frame_checksum(from_solved(s), capture) :
             v = [matched |-> Reproduced(s.specification), total |-> Len(samples)]
        /\ verify_frame_checksum(from_solved(s), capture) # {}

\* Ranges a solution speaks for.
Ranges(s) == {Range2(s)} \cup ToSet(s.equivalent_ranges)

\* Given enough samples, the solver finds what the device does over its own
\* range: an additive checksum as an additive one, a CRC as itself unless as
\* many polynomials as are reported fit as well. Samples of other lengths do
\* not hide a CRC, those too short hide nothing.
Explains(kin, samples) ==
  LET longest == {i \in DOMAIN samples : Len(samples[i].data) \in largest_length_group(samples)}
  IN  CASE truth.specification.kind = "additive" -> Len(samples) >= MIN_SAMPLES => kin # {}
        [] truth.specification.kind = "crc" ->
             Cardinality(longest) >= MIN_SAMPLES =>
               \/ \E s \in kin : family(s.specification) = family(truth.specification)
               \/ Cardinality(kin) >= ScanOptions.max_solutions
        [] OTHER -> TRUE

IsSolved ==
  LET OwnRange  == Range2([target |-> truth.target])
      IsKin(s)  == s.specification.kind = truth.specification.kind /\ OwnRange \in Ranges(s)
  IN  \/ Explains({s \in ToSet(Solved) : IsKin(s)}, observations(capture, truth.target))
      \/ OwnRange \notin {Range2([target |-> t]) : t \in ToSet(Targets)}

Scanned == scan_frames([n \in DOMAIN capture |-> [key |-> 0, bytes |-> capture[n]]], ScanOptions.scan)

\* What the device does is in a report, or the report is full.
In(found, most) ==
  \/ Len(found) = most
  \/ \E c \in ToSet(found) :
       /\ c.specification = truth.specification /\ c.match_count = c.total_count
       /\ <<c.position, c.length, c.big_endian>> =
            <<truth.target.position, truth.target.byte_length, truth.target.big_endian>>
       /\ Range2([target |-> truth.target]) \in
            {<<c.calc_start_byte, c.calc_end_byte>>} \cup ToSet(c.equivalent_ranges)

\* A named checksum is reported at its place by the sweep, over its own range
\* or as equivalent to it, unless its column is padding, and the scan of the
\* whole capture reports it too, beside solutions of which none is what the
\* sweep could have found. (In a capture this short no score is lost to a
\* column that hardly moves.)
IsDue(samples) ==
  /\ truth.specification.kind = "named"
  /\ observations(samples, truth.target) # <<>>
  /\ Padding(analyse_columns(samples), truth.target.position) = {}

IsReported ==
  /\ IsDue(strided_samples(capture, MAX_SAMPLES)) =>
       In(Each(detect_checksum(capture, ScanOptions.detection), FromSweep), MAX_CANDIDATES)
  /\ \A finding \in Range(Scanned.findings) :
       /\ IsDue(strided_samples(capture, MAX_SAMPLES)) => In(finding.candidates, MAX_CANDIDATES_PER_ID)
       /\ \A c \in ToSet(finding.candidates) : c.exact => ~is_expressible_by_sweep(c.specification)

\* What the device really does is found, by the solver and in the report: no
\* wrong explanation of the same samples, cheaper or shorter, stands in its
\* place.
TruthFound == IsSolved /\ IsReported

\* The arithmetic that rules a column out never rules out the checksum, in a
\* capture where no two neighbours that carry none differ. ("A function of the
\* other bytes cannot produce two different outputs from the same input")
NeverDisqualified ==
  LET samples == strided_samples(capture, MAX_SAMPLES)
      Bare(f) == calculated_range(Len(f), truth.target) = NoRange
  IN  (\A i \in 1 .. Len(samples) - 1 : Bare(samples[i]) /\ Bare(samples[i + 1]) => samples[i] = samples[i + 1])
      => \A e \in ToSet(checksum_evidence(capture)) :
           e.position \in truth.target.position .. truth.target.position + truth.target.byte_length - 1
             => e.rejected # {"NotAFunctionOfTheOtherBytes"}

\* What an editor finds no fault with, for frames of some length, is measured
\* on every frame of that length; what it faults for its place or its range is
\* measured on none. (An end past the frame, or none at all, is faulted and
\* measured still.)
AcceptedIsMeasured ==
  Len(capture) = 1 =>
    \A form \in {f \in Forms : specification(f) # {}} :
      LET faults == validate_checksum_fields(form, Len(capture[1]))
          totals == {v.total : v \in verify_frame_checksum(form, capture)}
      IN  /\ faults = {} => totals = {1}
          /\ faults \cap {"start_byte", "calc_start_byte", "calc_range"} # {} /\ "byte_length" \notin faults
               => totals = {0}
=============================================================================
