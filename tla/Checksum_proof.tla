--------------------------- MODULE Checksum_proof ---------------------------
(***************************************************************************)
(* Proofs about checksums, for every list of configurations and every      *)
(* capture: the sweep says of each configuration what validating the       *)
(* frames one by one says, and what is sealed validates until a bit flips. *)
(***************************************************************************)
EXTENDS ChecksumSample, ScanCapture, FunctionTheorems, FiniteSetTheorems, SequenceTheorems,
        WellFoundedInduction, TLAPS

-----------------------------------------------------------------------------
(* Numbers in their order, by counting those before each.                  *)

Lower(S, x) == {y \in S : y < x}

LEMMA LowerFacts ==
  ASSUME NEW S \in SUBSET Nat, IsFiniteSet(S), NEW x \in S
  PROVE  /\ Lower(S, x) \subseteq S /\ IsFiniteSet(Lower(S, x)) /\ x \notin Lower(S, x)
         /\ Cardinality(Lower(S, x)) \in Nat
         /\ Cardinality(Lower(S, x) \cup {x}) = Cardinality(Lower(S, x)) + 1
         /\ Cardinality(Lower(S, x)) \in 0 .. Cardinality(S) - 1
<1>1. Lower(S, x) \subseteq S /\ x \notin Lower(S, x)
  BY DEF Lower
<1>2. IsFiniteSet(Lower(S, x)) /\ Cardinality(Lower(S, x)) \in Nat /\ Cardinality(S) \in Nat
  BY <1>1, FS_Subset, FS_CardinalityType
<1>3. Cardinality(Lower(S, x) \cup {x}) = Cardinality(Lower(S, x)) + 1
  BY <1>1, <1>2, FS_AddElement
<1>4. Cardinality(Lower(S, x) \cup {x}) <= Cardinality(S)
  BY <1>1, FS_Subset
<1> QED BY <1>1, <1>2, <1>3, <1>4

LEMMA LowerGrows ==
  ASSUME NEW S \in SUBSET Nat, IsFiniteSet(S)
  PROVE  \A x \in S : \A y \in S : x < y => Cardinality(Lower(S, x)) < Cardinality(Lower(S, y))
<1> SUFFICES ASSUME NEW x \in S, NEW y \in S, x < y
             PROVE  Cardinality(Lower(S, x)) < Cardinality(Lower(S, y))
  OBVIOUS
<1>1. \A z \in S : z \in Nat
  OBVIOUS
<1>2. ASSUME NEW z \in Lower(S, x) \cup {x} PROVE z \in Lower(S, y)
  <2>1. z \in S /\ (z < x \/ z = x)
    BY DEF Lower
  <2>2. z \in Nat /\ x \in Nat /\ y \in Nat
    BY <1>1, <2>1
  <2>3. z < y
    BY <2>1, <2>2
  <2> QED BY <2>1, <2>3 DEF Lower
<1>3. Cardinality(Lower(S, x) \cup {x}) <= Cardinality(Lower(S, y))
  BY <1>2, LowerFacts, FS_Subset
<1>4. /\ Cardinality(Lower(S, x)) \in Nat /\ Cardinality(Lower(S, y)) \in Nat
      /\ Cardinality(Lower(S, x) \cup {x}) = Cardinality(Lower(S, x)) + 1
  BY LowerFacts
<1> QED BY <1>3, <1>4

\* Every count belongs to a member: an injection of a finite set into one of
\* its size is onto it.
LEMMA EveryCount ==
  ASSUME NEW S \in SUBSET Nat, IsFiniteSet(S), NEW k \in 0 .. Cardinality(S) - 1
  PROVE  \E x \in S : Cardinality(Lower(S, x)) = k
<1> DEFINE C == 0 .. Cardinality(S) - 1
           f == [x \in S |-> Cardinality(Lower(S, x))]
<1>1. Cardinality(S) \in Nat
  BY FS_CardinalityType
<1>2. IsFiniteSet(C) /\ Cardinality(C) = Cardinality(S)
  BY <1>1, FS_Interval
<1>3. f \in [S -> C]
  BY LowerFacts
<1>4. ASSUME NEW x \in S, NEW y \in S, f[x] = f[y] PROVE x = y
  <2>1. Cardinality(Lower(S, x)) = Cardinality(Lower(S, y))
    BY <1>4
  <2>2. Cardinality(Lower(S, x)) \in Nat
    BY LowerFacts
  <2>3. ~(x < y) /\ ~(y < x)
    BY <2>1, <2>2, LowerGrows
  <2> QED BY <2>3
<1> HIDE DEF f
<1>5. f \in Injection(S, C)
  BY <1>3, <1>4 DEF Injection, IsInjective
<1>6. f \in Surjection(S, C)
  BY <1>2, <1>5, FS_Injection
<1>7. PICK x \in S : f[x] = k
  BY <1>6 DEF Surjection
<1> QED BY <1>7 DEF f

\* A finite set of numbers, arranged: each member once, in ascending order.
LEMMA ArrangedFacts ==
  ASSUME NEW S \in SUBSET Nat, IsFiniteSet(S)
  PROVE  /\ Arranged(S, <) \in [1 .. Cardinality(S) -> S]
         /\ \A n, m \in 1 .. Cardinality(S) : n < m => Arranged(S, <)[n] < Arranged(S, <)[m]
         /\ \A x \in S : \E n \in 1 .. Cardinality(S) : Arranged(S, <)[n] = x
<1> DEFINE At(n) == CHOOSE x \in S : Cardinality(Lower(S, x)) = n - 1
           D == 1 .. Cardinality(S)
<1>1. Cardinality(S) \in Nat /\ \A x \in S : x \in Nat
  BY FS_CardinalityType
<1>2. Arranged(S, <) = [n \in D |-> At(n)]
  BY DEF Arranged, Lower
<1>3. ASSUME NEW n \in D PROVE At(n) \in S /\ Cardinality(Lower(S, At(n))) = n - 1
  <2>1. n - 1 \in 0 .. Cardinality(S) - 1
    BY <1>1
  <2>2. \E x \in S : Cardinality(Lower(S, x)) = n - 1
    BY <2>1, EveryCount
  <2> QED BY <2>2
<1>4. ASSUME NEW n \in D, NEW m \in D, n < m PROVE At(n) < At(m)
  <2>1. /\ At(n) \in S /\ Cardinality(Lower(S, At(n))) = n - 1
        /\ At(m) \in S /\ Cardinality(Lower(S, At(m))) = m - 1
    BY <1>3
  <2> HIDE DEF At
  <2>2. At(n) # At(m)
    BY <2>1, <1>4, <1>1
  <2>3. ~(At(m) < At(n))
    <3> PICK a \in S, b \in S : a = At(n) /\ b = At(m)
      BY <2>1
    <3>1. Cardinality(Lower(S, a)) = n - 1 /\ Cardinality(Lower(S, b)) = m - 1
      BY <2>1
    <3>2. b < a => Cardinality(Lower(S, b)) < Cardinality(Lower(S, a))
      BY LowerGrows
    <3> QED BY <3>1, <3>2, <1>4, <1>1
  <2>4. At(n) \in Nat /\ At(m) \in Nat
    BY <1>1, <2>1, Zenon
  <2> QED BY <2>2, <2>3, <2>4
<1>5. ASSUME NEW x \in S PROVE \E n \in D : At(n) = x
  <2>1. PICK c \in Nat : c = Cardinality(Lower(S, x)) /\ c \in 0 .. Cardinality(S) - 1
    BY LowerFacts
  <2>2. c + 1 \in D /\ (c + 1) - 1 = c
    BY <2>1, <1>1
  <2>3. At(c + 1) \in S /\ Cardinality(Lower(S, At(c + 1))) = c
    BY <2>2, <1>3
  <2> HIDE DEF At
  <2>4. ~(x < At(c + 1)) /\ ~(At(c + 1) < x)
    <3> PICK a \in S : a = At(c + 1)
      BY <2>3
    <3>1. Cardinality(Lower(S, a)) = c /\ Cardinality(Lower(S, x)) = c /\ ~(c < c)
      BY <2>1, <2>3
    <3>2. /\ x < a => Cardinality(Lower(S, x)) < Cardinality(Lower(S, a))
          /\ a < x => Cardinality(Lower(S, a)) < Cardinality(Lower(S, x))
      BY LowerGrows
    <3> QED BY <3>1, <3>2
  <2>5. At(c + 1) \in Nat /\ x \in Nat
    BY <1>1, <2>3, Zenon
  <2>6. At(c + 1) = x
    BY <2>4, <2>5
  <2> QED BY <2>2, <2>6
<1> HIDE DEF At
<1> QED BY <1>2, <1>3, <1>4, <1>5

LEMMA Least ==
  ASSUME NEW T \in SUBSET Nat, T # {}
  PROVE  \E m \in T : \A k \in T : m <= k
<1>1. PICK x \in T : \A y \in T : ~(<<y, x>> \in OpToRel(<, Nat))
  BY WFMin, NatLessThanWellFounded
<1>2. \A y \in T : y \in Nat
  OBVIOUS
<1>3. \A y \in T : ~(y < x)
  BY <1>1, <1>2 DEF OpToRel
<1>4. \A y \in T : x <= y
  BY <1>2, <1>3
<1> QED BY <1>4

-----------------------------------------------------------------------------
(* A configuration on a frame of some length.                              *)

\* What addresses bytes: a configuration, or the target of a search.
Addressing(spec) ==
  /\ spec.position \in Int /\ spec.byte_length \in Nat
  /\ spec.calc_start_byte \in Int /\ spec.calc_end_byte \in Int

LEMMA ResolvedIndex ==
  ASSUME NEW index \in Int, NEW length \in Nat
  PROVE  resolve_byte_index(index, length) \in Nat /\ Clamped(index, length) \in 0 .. length
BY DEF resolve_byte_index, Clamped

\* A frame is evidence if the checksum fits and there is something to
\* calculate over, and then the range is what lies between the two ends.
LEMMA RangeOfEvidence ==
  ASSUME NEW spec, Addressing(spec), NEW length \in Nat
  PROVE  /\ calculated_range(length, spec) # NoRange
              <=> Fits(length, spec)
                    /\ Clamped(spec.calc_start_byte, length) < Clamped(spec.calc_end_byte, length)
         /\ calculated_range(length, spec) # NoRange
              => calculated_range(length, spec) = [start |-> Clamped(spec.calc_start_byte, length),
                                                   end |-> Clamped(spec.calc_end_byte, length)]
<1>1. PICK start \in 0 .. length : start = Clamped(spec.calc_start_byte, length)
  BY ResolvedIndex DEF Addressing
<1>2. PICK end \in 0 .. length : end = Clamped(spec.calc_end_byte, length)
  BY ResolvedIndex DEF Addressing
<1>3. calculated_range(length, spec) =
        IF Fits(length, spec) /\ start < end THEN [start |-> start, end |-> end] ELSE NoRange
  BY <1>1, <1>2 DEF calculated_range
<1>4. start < end => [start |-> start, end |-> end] # NoRange
  BY DEF NoRange
<1> QED BY <1>1, <1>2, <1>3, <1>4

\* The configurations of a group calculate the same, as they differ in
\* nothing a calculation depends on.
LEMMA GroupCalculates ==
  ASSUME NEW spec, NEW leader, Key(leader) = Key(spec)
  PROVE  /\ leader.calc_start_byte = spec.calc_start_byte /\ leader.calc_end_byte = spec.calc_end_byte
         /\ \A data : calculate_checksum(data, leader) = calculate_checksum(data, spec)
<1>1. /\ leader.algorithm = spec.algorithm
      /\ leader.calc_start_byte = spec.calc_start_byte /\ leader.calc_end_byte = spec.calc_end_byte
  BY DEF Key
<1>2. ASSUME NEW data PROVE calculate_checksum(data, leader) = calculate_checksum(data, spec)
  BY <1>1 DEF calculate_checksum
<1> QED BY <1>1, <1>2

\* Every configuration has a first one of its group.
LEMMA GroupHasFirst ==
  ASSUME NEW specs, NEW k \in Nat \ {0}
  PROVE  FirstOfGroup(specs, k) \in 1 .. k /\ Key(specs[FirstOfGroup(specs, k)]) = Key(specs[k])
<1> DEFINE T == {j \in 1 .. k : Key(specs[j]) = Key(specs[k])}
<1>1. T \in SUBSET Nat /\ k \in T
  OBVIOUS
<1>2. PICK m \in T : \A j \in T : m <= j
  BY <1>1, Least, Zenon
<1>3. ASSUME NEW i \in 1 .. m - 1 PROVE Key(specs[i]) # Key(specs[k])
  <2>1. m \in 1 .. k /\ i \in 1 .. k /\ ~(m <= i)
    OBVIOUS
  <2> QED BY <1>2, <2>1
<1>4. /\ m \in 1 .. k /\ Key(specs[m]) = Key(specs[k])
      /\ \A i \in 1 .. m - 1 : Key(specs[i]) # Key(specs[k])
  BY <1>3
<1> QED BY <1>4, Zenon DEF FirstOfGroup

-----------------------------------------------------------------------------
(* The sweep.                                                              *)

\* The frames that are evidence about a configuration, and those of them that
\* validate.
EvidenceOf(frames, spec) ==
  {i \in 1 .. Len(frames) : calculated_range(Len(frames[i]), spec) # NoRange}
ValidOf(frames, spec) == {i \in EvidenceOf(frames, spec) : validate_checksum(frames[i], spec)}

ResultOf(frames, spec, k) ==
  [spec_index |-> k, match_count |-> Cardinality(ValidOf(frames, spec)),
   total_count |-> Cardinality(EvidenceOf(frames, spec))]

\* What is counted with the calculations of the group is what is counted when
\* each frame is validated by itself.
LEMMA GroupCounts ==
  ASSUME NEW frames, NEW spec, NEW leader, Addressing(spec), Key(leader) = Key(spec),
         \A i \in 1 .. Len(frames) : Len(frames[i]) \in Nat, NEW k
  PROVE  /\ Counted(frames, Calculated(frames, leader), spec) = EvidenceOf(frames, spec)
         /\ Result(frames, Calculated(frames, leader), spec, k) = ResultOf(frames, spec, k)
<1> DEFINE calculated == Calculated(frames, leader)
           HasRange(n) == Clamped(spec.calc_start_byte, n) < Clamped(spec.calc_end_byte, n)
           ranged == {i \in 1 .. Len(frames) : HasRange(Len(frames[i]))}
<1>1. calculated = [i \in ranged |-> calculate_checksum(frames[i], spec)]
  <2>1. calculated = [i \in {n \in 1 .. Len(frames) : HasRange(Len(frames[n]))} |->
                        calculate_checksum(frames[i], leader)]
    BY GroupCalculates DEF Calculated
  <2>2. \A i : calculate_checksum(frames[i], leader) = calculate_checksum(frames[i], spec)
    BY GroupCalculates
  <2> QED BY <2>1, <2>2
<1>2. DOMAIN calculated = ranged
  BY <1>1
<1>3. ASSUME NEW i \in 1 .. Len(frames)
      PROVE  calculated_range(Len(frames[i]), spec) # NoRange
               <=> i \in ranged /\ Fits(Len(frames[i]), spec)
  BY RangeOfEvidence
<1>4. Counted(frames, calculated, spec) = EvidenceOf(frames, spec)
  BY <1>2, <1>3 DEF Counted, EvidenceOf
<1>5. ASSUME NEW i \in EvidenceOf(frames, spec)
      PROVE  extract_checksum(frames[i], spec) = calculated[i] <=> validate_checksum(frames[i], spec)
  <2>1. i \in ranged
    BY <1>3 DEF EvidenceOf
  <2>2. calculated[i] = calculate_checksum(frames[i], spec)
    BY <1>1, <2>1
  <2> QED BY <2>2 DEF validate_checksum
<1> HIDE DEF calculated
<1>6. {i \in EvidenceOf(frames, spec) : extract_checksum(frames[i], spec) = calculated[i]}
        = ValidOf(frames, spec)
  BY <1>5 DEF ValidOf
<1>7. Result(frames, calculated, spec, k) = ResultOf(frames, spec, k)
  BY <1>4, <1>6 DEF Result, ResultOf
<1> QED BY <1>4, <1>7 DEF calculated

\* The configurations that some frame is evidence about.
Fitting(frames, specs) == {k \in 1 .. Len(specs) : EvidenceOf(frames, specs[k]) # {}}

LEMMA FittingFacts ==
  ASSUME NEW frames, NEW specs \in Seq(Configuration)
  PROVE  Fitting(frames, specs) \in SUBSET Nat /\ IsFiniteSet(Fitting(frames, specs))
<1>1. Fitting(frames, specs) \subseteq 1 .. Len(specs) /\ Len(specs) \in Nat
  BY LenProperties DEF Fitting
<1>2. IsFiniteSet(1 .. Len(specs))
  BY <1>1, FS_Interval
<1> QED BY <1>1, <1>2, FS_Subset

\* What a sweep returns: a result for each of them, in the order of the list,
\* as if every frame were validated by itself.
LEMMA SweptAsValidated ==
  ASSUME NEW frames, NEW specs \in Seq(Configuration),
         \A i \in 1 .. Len(frames) : Len(frames[i]) \in Nat
  PROVE  sweep_specs(frames, specs) =
           [n \in 1 .. Cardinality(Fitting(frames, specs)) |->
              ResultOf(frames, specs[Arranged(Fitting(frames, specs), <)[n]],
                       Arranged(Fitting(frames, specs), <)[n])]
<1> DEFINE D == 1 .. Len(specs)
           groups == [j \in {FirstOfGroup(specs, k) : k \in D} |-> Calculated(frames, specs[j])]
           leader(k) == FirstOfGroup(specs, k)
           F == {k \in D : Counted(frames, groups[leader(k)], specs[k]) # {}}
           A == Arranged(Fitting(frames, specs), <)
<1>1. ASSUME NEW k \in D
      PROVE  /\ Counted(frames, groups[leader(k)], specs[k]) = EvidenceOf(frames, specs[k])
             /\ Result(frames, groups[leader(k)], specs[k], k) = ResultOf(frames, specs[k], k)
  <2>1. groups[leader(k)] = Calculated(frames, specs[leader(k)])
    OBVIOUS
  <2>2. k \in Nat \ {0}
    BY LenProperties
  <2>3. Key(specs[leader(k)]) = Key(specs[k])
    BY <2>2, GroupHasFirst
  <2>4. specs[k] \in Configuration
    BY ElementOfSeq
  <2>5. Addressing(specs[k])
    BY <2>4 DEF Addressing, Configuration
  <2> QED BY <2>1, <2>3, <2>5, GroupCounts, Zenon
<1>2. sweep_specs(frames, specs) =
        [n \in DOMAIN Arranged(F, <) |->
           Result(frames, groups[leader(Arranged(F, <)[n])], specs[Arranged(F, <)[n]], Arranged(F, <)[n])]
  BY DEF sweep_specs, Each
<1>3. F = Fitting(frames, specs)
  BY <1>1 DEF Fitting
<1> HIDE DEF F, groups, leader
<1>4. A \in [1 .. Cardinality(Fitting(frames, specs)) -> Fitting(frames, specs)]
  BY FittingFacts, ArrangedFacts
<1>5. DOMAIN A = 1 .. Cardinality(Fitting(frames, specs))
  BY <1>4
<1>6. ASSUME NEW n \in DOMAIN A
      PROVE  Result(frames, groups[leader(A[n])], specs[A[n]], A[n]) = ResultOf(frames, specs[A[n]], A[n])
  <2>1. A[n] \in D
    BY <1>4, <1>5 DEF Fitting
  <2> QED BY <1>1, <2>1, Zenon
<1> HIDE DEF A
<1>7. sweep_specs(frames, specs) =
        [n \in DOMAIN A |-> Result(frames, groups[leader(A[n])], specs[A[n]], A[n])]
  BY <1>2, <1>3 DEF A
<1>8. sweep_specs(frames, specs) = [n \in DOMAIN A |-> ResultOf(frames, specs[A[n]], A[n])]
  BY <1>6, <1>7
<1> QED BY <1>5, <1>8 DEF A

\* Of any frames and any list of configurations, a sweep says what validating
\* the frames one by one says.
THEOREM SweepsValidate ==
  ASSUME NEW frames, NEW specs \in Seq(Configuration),
         \A i \in 1 .. Len(frames) : Len(frames[i]) \in Nat
  PROVE  LET swept == sweep_specs(frames, specs)
         IN  /\ \A n \in 1 .. Len(swept) - 1 : swept[n].spec_index < swept[n + 1].spec_index
             /\ ToSet(swept) = {ResultOf(frames, specs[k], k) : k \in Fitting(frames, specs)}
<1> DEFINE swept == sweep_specs(frames, specs)
           F == Fitting(frames, specs)
           A == Arranged(F, <)
           R(k) == ResultOf(frames, specs[k], k)
<1>1. PICK c \in Nat : c = Cardinality(F)
  BY FittingFacts, FS_CardinalityType
<1>2. /\ A \in [1 .. c -> F]
      /\ \A n, m \in 1 .. c : n < m => A[n] < A[m]
      /\ \A x \in F : \E n \in 1 .. c : A[n] = x
  BY <1>1, FittingFacts, ArrangedFacts
<1>3. swept = [n \in 1 .. c |-> R(A[n])]
  BY <1>1, SweptAsValidated
<1> HIDE DEF A, swept
<1>4. Len(swept) = c
  BY <1>1, <1>3
<1>5. \A k : R(k).spec_index = k
  BY DEF ResultOf
<1> HIDE DEF R
<1>6. ASSUME NEW n \in 1 .. Len(swept) - 1 PROVE swept[n].spec_index < swept[n + 1].spec_index
  <2>1. n \in 1 .. c /\ n + 1 \in 1 .. c /\ n < n + 1
    BY <1>1, <1>4
  <2>2. swept[n].spec_index = A[n] /\ swept[n + 1].spec_index = A[n + 1]
    BY <1>3, <1>5, <2>1
  <2> QED BY <1>2, <2>1, <2>2
<1>7. ToSet(swept) = {R(k) : k \in F}
  <2>1. ASSUME NEW n \in 1 .. c PROVE swept[n] \in {R(k) : k \in F}
    BY <1>2, <1>3
  <2>2. ASSUME NEW k \in F PROVE R(k) \in {swept[n] : n \in 1 .. c}
    BY <1>2, <1>3
  <2>3. DOMAIN swept = 1 .. c
    BY <1>3
  <2>4. ToSet(swept) = {swept[n] : n \in 1 .. c}
    BY <2>3 DEF ToSet
  <2> QED BY <2>1, <2>2, <2>4
<1> QED BY <1>6, <1>7 DEF swept, R

\* Whatever frames are gathered, the sweep of the configurations listed agrees
\* with validate_checksum.
THEOREM SweepIsValid == SampleSpec => []SweepIsValidation
<1> DEFINE Gathered == sample \in Seq(Frames)
<1>1. SampleInit => Gathered
  BY DEF SampleInit
<1>2. Gathered /\ [SampleNext]_sample => Gathered'
  BY AppendProperties DEF SampleNext, Gather
<1>3. Gathered => SweepIsValidation
  <2> SUFFICES ASSUME Gathered PROVE SweepIsValidation
    OBVIOUS
  <2>1. \A i \in 1 .. Len(sample) : Len(sample[i]) \in Nat
    <3> SUFFICES ASSUME NEW i \in 1 .. Len(sample) PROVE Len(sample[i]) \in Nat
      OBVIOUS
    <3>1. sample[i] \in Frames
      BY ElementOfSeq
    <3> QED BY <3>1, SampleAssumption, LenProperties
  <2>2. Specs \in Seq(Configuration)
    BY SampleAssumption
  <2>3. \A k \in 1 .. Len(Specs) :
          EvidenceOf(sample, Specs[k]) =
            {i \in 1 .. Len(sample) : calculated_range(Len(sample[i]), Specs[k]) # NoRange}
    BY DEF EvidenceOf
  <2> QED
    BY <2>1, <2>2, SweepsValidate DEF SweepIsValidation, Fitting, ResultOf, ValidOf, EvidenceOf
<1> HIDE DEF Gathered
<1> QED BY <1>1, <1>2, <1>3, PTL DEF SampleSpec

-----------------------------------------------------------------------------
(* The capture of a device, and what is observed of it.                    *)

\* What is heard is a runt or a sealed body.
SealedBodies == {SealAs(truth.specification, truth.target, body) : body \in Bodies}
CInv == truth \in Truths /\ capture \in Seq(Runts \cup SealedBodies)

LEMMA SealKeepsLength ==
  ASSUME NEW spec, NEW target, NEW body \in Seq(SUBSET Full(8))
  PROVE  /\ Len(SealAs(spec, target, body)) = Len(body)
         /\ DOMAIN SealAs(spec, target, body) = 1 .. Len(body)
<1>1. DOMAIN body = 1 .. Len(body) /\ Len(body) \in Nat
  BY LenProperties
<1>2. DOMAIN SealAs(spec, target, body) = 1 .. Len(body)
  BY <1>1 DEF SealAs
<1>3. Len(SealAs(spec, target, body)) = Len(body)
  BY <1>1, <1>2
<1> QED BY <1>2, <1>3

LEMMA CInvHolds == ScanSpec => []CInv
<1>1. ScanInit => CInv
  BY DEF ScanInit, CInv
<1>2. CInv /\ [ScanNext]_scanVars => CInv'
  <2> SUFFICES ASSUME CInv, [ScanNext]_scanVars PROVE CInv'
    OBVIOUS
  <2>1. ASSUME NEW frame \in Runts \cup SealedBodies, Hear(frame) PROVE CInv'
    BY <2>1, AppendProperties DEF Hear, CInv, SealedBodies
  <2>2. CASE UNCHANGED scanVars
    BY <2>2 DEF scanVars, CInv, SealedBodies
  <2>3. CASE ScanNext
    BY <2>1, <2>3 DEF ScanNext, SealedBodies
  <2> QED BY <2>2, <2>3
<1> QED BY <1>1, <1>2, PTL DEF ScanSpec

LEMMA HeardLengths ==
  ASSUME CInv, NEW i \in 1 .. Len(capture)
  PROVE  /\ capture[i] \in Runts \cup SealedBodies /\ Len(capture[i]) \in Nat
         /\ DOMAIN capture[i] = 1 .. Len(capture[i])
<1>1. capture[i] \in Runts \cup SealedBodies
  BY ElementOfSeq DEF CInv
<1>2. CASE capture[i] \in Runts
  <2>1. capture[i] \in Seq(SUBSET Full(8))
    BY <1>2, CaptureAssumption
  <2> QED BY <1>1, <2>1, LenProperties
<1>3. CASE capture[i] \in SealedBodies
  <2>1. PICK body \in Bodies : capture[i] = SealAs(truth.specification, truth.target, body)
    BY <1>3 DEF SealedBodies
  <2>2. body \in Seq(SUBSET Full(8))
    BY CaptureAssumption
  <2> QED BY <1>1, <2>1, <2>2, SealKeepsLength, LenProperties
<1> QED BY <1>1, <1>2, <1>3

Observed(frame, target) ==
  [data |-> Slice(frame, calculated_range(Len(frame), target).start, calculated_range(Len(frame), target).end),
   observed |-> extract_checksum(frame, target)]

\* As many frames are observed as are evidence.
LEMMA ObservedOf ==
  ASSUME NEW frames, Len(frames) \in Nat, DOMAIN frames = 1 .. Len(frames), NEW target
  PROVE  Len(observations(frames, target)) = Cardinality(EvidenceOf(frames, target))
<1> DEFINE E == {i \in DOMAIN frames : calculated_range(Len(frames[i]), target) # NoRange}
           A == Arranged(E, <)
<1>1. E = EvidenceOf(frames, target)
  BY DEF EvidenceOf
<1>2. E \in SUBSET Nat /\ IsFiniteSet(E)
  <2>1. E \subseteq 1 .. Len(frames) /\ IsFiniteSet(1 .. Len(frames))
    BY FS_Interval
  <2> QED BY <2>1, FS_Subset
<1>3. Cardinality(E) \in Nat
  BY <1>2, FS_CardinalityType
<1>4. DOMAIN A = 1 .. Cardinality(E)
  BY <1>2, ArrangedFacts
<1>5. observations(frames, target) = [n \in DOMAIN A |-> Observed(frames[A[n]], target)]
  BY DEF observations, Each, Observed
<1> HIDE DEF A, E
<1>6. DOMAIN observations(frames, target) = 1 .. Cardinality(E)
  BY <1>4, <1>5
<1> QED BY <1>1, <1>3, <1>6

-----------------------------------------------------------------------------
(* The form of a checksum, and what is measured of it.                     *)

IsForm(f) ==
  /\ f.start_byte \in Int /\ f.byte_length \in Nat /\ f.calc_start_byte \in Int
  /\ \A d, e \in f.calc_end_byte : d = e /\ e \in Int

LEMMA TargetFields ==
  ASSUME NEW form, IsForm(form)
  PROVE  /\ TargetOf(form).position = form.start_byte /\ TargetOf(form).byte_length = form.byte_length
         /\ TargetOf(form).calc_start_byte = form.calc_start_byte
         /\ \A e \in form.calc_end_byte : TargetOf(form).calc_end_byte = e
         /\ Addressing(TargetOf(form))
<1> DEFINE end == IF form.calc_end_byte = {} THEN form.start_byte ELSE CHOOSE e \in form.calc_end_byte : TRUE
<1>1. end \in Int /\ \A e \in form.calc_end_byte : end = e
  BY DEF IsForm
<1>2. TargetOf(form).calc_end_byte = end
  BY DEF TargetOf
<1> HIDE DEF end
<1>3. /\ TargetOf(form).position = form.start_byte /\ TargetOf(form).byte_length = form.byte_length
      /\ TargetOf(form).calc_start_byte = form.calc_start_byte
  BY DEF TargetOf
<1>4. Addressing(TargetOf(form))
  BY <1>1, <1>2, <1>3 DEF Addressing, IsForm
<1> QED BY <1>1, <1>2, <1>3, <1>4

\* The faults that decide what is measured, one by one.
LEMMA Faults ==
  ASSUME NEW form, NEW length
  PROVE  LET At(index) == resolve_byte_index(index, length)
             faults == validate_checksum_fields(form, length)
         IN  /\ "start_byte" \in faults
                  <=> At(form.start_byte) \notin 0 .. length - 1 \/ At(form.start_byte) + form.byte_length > length
             /\ "byte_length" \in faults <=> form.byte_length \notin 1 .. 4
             /\ "calc_start_byte" \in faults <=> At(form.calc_start_byte) \notin 0 .. length - 1
             /\ "calc_end_byte" \in faults
                  <=> form.calc_end_byte = {} \/ \E e \in form.calc_end_byte : At(e) \notin 1 .. length
             /\ "calc_range" \in faults
                  <=> \E e \in form.calc_end_byte : At(form.calc_start_byte) >= At(e)
BY DEF validate_checksum_fields

LEMMA FormIsMeasured ==
  ASSUME NEW form, IsForm(form), NEW length \in Nat
  PROVE  LET faults == validate_checksum_fields(form, length)
         IN  /\ faults = {} => calculated_range(length, TargetOf(form)) # NoRange
             /\ faults \cap {"start_byte", "calc_start_byte", "calc_range"} # {} /\ "byte_length" \notin faults
                  => calculated_range(length, TargetOf(form)) = NoRange
<1> DEFINE faults == validate_checksum_fields(form, length)
           target == TargetOf(form)
           At(index) == resolve_byte_index(index, length)
<1>1. PICK s \in Nat, a \in Nat, b \in Nat :
        /\ s = At(form.start_byte) /\ a = At(form.calc_start_byte) /\ b = At(target.calc_end_byte)
        /\ form.byte_length \in Nat
  BY TargetFields, ResolvedIndex DEF Addressing, IsForm
<1>2. calculated_range(length, target) # NoRange
        <=> s + form.byte_length <= length
              /\ (IF a < length THEN a ELSE length) < (IF b < length THEN b ELSE length)
  <2>1. Fits(length, target) <=> s + form.byte_length <= length
    BY <1>1, TargetFields DEF Fits
  <2>2. /\ Clamped(target.calc_start_byte, length) = IF a < length THEN a ELSE length
        /\ Clamped(target.calc_end_byte, length) = IF b < length THEN b ELSE length
    BY <1>1, TargetFields DEF Clamped
  <2> QED BY <2>1, <2>2, TargetFields, RangeOfEvidence
<1>3. /\ "start_byte" \in faults <=> s \notin 0 .. length - 1 \/ s + form.byte_length > length
      /\ "byte_length" \in faults <=> form.byte_length \notin 1 .. 4
      /\ "calc_start_byte" \in faults <=> a \notin 0 .. length - 1
      /\ "calc_end_byte" \notin faults => form.calc_end_byte # {} /\ b \in 1 .. length
      /\ form.calc_end_byte # {} => ("calc_range" \in faults <=> a >= b)
      /\ form.calc_end_byte = {} => "calc_range" \notin faults
  <2>1. \A e \in form.calc_end_byte : At(e) = b
    BY <1>1, TargetFields
  <2> HIDE DEF target, At
  <2> QED BY <1>1, <2>1, Faults DEF At
<1> HIDE DEF faults, target, At
<1>4. faults = {} => calculated_range(length, target) # NoRange
  <2> SUFFICES ASSUME faults = {} PROVE calculated_range(length, target) # NoRange
    OBVIOUS
  <2>1. s + form.byte_length <= length /\ a < length /\ b <= length /\ ~(a >= b)
    BY <1>1, <1>3
  <2> QED BY <1>1, <1>2, <2>1
<1>5. faults \cap {"start_byte", "calc_start_byte", "calc_range"} # {} /\ "byte_length" \notin faults
        => calculated_range(length, target) = NoRange
  <2> SUFFICES ASSUME faults \cap {"start_byte", "calc_start_byte", "calc_range"} # {}, "byte_length" \notin faults
               PROVE  calculated_range(length, target) = NoRange
    OBVIOUS
  <2>1. form.byte_length >= 1
    BY <1>1, <1>3
  <2>2. s + form.byte_length > length \/ a >= length \/ a >= b
    BY <1>1, <1>3, <2>1
  <2> QED BY <1>1, <1>2, <2>2
<1> QED BY <1>4, <1>5 DEF faults, target

\* What an editor accepts is measured on a frame of that length, and what it
\* faults for its place or its range is not.
THEOREM FormsAreMeasured == ScanSpec => []AcceptedIsMeasured
<1>1. CInv => AcceptedIsMeasured
  <2> SUFFICES ASSUME CInv, Len(capture) = 1, NEW form \in Forms, specification(form) # {}
               PROVE  LET faults == validate_checksum_fields(form, Len(capture[1]))
                          totals == {v.total : v \in verify_frame_checksum(form, capture)}
                      IN  /\ faults = {} => totals = {1}
                          /\ faults \cap {"start_byte", "calc_start_byte", "calc_range"} # {}
                                /\ "byte_length" \notin faults
                               => totals = {0}
    BY DEF AcceptedIsMeasured
  <2> DEFINE totals == {v.total : v \in verify_frame_checksum(form, capture)}
             target == TargetOf(form)
             E == EvidenceOf(capture, target)
  <2>1. IsForm(form)
    BY CaptureAssumption DEF IsForm
  <2>2. Len(capture[1]) \in Nat
    BY HeardLengths
  <2>3. totals = {Cardinality(E)}
    <3>1. Len(capture) \in Nat /\ DOMAIN capture = 1 .. Len(capture)
      BY LenProperties DEF CInv
    <3>2. totals = {Len(observations(capture, target))}
      <4> DEFINE samples == observations(capture, target)
                 Verdict(spec) ==
                   [matched |-> Cardinality({i \in DOMAIN samples :
                                  calculate(spec, samples[i].data) = samples[i].observed}),
                    total |-> Len(samples)]
      <4>1. verify_frame_checksum(form, capture) = {Verdict(spec) : spec \in specification(form)}
        BY DEF verify_frame_checksum
      <4>2. \A spec : Verdict(spec).total = Len(samples)
        OBVIOUS
      <4> HIDE DEF Verdict, samples
      <4>3. PICK spec : spec \in specification(form)
        OBVIOUS
      <4>4. totals = {Len(samples)}
        BY <4>1, <4>2, <4>3
      <4> QED BY <4>4 DEF samples
    <3> QED BY <3>1, <3>2, ObservedOf
  <2>4. E = IF calculated_range(Len(capture[1]), target) # NoRange THEN {1} ELSE {}
    BY DEF EvidenceOf
  <2>5. Cardinality(E) = IF calculated_range(Len(capture[1]), target) # NoRange THEN 1 ELSE 0
    BY <2>4, FS_EmptySet, FS_Singleton
  <2> HIDE DEF totals
  <2> QED BY <2>1, <2>2, <2>3, <2>5, FormIsMeasured DEF totals
<1> QED BY <1>1, CInvHolds, PTL

-----------------------------------------------------------------------------
(* The column of a checksum is never ruled out.                            *)

LEMMA LesserOfTwo ==
  ASSUME NEW a \in Nat, NEW b \in Nat
  PROVE  Min({a, b}) \in Nat /\ Min({a, b}) <= a /\ Min({a, b}) <= b
<1> DEFINE IsMin(x) == \A y \in {a, b} : x <= y
<1>1. \E x \in {a, b} : IsMin(x)
  OBVIOUS
<1>2. Min({a, b}) \in {a, b} /\ IsMin(Min({a, b}))
  BY <1>1, Zenon DEF Min
<1> QED BY <1>2

LEMMA GreaterOfTwo ==
  ASSUME NEW a \in Nat, NEW b \in Nat
  PROVE  Max({a, b}) \in Nat /\ a <= Max({a, b}) /\ b <= Max({a, b})
<1> DEFINE IsMax(x) == \A y \in {a, b} : x >= y
<1>1. \E x \in {a, b} : IsMax(x)
  OBVIOUS
<1>2. Max({a, b}) \in {a, b} /\ IsMax(Max({a, b}))
  BY <1>1, Zenon DEF Max
<1> QED BY <1>2

LEMMA Division ==
  ASSUME NEW d \in Nat \ {0}, NEW x \in Int
  PROVE  \E q \in Int, r \in Int : q = x \div d /\ x = d * q + r /\ 0 <= r
<1> DEFINE q == x \div d
           r == x % d
<1>1. q \in Int /\ r \in Int /\ 0 <= r /\ r < d /\ x = d * q + r
  BY SMTT(30)
<1> HIDE DEF r
<1>2. q = x \div d
  OBVIOUS
<1> HIDE DEF q
<1> QED BY <1>1, <1>2

LEMMA Quotient ==
  ASSUME NEW d \in Nat \ {0}, NEW x \in Nat
  PROVE  x \div d \in Nat
BY SMTT(30)

\* Every so many of n things are n things at most.
LEMMA StrideFits ==
  ASSUME NEW n \in Nat, NEW d \in Nat \ {0}, NEW i \in Nat \ {0}, i <= (n + d - 1) \div d
  PROVE  1 + (i - 1) * d \in 1 .. n
<1>1. PICK q \in Int, r \in Int : q = (n + d - 1) \div d /\ n + d - 1 = d * q + r /\ 0 <= r
  BY Division
<1>2. PICK k \in Nat : k = i - 1
  OBVIOUS
<1>3. k <= q - 1
  BY <1>1, <1>2
<1>4. d * k <= d * (q - 1)
  BY <1>1, <1>3
<1>5. d * (q - 1) = d * q - d
  BY <1>1
<1>6. d * k <= n - 1 /\ d * k \in Nat
  BY <1>1, <1>4, <1>5
<1>7. (i - 1) * d = d * k
  BY <1>2
<1> QED BY <1>6, <1>7

\* A sample is one of the frames.
LEMMA SamplesAreFrames ==
  ASSUME NEW frames, Len(frames) \in Nat, DOMAIN frames = 1 .. Len(frames), NEW limit \in Nat
  PROVE  /\ Len(strided_samples(frames, limit)) \in Nat
         /\ DOMAIN strided_samples(frames, limit) = 1 .. Len(strided_samples(frames, limit))
         /\ \A i \in 1 .. Len(strided_samples(frames, limit)) :
              \E j \in 1 .. Len(frames) : strided_samples(frames, limit)[i] = frames[j]
<1> DEFINE S == {i \in DOMAIN frames : frames[i] # <<>>}
           usable == Arranged(S, <)
           stride == Max({1, (Len(usable) + limit - 1) \div limit})
           taken  == Min({limit, (Len(usable) + stride - 1) \div stride})
           samples == strided_samples(frames, limit)
<1>1. S \in SUBSET Nat /\ IsFiniteSet(S) /\ Cardinality(S) \in Nat
  <2>1. S \subseteq 1 .. Len(frames) /\ IsFiniteSet(1 .. Len(frames))
    BY FS_Interval
  <2> QED BY <2>1, FS_Subset, FS_CardinalityType
<1>2. usable \in [1 .. Cardinality(S) -> S]
  BY <1>1, ArrangedFacts
<1> HIDE DEF usable
<1>3. PICK n \in Nat : n = Cardinality(S) /\ n = Len(usable) /\ DOMAIN usable = 1 .. n
  <2>1. PICK n \in Nat : n = Cardinality(S)
    BY <1>1
  <2>2. usable \in [1 .. n -> S]
    BY <1>2, <2>1
  <2>3. DOMAIN usable = 1 .. n /\ Len(usable) = n
    BY <2>2
  <2> QED BY <2>1, <2>3
<1>4. CASE limit = 0
  <2>1. samples = <<>>
    BY <1>4 DEF strided_samples
  <2> QED BY <2>1
<1>5. CASE limit # 0
  <2>1. (n + limit - 1) \div limit \in Nat
    <3>1. limit \in Nat \ {0} /\ n + limit - 1 \in Nat
      BY <1>5
    <3> QED BY <3>1, Quotient
  <2>2. stride \in Nat \ {0}
    <3>1. PICK q \in Nat : q = (Len(usable) + limit - 1) \div limit
      BY <1>3, <2>1
    <3>2. stride = Max({1, q})
      BY <3>1
    <3>3. Max({1, q}) \in Nat /\ 1 <= Max({1, q})
      BY GreaterOfTwo
    <3> HIDE DEF stride
    <3> QED BY <3>2, <3>3
  <2> HIDE DEF stride
  <2>3. (n + stride - 1) \div stride \in Nat
    <3>1. n + stride - 1 \in Nat
      BY <2>2
    <3> QED BY <2>2, <3>1, Quotient
  <2>4. taken \in Nat /\ taken <= (n + stride - 1) \div stride
    BY <1>3, <2>3, LesserOfTwo
  <2>5. samples = [i \in 1 .. taken |-> frames[usable[1 + (i - 1) * stride]]]
    BY <1>5 DEF strided_samples, usable, stride
  <2> HIDE DEF taken, samples
  <2>6. Len(samples) = taken /\ DOMAIN samples = 1 .. taken
    BY <2>4, <2>5
  <2>7. ASSUME NEW i \in 1 .. taken PROVE \E j \in 1 .. Len(frames) : samples[i] = frames[j]
    <3>1. i \in Nat \ {0} /\ i <= (n + stride - 1) \div stride
      BY <2>3, <2>4
    <3>2. 1 + (i - 1) * stride \in 1 .. n
      BY <2>2, <3>1, StrideFits
    <3>3. usable[1 + (i - 1) * stride] \in S
      BY <1>2, <1>3, <3>2
    <3> QED BY <2>5, <3>3
  <2> QED BY <2>4, <2>6, <2>7 DEF samples
<1> QED BY <1>4, <1>5

\* Where a checksum stands at the end of frames, in a frame that is evidence:
\* at a place of the frame, after all it is calculated over.
LEMMA PlaceOfEvidence ==
  ASSUME NEW target, EndsFrames(target), NEW length \in Nat, calculated_range(length, target) # NoRange
  PROVE  /\ resolve_byte_index(target.position, length) = length + target.position
         /\ length + target.position \in Nat
         /\ calculated_range(length, target).start \in Nat
         /\ calculated_range(length, target).end \in 0 .. length + target.position
<1>1. PICK p \in Int, s \in Int, e \in Int :
        p = target.position /\ s = target.calc_start_byte /\ e = target.calc_end_byte
  BY DEF EndsFrames
<1>2. p < 0 /\ e <= p /\ Addressing(target)
  BY <1>1 DEF EndsFrames, Addressing
<1>3. /\ calculated_range(length, target) = [start |-> Clamped(s, length), end |-> Clamped(e, length)]
      /\ Clamped(s, length) < Clamped(e, length)
  BY <1>1, <1>2, RangeOfEvidence
<1>4. Clamped(s, length) \in 0 .. length
  BY ResolvedIndex
<1>5. Clamped(e, length) = IF length + e < 0 THEN 0 ELSE length + e
  BY <1>2 DEF Clamped, resolve_byte_index
<1>6. length + e > 0 /\ Clamped(e, length) = length + e
  BY <1>3, <1>4, <1>5
<1>7. resolve_byte_index(p, length) = length + p
  BY <1>2, <1>6 DEF resolve_byte_index
<1> QED BY <1>1, <1>2, <1>3, <1>4, <1>6, <1>7

AlikeBut(f, g, x) == \A i \in 1 .. Len(f) : i # x => f[i] = g[i]

\* Two bodies of one length that are sealed to the same bytes but for one of
\* the checksum are sealed to the same there too.
LEMMA SealedColumn ==
  ASSUME NEW spec, NEW target, EndsFrames(target),
         NEW b \in Seq(SUBSET Full(8)), NEW c \in Seq(SUBSET Full(8)), Len(b) = Len(c),
         calculated_range(Len(b), target) # NoRange,
         NEW x \in 1 .. Len(b),
         x \in Len(b) + target.position + 1 .. Len(b) + target.position + target.byte_length,
         AlikeBut(SealAs(spec, target, b), SealAs(spec, target, c), x)
  PROVE  SealAs(spec, target, b)[x] = SealAs(spec, target, c)[x]
<1> DEFINE range == calculated_range(Len(b), target)
           at == Len(b) + target.position + 1
           last == at + target.byte_length - 1
           Value(body) == calculate(spec, Slice(body, range.start, range.end))
           Seal(body) ==
             IF target.byte_length = 1 THEN <<Value(body) \cap Full(8)>>
             ELSE IF target.big_endian
                  THEN <<{i - 8 : i \in Value(body) \ Full(8)}, Value(body) \cap Full(8)>>
                  ELSE <<Value(body) \cap Full(8), {i - 8 : i \in Value(body) \ Full(8)}>>
           Sealed1(body) == [i \in DOMAIN body |-> IF i \in at .. last THEN Seal(body)[i - at + 1] ELSE body[i]]
<1>1. /\ Len(b) \in Nat /\ DOMAIN b = 1 .. Len(b) /\ DOMAIN c = 1 .. Len(b)
      /\ resolve_byte_index(target.position, Len(b)) + 1 = at
      /\ at \in Nat /\ range.start \in Nat /\ range.end \in 0 .. at - 1
      /\ target.position \in Int /\ target.byte_length \in Nat
  <2>1. Len(b) \in Nat /\ DOMAIN b = 1 .. Len(b) /\ DOMAIN c = 1 .. Len(b)
    BY LenProperties
  <2>2. /\ resolve_byte_index(target.position, Len(b)) = Len(b) + target.position
        /\ Len(b) + target.position \in Nat
        /\ range.start \in Nat /\ range.end \in 0 .. Len(b) + target.position
    BY <2>1, PlaceOfEvidence
  <2>3. target.position \in Int /\ target.byte_length \in Nat
    BY DEF EndsFrames
  <2> HIDE DEF range
  <2> QED BY <2>1, <2>2, <2>3
<1>2. SealAs(spec, target, b) = Sealed1(b) /\ SealAs(spec, target, c) = Sealed1(c)
  BY <1>1 DEF SealAs
<1> HIDE DEF range, Seal
<1>3. ASSUME NEW i \in 1 .. at - 1, i \in 1 .. Len(b) PROVE b[i] = c[i]
  <2> Len(SealAs(spec, target, b)) = Len(b)
    BY SealKeepsLength
  <2>1. i # x /\ i \notin at .. last /\ i \in 1 .. Len(SealAs(spec, target, b))
    BY <1>1, <1>3
  <2>2. Sealed1(b)[i] = b[i] /\ Sealed1(c)[i] = c[i]
    BY <1>1, <1>3, <2>1
  <2>3. Sealed1(b)[i] = Sealed1(c)[i]
    BY <1>2, <2>1, Zenon DEF AlikeBut
  <2> QED BY <2>2, <2>3
<1>4. Slice(b, range.start, range.end) = Slice(c, range.start, range.end)
  <2>1. PICK m \in Nat, n \in 0 .. at - 1 : m = range.start /\ n = range.end
    BY <1>1
  <2>2. at - 1 <= Len(b)
    BY <1>1 DEF EndsFrames
  <2>3. \A i \in m + 1 .. n : i \in 1 .. at - 1 /\ i \in 1 .. Len(b)
    BY <1>1, <2>2
  <2>4. \A i \in m + 1 .. n : b[i] = c[i] /\ b[i] \in SUBSET Full(8) /\ c[i] \in SUBSET Full(8)
    BY <1>1, <1>3, <2>3, ElementOfSeq
  <2>5. SubSeq(b, m + 1, n) = SubSeq(c, m + 1, n)
    <3> DEFINE u == SubSeq(b, m + 1, n)
               v == SubSeq(c, m + 1, n)
    <3>1. /\ u \in Seq(SUBSET Full(8)) /\ Len(u) = IF m + 1 <= n THEN n - (m + 1) + 1 ELSE 0
          /\ \A i \in 1 .. n - (m + 1) + 1 : u[i] = b[m + 1 + i - 1]
      BY <2>4, SubSeqProperties
    <3>2. /\ v \in Seq(SUBSET Full(8)) /\ Len(v) = IF m + 1 <= n THEN n - (m + 1) + 1 ELSE 0
          /\ \A i \in 1 .. n - (m + 1) + 1 : v[i] = c[m + 1 + i - 1]
      BY <2>4, SubSeqProperties
    <3> HIDE DEF u, v
    <3>3. ASSUME NEW i \in 1 .. Len(u) PROVE u[i] = v[i]
      <4>1. i \in 1 .. n - (m + 1) + 1 /\ m + 1 + i - 1 \in m + 1 .. n
        BY <3>1
      <4> QED BY <2>4, <3>1, <3>2, <4>1
    <3>4. Len(u) = Len(v)
      BY <3>1, <3>2
    <3>5. u = v
      BY <3>1, <3>2, <3>3, <3>4, SeqEqual
    <3> QED BY <3>5 DEF u, v
  <2> QED BY <2>1, <2>5 DEF Slice
<1>5. Seal(b) = Seal(c)
  BY <1>4 DEF Seal
<1>6. x \in at .. last
  BY <1>1
<1>7. Sealed1(b)[x] = Seal(b)[x - at + 1] /\ Sealed1(c)[x] = Seal(c)[x - at + 1]
  BY <1>1, <1>6
<1> QED BY <1>2, <1>5, <1>7

LEMMA GreatestOf ==
  ASSUME NEW S \in SUBSET Nat, IsFiniteSet(S), S # {}
  PROVE  Max(S) \in S
<1>1. PICK c \in Nat : c = Cardinality(S)
  BY FS_CardinalityType
<1>2. c # 0
  BY <1>1, FS_EmptySet
<1> DEFINE a == Arranged(S, <)
<1>3. /\ a \in [1 .. c -> S]
      /\ \A n, m \in 1 .. c : n < m => a[n] < a[m]
      /\ \A x \in S : \E n \in 1 .. c : a[n] = x
  BY <1>1, ArrangedFacts
<1> HIDE DEF a
<1> DEFINE g == a[c]
<1>4. g \in S /\ c \in 1 .. c /\ \A x \in S : x \in Nat
  BY <1>2, <1>3
<1>5. ASSUME NEW x \in S PROVE g >= x
  <2>1. PICK n \in 1 .. c : a[n] = x
    BY <1>3
  <2>2. CASE n = c
    <3>1. x = g
      BY <2>1, <2>2
    <3> QED BY <1>4, <3>1
  <2>3. CASE n < c
    <3>1. a[n] < g
      BY <1>3, <1>4, <2>3
    <3>2. x < g
      BY <2>1, <3>1, Zenon
    <3> HIDE DEF g
    <3> QED BY <1>4, <3>2
  <2>4. n = c \/ n < c
    OBVIOUS
  <2> QED BY <2>2, <2>3, <2>4
<1> HIDE DEF g
<1>6. \E x \in S : \A y \in S : x >= y
  BY <1>4, <1>5
<1>7. Max(S) \in S /\ \A y \in S : Max(S) >= y
  BY <1>6, Zenon DEF Max
<1> QED BY <1>7

LEMMA LongestSample ==
  ASSUME NEW samples, Len(samples) \in Nat, DOMAIN samples = 1 .. Len(samples),
         \A i \in 1 .. Len(samples) : Len(samples[i]) \in Nat
  PROVE  MaxLength(samples) \in Nat
<1> DEFINE D == 1 .. Len(samples)
           lengths == {Len(f) : f \in ToSet(samples)}
<1>1. IsFiniteSet(D)
  BY FS_Interval
<1>2. lengths = {Len(samples[i]) : i \in D}
  BY DEF ToSet
<1>3. IsFiniteSet({Len(samples[i]) : i \in D})
  <2> DEFINE f == [i \in D |-> Len(samples[i])]
  <2>1. {Len(samples[i]) : i \in D} = {f[i] : i \in D}
    OBVIOUS
  <2>2. f \in Surjection(D, {f[i] : i \in D})
    BY DEF Surjection
  <2> HIDE DEF f
  <2> QED BY <1>1, <2>1, <2>2, FS_Surjection
<1>4. IsFiniteSet({0} \cup lengths)
  BY <1>2, <1>3, FS_Singleton, FS_Union
<1>5. {0} \cup lengths \in SUBSET Nat
  BY <1>2
<1> HIDE DEF lengths
<1>6. Max({0} \cup lengths) \in {0} \cup lengths
  BY <1>4, <1>5, GreatestOf
<1>7. Max({0} \cup lengths) \in Nat
  BY <1>5, <1>6
<1> QED BY <1>7 DEF MaxLength, lengths

InSeal(target, length, x) ==
  x \in 1 .. length /\ x \in length + target.position + 1 .. length + target.position + target.byte_length

\* The same of the frames a device sends.
Sent(t, body) == SealAs(t.specification, t.target, body)

AlikeAt(t, b, c, x) ==
  /\ Len(Sent(t, b)) = Len(Sent(t, c)) /\ calculated_range(Len(Sent(t, b)), t.target) # NoRange
  /\ InSeal(t.target, Len(Sent(t, b)), x) /\ AlikeBut(Sent(t, b), Sent(t, c), x)

LEMMA SealedAlike ==
  ASSUME NEW t \in Truths
  PROVE  \A b, c \in Bodies : \A x : AlikeAt(t, b, c, x) => Sent(t, b)[x] = Sent(t, c)[x]
<1> DEFINE spec == t.specification
           target == t.target
<1>0. EndsFrames(target)
  BY CaptureAssumption
<1> HIDE DEF spec, target
<1> SUFFICES ASSUME NEW b \in Bodies, NEW c \in Bodies, NEW x, AlikeAt(t, b, c, x)
             PROVE  SealAs(spec, target, b)[x] = SealAs(spec, target, c)[x]
  BY DEF Sent, spec, target
<1>1. b \in Seq(SUBSET Full(8)) /\ c \in Seq(SUBSET Full(8))
  BY CaptureAssumption
<1>2. /\ Len(SealAs(spec, target, b)) = Len(SealAs(spec, target, c))
      /\ calculated_range(Len(SealAs(spec, target, b)), target) # NoRange
      /\ InSeal(target, Len(SealAs(spec, target, b)), x)
      /\ AlikeBut(SealAs(spec, target, b), SealAs(spec, target, c), x)
  BY DEF AlikeAt, Sent, spec, target
<1>3. Len(SealAs(spec, target, b)) = Len(b)
  BY <1>1, SealKeepsLength
<1>4. Len(SealAs(spec, target, c)) = Len(c)
  BY <1>1, SealKeepsLength
<1>5. Len(b) = Len(c)
  BY <1>2, <1>3, <1>4
<1>6. /\ x \in 1 .. Len(b)
      /\ x \in Len(b) + target.position + 1 .. Len(b) + target.position + target.byte_length
  BY <1>2, <1>3 DEF InSeal
<1>7. calculated_range(Len(b), target) # NoRange
  BY <1>2, <1>3, Zenon
<1> QED BY <1>0, <1>1, <1>2, <1>5, <1>6, <1>7, SealedColumn

\* No two frames of a capture show the column of the checksum moving alone.
LEMMA NoneAlone ==
  ASSUME CInv, NEW samples, Len(samples) \in Nat,
         \A i \in 1 .. Len(samples) : \E j \in 1 .. Len(capture) : samples[i] = capture[j],
         \A i \in 1 .. Len(samples) - 1 :
           calculated_range(Len(samples[i]), truth.target) = NoRange
             /\ calculated_range(Len(samples[i + 1]), truth.target) = NoRange => samples[i] = samples[i + 1],
         NEW depth \in Nat \ {0},
         -depth \in truth.target.position .. truth.target.position + truth.target.byte_length - 1
  PROVE  Pairs(samples, depth, FALSE, TRUE) = 0
<1> DEFINE Index(i) == Len(samples[i]) - depth + 1
           RestMoved(i) == \E at \in DOMAIN samples[i] \ {Index(i)} : samples[i][at] # samples[i + 1][at]
           Moved(i) == samples[i][Index(i)] # samples[i + 1][Index(i)]
           Found == {i \in 1 .. Len(samples) - 1 :
                       /\ Len(samples[i]) >= depth /\ Len(samples[i]) = Len(samples[i + 1])
                       /\ RestMoved(i) = FALSE /\ Moved(i) = TRUE}
<1>1. Pairs(samples, depth, FALSE, TRUE) = Cardinality(Found)
  BY DEF Pairs
<1>2. ASSUME NEW i \in Found PROVE FALSE
  <2>1. i \in 1 .. Len(samples) /\ i + 1 \in 1 .. Len(samples) /\ i \in 1 .. Len(samples) - 1
    OBVIOUS
  <2>2. PICK j \in 1 .. Len(capture) : samples[i] = capture[j]
    BY <2>1
  <2>3. PICK k \in 1 .. Len(capture) : samples[i + 1] = capture[k]
    BY <2>1
  <2>4. PICK L \in Nat : L = Len(samples[i]) /\ L = Len(samples[i + 1])
    BY <2>2, HeardLengths
  <2>5. DOMAIN samples[i] = 1 .. L /\ L >= depth
    BY <2>2, <2>4, HeardLengths
  <2>6. /\ samples[i] \in Runts \cup SealedBodies /\ samples[i + 1] \in Runts \cup SealedBodies
    BY <2>2, <2>3, HeardLengths
  <2> DEFINE x == L - depth + 1
  <2>7. samples[i][x] # samples[i + 1][x]
    BY <2>4, <2>5
  <2>8. \A at \in 1 .. L : at # x => samples[i][at] = samples[i + 1][at]
    BY <2>4, <2>5
  <2>9. calculated_range(L, truth.target) # NoRange
    BY <2>1, <2>4, <2>7
  <2>10. truth \in Truths /\ EndsFrames(truth.target)
    BY CaptureAssumption DEF CInv
  <2>11. samples[i] \in SealedBodies /\ samples[i + 1] \in SealedBodies
    <3>1. truth \in Truths
      BY <2>10
    <3>2. \A r \in Runts : calculated_range(Len(r), truth.target) = NoRange
      BY <3>1, CaptureAssumption
    <3>3. samples[i] \notin Runts
      BY <2>4, <2>9, <3>2, Zenon
    <3>4. samples[i + 1] \notin Runts
      BY <2>4, <2>9, <3>2, Zenon
    <3> QED BY <2>6, <3>3, <3>4
  <2>12. PICK b \in Bodies : samples[i] = Sent(truth, b)
    BY <2>11 DEF SealedBodies, Sent
  <2>13. PICK c \in Bodies : samples[i + 1] = Sent(truth, c)
    BY <2>11 DEF SealedBodies, Sent
  <2> HIDE DEF x, Found
  <2>15. InSeal(truth.target, L, x)
    <3>1. PICK p \in Int, n \in Nat : p = truth.target.position /\ n = truth.target.byte_length
      BY <2>10 DEF EndsFrames
    <3>2. -depth \in p .. p + n - 1
      BY <3>1
    <3>3. x \in 1 .. L /\ x \in L + p + 1 .. L + p + n
      BY <2>5, <3>2 DEF x
    <3> QED BY <3>1, <3>3 DEF InSeal
  <2>16. Len(Sent(truth, b)) = L /\ Len(Sent(truth, c)) = L
    BY <2>4, <2>12, <2>13, Zenon
  <2>17. AlikeBut(Sent(truth, b), Sent(truth, c), x)
    BY <2>8, <2>12, <2>13, <2>16, Zenon DEF AlikeBut
  <2>18. AlikeAt(truth, b, c, x)
    BY <2>9, <2>15, <2>16, <2>17, Zenon DEF AlikeAt
  <2>19. Sent(truth, b)[x] = Sent(truth, c)[x]
    <3>1. truth \in Truths
      BY <2>10
    <3>2. \A d, e \in Bodies : \A y : AlikeAt(truth, d, e, y) => Sent(truth, d)[y] = Sent(truth, e)[y]
      BY <3>1, SealedAlike
    <3> QED BY <2>18, <3>2, Zenon
  <2> QED BY <2>7, <2>12, <2>13, <2>19, Zenon
<1> HIDE DEF Found
<1>3. Found = {}
  BY <1>2
<1> QED BY <1>1, <1>3, FS_EmptySet

LEMMA PairsCount ==
  ASSUME NEW samples, Len(samples) \in Nat, NEW depth, NEW rest, NEW column
  PROVE  Pairs(samples, depth, rest, column) \in Nat
<1> DEFINE Index(i) == Len(samples[i]) - depth + 1
           RestMoved(i) == \E at \in DOMAIN samples[i] \ {Index(i)} : samples[i][at] # samples[i + 1][at]
           Moved(i) == samples[i][Index(i)] # samples[i + 1][Index(i)]
           Found == {i \in 1 .. Len(samples) - 1 :
                       /\ Len(samples[i]) >= depth /\ Len(samples[i]) = Len(samples[i + 1])
                       /\ RestMoved(i) = rest /\ Moved(i) = column}
<1>1. Pairs(samples, depth, rest, column) = Cardinality(Found)
  BY DEF Pairs
<1>2. PICK n \in Int : n = Len(samples) - 1
  OBVIOUS
<1>3. IsFiniteSet(1 .. n)
  BY FS_Interval
<1>4. Found \subseteq 1 .. n
  BY <1>2
<1> HIDE DEF Found
<1> QED BY <1>1, <1>3, <1>4, FS_Subset, FS_CardinalityType

\* The arithmetic that rules a column out never rules out the checksum, in a
\* capture where no two neighbours that carry none differ: whatever the device,
\* its frames and the sampling, nothing it sends shows a byte of the checksum
\* moving while what the checksum is calculated over stands still.
THEOREM NeverRuledOut == ScanSpec => []NeverDisqualified
<1>1. CInv => NeverDisqualified
  <2> DEFINE samples == strided_samples(capture, MAX_SAMPLES)
             columns == analyse_columns(samples)
             target  == truth.target
             Bare(f) == calculated_range(Len(f), target) = NoRange
             Unruled(e) == e.position \in target.position .. target.position + target.byte_length - 1
                             => e.rejected # {"NotAFunctionOfTheOtherBytes"}
  <2> SUFFICES ASSUME CInv,
                      \A i \in 1 .. Len(samples) - 1 :
                        Bare(samples[i]) /\ Bare(samples[i + 1]) => samples[i] = samples[i + 1]
               PROVE  \A e \in ToSet(checksum_evidence(capture)) : Unruled(e)
    BY Zenon DEF NeverDisqualified
  <2>1. Len(capture) \in Nat /\ DOMAIN capture = 1 .. Len(capture) /\ MAX_SAMPLES \in Nat
    BY LenProperties, DetectAssumption DEF CInv
  <2>2. /\ Len(samples) \in Nat /\ DOMAIN samples = 1 .. Len(samples)
        /\ \A i \in 1 .. Len(samples) : \E j \in 1 .. Len(capture) : samples[i] = capture[j]
    BY <2>1, SamplesAreFrames
  <2>3. checksum_evidence(capture)
          = [d \in DOMAIN columns |-> evaluate(columns[d], samples, Cardinality(ToSet(samples)))]
    BY Zenon DEF checksum_evidence, checksum_evidence_with_columns
  <2> HIDE DEF samples
  <2>4. \A i \in 1 .. Len(samples) : Len(samples[i]) \in Nat
    BY <2>2, HeardLengths
  <2>5. MaxLength(samples) \in Nat
    BY <2>2, <2>4, LongestSample
  <2>6. columns = [depth \in 1 .. MaxLength(samples) |-> Column(samples, depth)]
    BY DEF analyse_columns
  <2> HIDE DEF columns
  <2>7. ASSUME NEW d \in DOMAIN columns
        PROVE  Unruled(evaluate(columns[d], samples, Cardinality(ToSet(samples))))
    <3> DEFINE e == evaluate(columns[d], samples, Cardinality(ToSet(samples)))
               with  == Pairs(samples, d, TRUE, TRUE)
               still == Pairs(samples, d, TRUE, FALSE)
               alone == Pairs(samples, d, FALSE, TRUE)
    <3>1. d \in Nat \ {0}
      BY <2>5, <2>6
    <3>2. columns[d] = Column(samples, d)
      BY <2>6
    <3>3. columns[d].position = -d
      BY <3>2 DEF Column
    <3>4. -(columns[d].position) = d
      BY <3>1, <3>3
    <3>5. e.position = -d /\ e.rejected = Rejection(columns[d], samples, Cardinality(ToSet(samples)))
      BY <3>3 DEF evaluate
    <3> HIDE DEF e
    <3> SUFFICES ASSUME -d \in target.position .. target.position + target.byte_length - 1
                 PROVE  e.rejected # {"NotAFunctionOfTheOtherBytes"}
      BY <3>5 DEF e
    <3>6. alone = 0
      BY <2>2, <3>1, NoneAlone
    <3>7. with \in Nat /\ still \in Nat
      BY <2>2, PairsCount
    <3> HIDE DEF with, still, alone
    <3>8. ~(50 * alone > with + still + alone)
      BY <3>6, <3>7
    <3> QED
      BY <3>4, <3>5, <3>8 DEF Rejection, with, still, alone
  <2> HIDE DEF Unruled
  <2> QED BY <2>3, <2>7 DEF ToSet
<1> QED BY <1>1, CInvHolds, PTL

-----------------------------------------------------------------------------
(* A machine that takes a byte string byte by byte, and its states.        *)

\* g is the run of a machine f from x over some bytes: its states, byte by byte.
IsRun(g, S, f, x, data) ==
  /\ g \in [0 .. Len(data) -> S] /\ g[0] = x
  /\ \A k \in 1 .. Len(data) : g[k] = f[g[k - 1]][data[k]]

\* There is one.
LEMMA RunExists ==
  ASSUME NEW S, NEW D, NEW f \in [S -> [D -> S]], NEW x \in S, NEW data \in Seq(D)
  PROVE  \E g : IsRun(g, S, f, x, data)
<1> DEFINE Upto(n, g) == /\ g \in [0 .. n -> S] /\ g[0] = x
                         /\ \A k \in 1 .. n : g[k] = f[g[k - 1]][data[k]]
           T == {n \in 0 .. Len(data) : ~\E g : Upto(n, g)}
<1>1. Len(data) \in Nat /\ \A k \in 1 .. Len(data) : data[k] \in D
  BY LenProperties, ElementOfSeq
<1>2. ASSUME T # {} PROVE FALSE
  <2>1. T \in SUBSET Nat
    BY <1>1
  <2>2. PICK n \in T : \A k \in T : n <= k
    BY <1>2, <2>1, Least
  <2>3. n \in 0 .. Len(data) /\ ~\E g : Upto(n, g)
    OBVIOUS
  <2>4. CASE n = 0
    <3> DEFINE h == [k \in 0 .. 0 |-> x]
    <3>1. h \in [0 .. n -> S] /\ h[0] = x /\ \A k \in 1 .. n : h[k] = f[h[k - 1]][data[k]]
      BY <2>4
    <3>2. Upto(n, h)
      BY <3>1
    <3> QED BY <2>3, <3>2
  <2>5. CASE n # 0
    <3>0. n \in 1 .. Len(data) /\ n - 1 \in 0 .. Len(data)
      BY <1>1, <2>3, <2>5
    <3>1. n - 1 \in 0 .. Len(data) /\ n - 1 \notin T /\ n \in 1 .. Len(data)
      <4>1. n - 1 \notin T
        <5> HIDE DEF T
        <5> QED BY <2>2, <3>0
      <4> QED BY <3>0, <4>1
    <3>2. PICK g : Upto(n - 1, g)
      BY <3>1
    <3>3. g[n - 1] \in S /\ data[n] \in D
      BY <1>1, <3>1, <3>2
    <3>4. f[g[n - 1]][data[n]] \in S
      BY <3>3
    <3> DEFINE h == [k \in 0 .. n |-> IF k = n THEN f[g[n - 1]][data[n]] ELSE g[k]]
    <3>5. h \in [0 .. n -> S]
      BY <1>1, <3>1, <3>2, <3>4
    <3>6. h[0] = x
      BY <3>1, <3>2
    <3>7. ASSUME NEW k \in 1 .. n PROVE h[k] = f[h[k - 1]][data[k]]
      <4>1. CASE k = n
        BY <3>1, <4>1
      <4>2. CASE k # n
        <5>1. k \in 1 .. n - 1 /\ k \in 0 .. n /\ k - 1 \in 0 .. n /\ k - 1 # n
          BY <3>1, <4>2
        <5>2. h[k] = g[k] /\ h[k - 1] = g[k - 1]
          BY <4>2, <5>1
        <5> QED BY <3>2, <5>1, <5>2
      <4> QED BY <4>1, <4>2
    <3>8. Upto(n, h)
      BY <3>5, <3>6, <3>7
    <3> QED BY <2>3, <3>8
  <2> QED BY <2>4, <2>5
<1>3. \E g : Upto(Len(data), g)
  <2>1. Len(data) \in 0 .. Len(data)
    BY <1>1
  <2> HIDE DEF Upto
  <2> QED BY <1>2, <2>1
<1> QED BY <1>3 DEF IsRun

\* It is the only one.
Alongside(g, h, n) == g[0] = h[0] /\ \A k \in 1 .. n : g[k - 1] = h[k - 1] => g[k] = h[k]

LEMMA SameSteps ==
  ASSUME NEW n \in Nat, NEW g, NEW h, Alongside(g, h, n)
  PROVE  \A k \in 0 .. n : g[k] = h[k]
<1> DEFINE T == {k \in 0 .. n : g[k] # h[k]}
<1>1. ASSUME T # {} PROVE FALSE
  <2>0. T \in SUBSET Nat
    OBVIOUS
  <2>1. PICK m \in T : \A k \in T : m <= k
    BY <1>1, <2>0, Least
  <2>2. m \in 1 .. n /\ m - 1 \in 0 .. n
    BY DEF Alongside
  <2>3. m - 1 \notin T
    <3> HIDE DEF T
    <3> QED BY <2>1, <2>2
  <2> QED BY <2>2, <2>3 DEF Alongside
<1> QED BY <1>1

LEMMA Parted ==
  ASSUME NEW n \in Nat, NEW g, NEW h, NEW i \in 1 .. n, g[i] # h[i],
         \A k \in 1 .. n : k > i /\ g[k - 1] # h[k - 1] => g[k] # h[k]
  PROVE  g[n] # h[n]
<1> DEFINE T == {k \in i .. n : g[k] = h[k]}
<1>1. ASSUME T # {} PROVE FALSE
  <2>0. T \in SUBSET Nat
    OBVIOUS
  <2>1. PICK m \in T : \A k \in T : m <= k
    BY <1>1, <2>0, Least
  <2>2. m # i /\ m \in 1 .. n /\ m - 1 \in i .. n /\ m > i
    OBVIOUS
  <2>3. m - 1 \notin T
    <3> HIDE DEF T
    <3> QED BY <2>1, <2>2
  <2> QED BY <2>2, <2>3
<1> QED BY <1>1

\* No two states and no two bytes are taken to the same.
Tells(S, D, f) ==
  /\ \A s, t \in S : \A d \in D : f[s][d] = f[t][d] => s = t
  /\ \A s \in S : \A d, e \in D : f[s][d] = f[s][e] => d = e

\* The same but for one byte.
OneApart(a, b) ==
  Len(a) = Len(b) /\ \E i \in 1 .. Len(a) : a[i] # b[i] /\ \A k \in 1 .. Len(a) : k # i => a[k] = b[k]

\* From the byte that differs on, the states do.
LEMMA RunsDiffer ==
  ASSUME NEW S, NEW D, NEW f \in [S -> [D -> S]], Tells(S, D, f),
         NEW x \in S, NEW a \in Seq(D), NEW b \in Seq(D), OneApart(a, b),
         NEW g, IsRun(g, S, f, x, a), NEW h, IsRun(h, S, f, x, b)
  PROVE  g[Len(a)] # h[Len(b)]
<1>0. PICK i \in 1 .. Len(a) : a[i] # b[i] /\ \A k \in 1 .. Len(a) : k # i => a[k] = b[k]
  BY DEF OneApart
<1>1. PICK n \in Nat : n = Len(a) /\ n = Len(b)
  BY LenProperties DEF OneApart
<1>2. \A k \in 1 .. n : a[k] \in D /\ b[k] \in D
  BY <1>1, ElementOfSeq
<1>3. /\ g \in [0 .. n -> S] /\ h \in [0 .. n -> S] /\ g[0] = h[0]
      /\ \A k \in 1 .. n : g[k] = f[g[k - 1]][a[k]] /\ h[k] = f[h[k - 1]][b[k]]
  BY <1>1 DEF IsRun
<1>4. ASSUME NEW k \in 1 .. n PROVE g[k - 1] \in S /\ h[k - 1] \in S
  <2>1. k - 1 \in 0 .. n
    OBVIOUS
  <2> QED BY <1>3, <2>1, Zenon
<1>5. i \in 1 .. n
  BY <1>1
<1>6. \A k \in 1 .. n : k # i => a[k] = b[k]
  BY <1>0, <1>1, Zenon
<1>7. PICK m \in Nat : m = i - 1
  BY <1>5
<1>8. g[m] = h[m]
  <2>1. ASSUME NEW k \in 1 .. m, g[k - 1] = h[k - 1] PROVE g[k] = h[k]
    <3>1. k \in 1 .. n /\ k # i
      BY <1>5, <1>7
    <3>2. g[k] = f[g[k - 1]][a[k]] /\ h[k] = f[h[k - 1]][b[k]] /\ a[k] = b[k]
      BY <1>3, <1>6, <3>1
    <3> QED BY <2>1, <3>2, Zenon
  <2>2. \A k \in 0 .. m : g[k] = h[k]
    <3>1. Alongside(g, h, m)
      BY <1>3, <2>1, Zenon DEF Alongside
    <3> QED BY <3>1, SameSteps
  <2> QED BY <2>2
<1>9. g[i] # h[i]
  <2>1. g[i - 1] = h[i - 1] /\ g[i - 1] \in S
    BY <1>4, <1>5, <1>7, <1>8
  <2>2. g[i] = f[g[i - 1]][a[i]] /\ h[i] = f[h[i - 1]][b[i]]
    BY <1>3, <1>5
  <2>3. f[g[i - 1]][a[i]] # f[g[i - 1]][b[i]]
    <3>1. a[i] # b[i] /\ a[i] \in D /\ b[i] \in D
      BY <1>0, <1>2, <1>5, Zenon
    <3> QED BY <2>1, <3>1, Zenon DEF Tells
  <2> QED BY <2>1, <2>2, <2>3, Zenon
<1>10. ASSUME NEW k \in 1 .. n, k > i, g[k - 1] # h[k - 1] PROVE g[k] # h[k]
  <2>1. k # i
    BY <1>5, <1>10
  <2>2. a[k] = b[k]
    BY <1>6, <2>1, Zenon
  <2>3. g[k] = f[g[k - 1]][a[k]] /\ h[k] = f[h[k - 1]][b[k]]
    BY <1>3
  <2>4. f[g[k - 1]][a[k]] # f[h[k - 1]][a[k]]
    <3>1. g[k - 1] \in S /\ h[k - 1] \in S /\ a[k] \in D
      BY <1>2, <1>4
    <3> QED BY <1>10, <3>1 DEF Tells
  <2> QED BY <2>2, <2>3, <2>4, Zenon
<1>11. g[n] # h[n]
  <2> HIDE DEF IsRun
  <2> QED BY <1>5, <1>9, <1>10, Parted
<1> QED BY <1>1, <1>11

-----------------------------------------------------------------------------
(* Words, and one bit and one byte of the division by a generator.         *)

Words(w) == SUBSET Full(w)

LEMMA XorIn ==
  ASSUME NEW a, NEW b
  PROVE  \A i : i \in Xor(a, b) <=> (i \in a /\ i \notin b) \/ (i \in b /\ i \notin a)
BY DEF Xor

LEMMA RightIn ==
  ASSUME NEW x \in SUBSET Int
  PROVE  /\ ShiftRight(x) \in SUBSET Int
         /\ \A i \in Int : i \in ShiftRight(x) <=> i + 1 \in x /\ i # -1
BY DEF ShiftRight

LEMMA LeftIn ==
  ASSUME NEW w \in Nat, NEW x \in SUBSET Int
  PROVE  /\ ShiftLeft(w, x) \in SUBSET Int
         /\ \A i \in Int : i \in ShiftLeft(w, x) <=> i - 1 \in x /\ i # w
BY DEF ShiftLeft

LEMMA ReflectIn ==
  ASSUME NEW w \in Nat, NEW x \in SUBSET Int
  PROVE  /\ Reflect(w, x) \in SUBSET Int
         /\ \A i \in Int : i \in Reflect(w, x) <=> w - 1 - i \in x
BY DEF Reflect

LEMMA WordsAreSets ==
  ASSUME NEW w \in Nat, NEW x \in Words(w)
  PROVE  x \in SUBSET Int /\ \A i \in x : i \in 0 .. w - 1
BY DEF Words, Full

LEMMA BitReflectedWord ==
  ASSUME NEW w \in Nat \ {0}, NEW p \in Words(w), NEW x \in Words(w)
  PROVE  BitReflected(p, x) \in Words(w)
<1>1. x \in SUBSET Int /\ p \in SUBSET Int
  BY WordsAreSets
<1>2. ShiftRight(x) \in Words(w)
  <2>1. \A i \in ShiftRight(x) : i \in Int /\ i + 1 \in x /\ i # -1
    BY <1>1, RightIn
  <2>2. \A i \in x : i \in 0 .. w - 1
    BY WordsAreSets
  <2>3. \A i \in ShiftRight(x) : i \in 0 .. w - 1
    BY <2>1, <2>2
  <2> QED BY <2>3 DEF Words, Full
<1>3. Xor(ShiftRight(x), p) \in Words(w)
  BY <1>2 DEF Words, Xor
<1> QED BY <1>2, <1>3 DEF BitReflected

LEMMA BitReflectedIn ==
  ASSUME NEW p, NEW x \in SUBSET Int
  PROVE  \A i \in Int : i \in BitReflected(p, x) <=> ~((i + 1 \in x /\ i # -1) <=> (0 \in x /\ i \in p))
<1>1. \A i \in Int : i \in ShiftRight(x) <=> i + 1 \in x /\ i # -1
  BY RightIn
<1> QED BY <1>1, XorIn DEF BitReflected

LEMMA BitReflectedInjective ==
  ASSUME NEW w \in Nat \ {0}, NEW p \in Words(w), w - 1 \in p
  PROVE  \A x, y \in Words(w) : BitReflected(p, x) = BitReflected(p, y) => x = y
<1> SUFFICES ASSUME NEW x \in Words(w), NEW y \in Words(w), BitReflected(p, x) = BitReflected(p, y)
             PROVE  x = y
  OBVIOUS
<1>1. x \in SUBSET Int /\ y \in SUBSET Int
  BY WordsAreSets
<1>2. \A i \in x \cup y : i \in 0 .. w - 1
  BY WordsAreSets
<1>3. \A i \in Int : ~((i + 1 \in x /\ i # -1) <=> (0 \in x /\ i \in p))
                 <=> ~((i + 1 \in y /\ i # -1) <=> (0 \in y /\ i \in p))
  BY <1>1, BitReflectedIn
<1>4. 0 \in x <=> 0 \in y
  <2>1. w \notin x /\ w \notin y
    BY <1>2
  <2>2. w - 1 \in Int /\ w - 1 + 1 = w /\ w - 1 # -1
    OBVIOUS
  <2> QED BY <1>3, <2>1, <2>2
<1>5. ASSUME NEW i \in Int, i # 0 PROVE i \in x <=> i \in y
  <2>1. PICK j \in Int : j + 1 = i
    BY <1>5
  <2>2. j # -1
    BY <1>5, <2>1
  <2>3. ~(i \in x <=> (0 \in x /\ j \in p)) <=> ~(i \in y <=> (0 \in y /\ j \in p))
    BY <1>3, <2>1, <2>2
  <2> QED BY <1>4, <2>3
<1>6. \A i \in Int : i \in x <=> i \in y
  BY <1>4, <1>5
<1> QED BY <1>1, <1>6

LEMMA BitReflectedLinear ==
  ASSUME NEW p \in SUBSET Int, NEW x \in SUBSET Int, NEW y \in SUBSET Int
  PROVE  BitReflected(p, Xor(x, y)) = Xor(BitReflected(p, x), BitReflected(p, y))
<1>1. Xor(x, y) \in SUBSET Int
  BY DEF Xor
<1> DEFINE l == BitReflected(p, Xor(x, y))
           r == Xor(BitReflected(p, x), BitReflected(p, y))
<1>2. l \in SUBSET Int /\ r \in SUBSET Int
  <2>1. \A z \in SUBSET Int : ShiftRight(z) \in SUBSET Int
    BY RightIn
  <2>2. \A z \in SUBSET Int : BitReflected(p, z) \in SUBSET Int
    BY <2>1 DEF BitReflected, Xor
  <2> QED BY <1>1, <2>2 DEF Xor
<1>3. ASSUME NEW i \in Int PROVE i \in l <=> i \in r
  <2>1. PICK j \in Int : j = i + 1
    OBVIOUS
  <2>2. i \in l <=> ~((j \in Xor(x, y) /\ i # -1) <=> (0 \in Xor(x, y) /\ i \in p))
    BY <1>1, <2>1, BitReflectedIn
  <2>3. i \in BitReflected(p, x) <=> ~((j \in x /\ i # -1) <=> (0 \in x /\ i \in p))
    BY <2>1, BitReflectedIn
  <2>4. i \in BitReflected(p, y) <=> ~((j \in y /\ i # -1) <=> (0 \in y /\ i \in p))
    BY <2>1, BitReflectedIn
  <2>5. i \in r <=> ~(i \in BitReflected(p, x) <=> i \in BitReflected(p, y))
    BY XorIn
  <2>6. j \in Xor(x, y) <=> ~(j \in x <=> j \in y)
    BY XorIn
  <2>7. 0 \in Xor(x, y) <=> ~(0 \in x <=> 0 \in y)
    BY XorIn
  <2> HIDE DEF l, r
  <2> QED BY <2>2, <2>3, <2>4, <2>5, <2>6, <2>7
<1> HIDE DEF l, r
<1>4. l = r
  BY <1>2, <1>3
<1> QED BY <1>4 DEF l, r

\* The other order is the same with the bits reflected.
LEMMA ReflectedTwice ==
  ASSUME NEW w \in Nat, NEW x \in SUBSET Int
  PROVE  Reflect(w, Reflect(w, x)) = x
<1>1. Reflect(w, x) \in SUBSET Int
  BY ReflectIn
<1>2. Reflect(w, Reflect(w, x)) \in SUBSET Int
  BY <1>1, ReflectIn
<1>3. ASSUME NEW i \in Int PROVE i \in Reflect(w, Reflect(w, x)) <=> i \in x
  <2>1. PICK j \in Int : j = w - 1 - i /\ w - 1 - j = i
    OBVIOUS
  <2>2. i \in Reflect(w, Reflect(w, x)) <=> j \in Reflect(w, x)
    BY <1>1, <2>1, ReflectIn
  <2>3. j \in Reflect(w, x) <=> i \in x
    BY <2>1, ReflectIn
  <2> QED BY <2>2, <2>3
<1> QED BY <1>2, <1>3

LEMMA ReflectWord ==
  ASSUME NEW w \in Nat, NEW x \in Words(w)
  PROVE  Reflect(w, x) \in Words(w)
<1>1. \A i \in x : i \in 0 .. w - 1
  BY WordsAreSets
<1> QED BY <1>1 DEF Reflect, Words, Full

LEMMA BitsMirrored ==
  ASSUME NEW w \in Nat \ {0}, NEW p \in Words(w), NEW x \in Words(w)
  PROVE  BitNormal(w, p, x) = Reflect(w, BitReflected(Reflect(w, p), Reflect(w, x)))
<1>1. p \in SUBSET Int /\ x \in SUBSET Int /\ Reflect(w, p) \in SUBSET Int /\ Reflect(w, x) \in SUBSET Int
  BY WordsAreSets, ReflectIn
<1> DEFINE b == BitReflected(Reflect(w, p), Reflect(w, x))
           l == BitNormal(w, p, x)
           r == Reflect(w, b)
<1>2. ShiftLeft(w, x) \in SUBSET Int /\ \A i \in Int : i \in ShiftLeft(w, x) <=> i - 1 \in x /\ i # w
  BY <1>1, LeftIn
<1>3. l \in SUBSET Int
  BY <1>1, <1>2 DEF BitNormal, Xor
<1>4. b \in SUBSET Int
  BY <1>1, RightIn DEF BitReflected, Xor
<1>5. r \in SUBSET Int
  BY <1>4, ReflectIn
<1>6. ASSUME NEW i \in Int PROVE i \in l <=> i \in r
  <2>1. PICK j \in Int, k \in Int, t \in Int : j = w - 1 - i /\ k = j + 1 /\ t = i - 1 /\ k = w - 1 - t /\ i = w - 1 - j
    OBVIOUS
  <2>2. i \in r <=> j \in b
    BY <1>4, <2>1, ReflectIn
  <2>3. j \in b <=> ~((k \in Reflect(w, x) /\ j # -1) <=> (0 \in Reflect(w, x) /\ j \in Reflect(w, p)))
    BY <1>1, <2>1, BitReflectedIn
  <2>4. k \in Reflect(w, x) <=> t \in x
    <3>1. w - 1 - k = t
      BY <2>1
    <3> QED BY <1>1, <3>1, ReflectIn
  <2>5. 0 \in Reflect(w, x) <=> w - 1 \in x
    <3>1. w - 1 - 0 = w - 1
      OBVIOUS
    <3> QED BY <1>1, <3>1, ReflectIn
  <2>6. j \in Reflect(w, p) <=> i \in p
    <3>1. w - 1 - j = i
      BY <2>1
    <3> QED BY <1>1, <3>1, ReflectIn
  <2>7. j # -1 <=> i # w
    BY <2>1
  <2>8. i \in ShiftLeft(w, x) <=> t \in x /\ i # w
    BY <1>2, <2>1
  <2>9. i \in l <=> ~((t \in x /\ i # w) <=> (w - 1 \in x /\ i \in p))
    BY <2>8, XorIn DEF BitNormal
  <2> HIDE DEF l, r, b
  <2> QED BY <2>2, <2>3, <2>4, <2>5, <2>6, <2>7, <2>9
<1> HIDE DEF l, r
<1>7. l = r
  BY <1>3, <1>5, <1>6
<1> QED BY <1>7 DEF l, r

\* Eight bits, one by one.
Eight == [i \in 1 .. 8 |-> 0]

LEMMA EightSteps == Len(Eight) = 8 /\ Eight \in Seq({0}) /\ \A i \in 1 .. 8 : Eight[i] = 0
<1>1. \A i \in 1 .. 8 : Eight[i] = 0
  BY DEF Eight
<1>2. Eight \in [1 .. 8 -> {0}] /\ 8 \in Nat
  BY DEF Eight
<1>3. Eight \in Seq({0})
  BY <1>2, SeqDef
<1>4. Len(Eight) = 8
  BY <1>2, <1>3, LenProperties
<1> QED BY <1>1, <1>3, <1>4

BitRun(g, w, p, x) == /\ g \in [0 .. 8 -> Words(w)] /\ g[0] = x
                      /\ \A k \in 1 .. 8 : g[k] = BitReflected(p, g[k - 1])

LEMMA BitsOfByte ==
  ASSUME NEW w \in Nat \ {0}, NEW p \in Words(w), NEW x \in Words(w)
  PROVE  \E g : BitRun(g, w, p, x) /\ ByteReflected(p, x) = g[8]
<1> DEFINE f == [s \in Words(w) |-> [d \in {0} |-> BitReflected(p, s)]]
<1>1. f \in [Words(w) -> [{0} -> Words(w)]]
  BY BitReflectedWord
<1>2. PICK g : IsRun(g, Words(w), f, x, Eight)
  BY <1>1, EightSteps, RunExists
<1>3. g \in [0 .. 8 -> Words(w)] /\ g[0] = x /\ \A k \in 1 .. 8 : g[k] = f[g[k - 1]][0]
  BY <1>2, EightSteps DEF IsRun
<1>4. \A k \in 1 .. 8 : k - 1 \in 0 .. 8 /\ g[k - 1] \in Words(w)
  BY <1>3
<1>5. \A k \in 1 .. 8 : g[k] = BitReflected(p, g[k - 1])
  BY <1>3, <1>4
<1>6. g = [k \in 0 .. 8 |-> IF k = 0 THEN x ELSE BitReflected(p, g[k - 1])]
  <2>1. \A k \in 0 .. 8 : g[k] = IF k = 0 THEN x ELSE BitReflected(p, g[k - 1])
    BY <1>3, <1>5
  <2> QED BY <1>3, <2>1
<1> DEFINE P(h) == h = [k \in 0 .. 8 |-> IF k = 0 THEN x ELSE BitReflected(p, h[k - 1])]
           after == CHOOSE h : P(h)
<1>7. P(after)
  <2>1. P(g)
    BY <1>6
  <2> HIDE DEF P
  <2> QED BY <2>1
<1>8. ByteReflected(p, x) = after[8]
  BY DEF ByteReflected
<1> HIDE DEF after
<1>9. after[0] = x /\ \A k \in 1 .. 8 : after[k] = BitReflected(p, after[k - 1])
  BY <1>7
<1>10. Alongside(g, after, 8)
  BY <1>3, <1>5, <1>9 DEF Alongside
<1>11. g[8] = after[8]
  BY <1>10, SameSteps
<1> QED BY <1>3, <1>5, <1>8, <1>11 DEF BitRun

LEMMA ByteReflectedWord ==
  ASSUME NEW w \in Nat \ {0}, NEW p \in Words(w), NEW x \in Words(w)
  PROVE  ByteReflected(p, x) \in Words(w)
<1>1. PICK g : BitRun(g, w, p, x) /\ ByteReflected(p, x) = g[8]
  BY BitsOfByte
<1> QED BY <1>1 DEF BitRun

LEMMA ByteReflectedInjective ==
  ASSUME NEW w \in Nat \ {0}, NEW p \in Words(w), w - 1 \in p
  PROVE  \A x, y \in Words(w) : ByteReflected(p, x) = ByteReflected(p, y) => x = y
<1> SUFFICES ASSUME NEW x \in Words(w), NEW y \in Words(w), x # y
             PROVE  ByteReflected(p, x) # ByteReflected(p, y)
  OBVIOUS
<1>1. PICK g : BitRun(g, w, p, x) /\ ByteReflected(p, x) = g[8]
  BY BitsOfByte
<1>2. PICK h : BitRun(h, w, p, y) /\ ByteReflected(p, y) = h[8]
  BY BitsOfByte
<1>3. \A a, b \in Words(w) : BitReflected(p, a) = BitReflected(p, b) => a = b
  BY BitReflectedInjective
<1>4. ASSUME NEW k \in 1 .. 8, g[k - 1] # h[k - 1] PROVE g[k] # h[k]
  <2>1. k - 1 \in 0 .. 8
    OBVIOUS
  <2>2. g[k - 1] \in Words(w) /\ h[k - 1] \in Words(w)
    BY <1>1, <1>2, <2>1 DEF BitRun
  <2>3. g[k] = BitReflected(p, g[k - 1]) /\ h[k] = BitReflected(p, h[k - 1])
    BY <1>1, <1>2 DEF BitRun
  <2> QED BY <1>3, <1>4, <2>2, <2>3, Zenon
<1>5. g[0] # h[0]
  BY <1>1, <1>2 DEF BitRun
<1> DEFINE Apart(k) == g[k] # h[k]
<1>6. \A k \in 1 .. 8 : Apart(k - 1) => Apart(k)
  BY <1>4
<1>7. Apart(0)
  BY <1>5
<1> HIDE DEF Apart
<1>8. Apart(1) /\ Apart(2) /\ Apart(3) /\ Apart(4)
  BY <1>6, <1>7
<1>9. Apart(5) /\ Apart(6) /\ Apart(7) /\ Apart(8)
  BY <1>6, <1>8
<1> QED BY <1>1, <1>2, <1>9 DEF Apart

LEMMA XorWord ==
  ASSUME NEW w \in Nat, NEW x \in Words(w), NEW y \in Words(w)
  PROVE  Xor(x, y) \in Words(w)
BY DEF Xor, Words

LEMMA ByteReflectedLinear ==
  ASSUME NEW w \in Nat \ {0}, NEW p \in Words(w), NEW x \in Words(w), NEW y \in Words(w)
  PROVE  ByteReflected(p, Xor(x, y)) = Xor(ByteReflected(p, x), ByteReflected(p, y))
<1>0. Xor(x, y) \in Words(w)
  BY XorWord
<1>1. PICK g : BitRun(g, w, p, x) /\ ByteReflected(p, x) = g[8]
  BY BitsOfByte
<1>2. PICK h : BitRun(h, w, p, y) /\ ByteReflected(p, y) = h[8]
  BY BitsOfByte
<1>3. PICK e : BitRun(e, w, p, Xor(x, y)) /\ ByteReflected(p, Xor(x, y)) = e[8]
  BY <1>0, BitsOfByte
<1> DEFINE Sums(k) == e[k] = Xor(g[k], h[k])
<1>4. ASSUME NEW k \in 1 .. 8, Sums(k - 1) PROVE Sums(k)
  <2>1. k - 1 \in 0 .. 8
    OBVIOUS
  <2>2. g[k - 1] \in Words(w) /\ h[k - 1] \in Words(w)
    BY <1>1, <1>2, <2>1 DEF BitRun
  <2>3. g[k - 1] \in SUBSET Int /\ h[k - 1] \in SUBSET Int /\ p \in SUBSET Int
    BY <2>2, WordsAreSets
  <2>4. BitReflected(p, Xor(g[k - 1], h[k - 1])) = Xor(BitReflected(p, g[k - 1]), BitReflected(p, h[k - 1]))
    BY <2>3, BitReflectedLinear
  <2>5. g[k] = BitReflected(p, g[k - 1]) /\ h[k] = BitReflected(p, h[k - 1]) /\ e[k] = BitReflected(p, e[k - 1])
    BY <1>1, <1>2, <1>3 DEF BitRun
  <2> QED BY <1>4, <2>4, <2>5, Zenon
<1>5. Sums(0)
  BY <1>1, <1>2, <1>3 DEF BitRun
<1> HIDE DEF Sums
<1>6. Sums(1) /\ Sums(2) /\ Sums(3) /\ Sums(4)
  BY <1>4, <1>5
<1>7. Sums(5) /\ Sums(6) /\ Sums(7) /\ Sums(8)
  BY <1>4, <1>6
<1> QED BY <1>1, <1>2, <1>3, <1>7 DEF Sums

\* What has no bit among the last eight is only shifted.
LEMMA ByteShifted ==
  ASSUME NEW w \in Nat \ {0}, NEW p \in Words(w), NEW x \in Words(w), x \cap Full(8) = {}
  PROVE  ByteReflected(p, x) = {i - 8 : i \in x}
<1>1. PICK g : BitRun(g, w, p, x) /\ ByteReflected(p, x) = g[8]
  BY BitsOfByte
<1>2. x \in SUBSET Int /\ \A i \in x : i >= 8
  <2>1. x \in SUBSET Int /\ \A i \in x : i \in 0 .. w - 1
    BY WordsAreSets
  <2> QED BY <2>1 DEF Full
<1> DEFINE Shifted(k) == \A i \in Int : i \in g[k] <=> i + k \in x
<1>3. \A k \in 0 .. 8 : g[k] \in SUBSET Int
  BY <1>1, WordsAreSets DEF BitRun
<1>4. ASSUME NEW k \in 1 .. 8, Shifted(k - 1) PROVE Shifted(k)
  <2>1. k - 1 \in 0 .. 8 /\ k - 1 \in Int
    OBVIOUS
  <2>2. g[k - 1] \in SUBSET Int /\ g[k] = BitReflected(p, g[k - 1])
    BY <1>1, <1>3, <2>1 DEF BitRun
  <2>3. 0 \notin g[k - 1]
    <3>1. k - 1 \notin x
      BY <1>2
    <3> QED BY <1>4, <2>1, <3>1
  <2>4. ASSUME NEW i \in Int PROVE i \in g[k] <=> i + k \in x
    <3>1. i \in g[k] <=> i + 1 \in g[k - 1] /\ i # -1
      BY <2>2, <2>3, BitReflectedIn
    <3>2. i + 1 \in Int /\ i + 1 + (k - 1) = i + k
      BY <2>1
    <3>3. i + 1 \in g[k - 1] <=> i + k \in x
      BY <1>4, <3>2
    <3>4. i = -1 => i + k \notin x
      BY <1>2
    <3> QED BY <3>1, <3>3, <3>4
  <2> QED BY <2>4
<1>5. Shifted(0)
  <2>1. \A i \in Int : i + 0 = i
    OBVIOUS
  <2>2. g[0] = x
    BY <1>1 DEF BitRun
  <2> QED BY <2>1, <2>2
<1> HIDE DEF Shifted
<1>6. Shifted(1) /\ Shifted(2) /\ Shifted(3) /\ Shifted(4)
  BY <1>4, <1>5
<1>7. Shifted(5) /\ Shifted(6) /\ Shifted(7) /\ Shifted(8)
  BY <1>4, <1>6
<1>8. \A i \in Int : i \in g[8] <=> i + 8 \in x
  BY <1>7 DEF Shifted
<1>9. g[8] \in SUBSET Int
  BY <1>3
<1>10. ASSUME NEW i \in g[8] PROVE \E j \in x : i = j - 8
  <2>1. i \in Int /\ i + 8 \in x /\ i = i + 8 - 8
    BY <1>8, <1>9
  <2> QED BY <2>1
<1>11. ASSUME NEW j \in x PROVE j - 8 \in g[8]
  BY <1>2, <1>8
<1> QED BY <1>1, <1>10, <1>11

LEMMA BytesMirrored ==
  ASSUME NEW w \in Nat \ {0}, NEW p \in Words(w), NEW x \in Words(w)
  PROVE  ByteNormal(w, p, x) = Reflect(w, ByteReflected(Reflect(w, p), Reflect(w, x)))
<1> DEFINE q == Reflect(w, p)
           y == Reflect(w, x)
<1>1. q \in Words(w) /\ y \in Words(w)
  BY ReflectWord
<1>2. x \in SUBSET Int
  BY WordsAreSets
<1>3. Reflect(w, y) = x
  BY <1>2, ReflectedTwice
<1> HIDE DEF q, y
<1>4. PICK g : BitRun(g, w, q, y) /\ ByteReflected(q, y) = g[8]
  BY <1>1, BitsOfByte
<1> DEFINE m == [k \in 0 .. 8 |-> Reflect(w, g[k])]
<1>5. m[0] = x
  BY <1>3, <1>4 DEF BitRun
<1>6. ASSUME NEW k \in 1 .. 8 PROVE m[k] = BitNormal(w, p, m[k - 1])
  <2>1. k - 1 \in 0 .. 8 /\ k \in 0 .. 8
    OBVIOUS
  <2>2. g[k - 1] \in Words(w) /\ g[k] = BitReflected(q, g[k - 1])
    BY <1>4, <2>1 DEF BitRun
  <2>3. m[k - 1] = Reflect(w, g[k - 1]) /\ m[k] = Reflect(w, g[k])
    BY <2>1
  <2> HIDE DEF m
  <2>4. m[k - 1] \in Words(w)
    BY <2>2, <2>3, ReflectWord
  <2>5. g[k - 1] \in SUBSET Int
    BY <2>2, WordsAreSets
  <2>6. Reflect(w, m[k - 1]) = g[k - 1]
    BY <2>3, <2>5, ReflectedTwice
  <2>7. BitNormal(w, p, m[k - 1]) = Reflect(w, BitReflected(q, Reflect(w, m[k - 1])))
    BY <2>4, BitsMirrored DEF q
  <2> QED BY <2>2, <2>3, <2>6, <2>7, Zenon
<1> DEFINE P(h) == h = [k \in 0 .. 8 |-> IF k = 0 THEN x ELSE BitNormal(w, p, h[k - 1])]
           after == CHOOSE h : P(h)
<1>7. P(m)
  <2>1. \A k \in 0 .. 8 : m[k] = IF k = 0 THEN x ELSE BitNormal(w, p, m[k - 1])
    <3> HIDE DEF m
    <3> QED BY <1>5, <1>6
  <2>2. m = [k \in 0 .. 8 |-> m[k]]
    OBVIOUS
  <2> HIDE DEF m
  <2>3. [k \in 0 .. 8 |-> m[k]] = [k \in 0 .. 8 |-> IF k = 0 THEN x ELSE BitNormal(w, p, m[k - 1])]
    BY <2>1
  <2> QED BY <2>2, <2>3, Zenon
<1>8. m[8] = Reflect(w, g[8])
  OBVIOUS
<1> HIDE DEF m
<1>9. P(after)
  <2> HIDE DEF P
  <2> QED BY <1>7
<1>10. ByteNormal(w, p, x) = after[8]
  BY DEF ByteNormal
<1> HIDE DEF after
<1>11. after[0] = x /\ \A k \in 1 .. 8 : after[k] = BitNormal(w, p, after[k - 1])
  BY <1>9
<1>12. Alongside(m, after, 8)
  BY <1>5, <1>6, <1>11 DEF Alongside
<1>13. m[8] = after[8]
  BY <1>12, SameSteps
<1> QED BY <1>4, <1>8, <1>10, <1>13 DEF q, y

-----------------------------------------------------------------------------
(* The division as such a machine, in the reflected order and, mirrored, in*)
(* the other.                                                              *)

\* A byte enters the low end of a reflected register.
Divider(w, p) == [s \in Words(w) |-> [d \in Words(8) |-> ByteReflected(p, Xor(s, d))]]

LEMMA BytesAreWords ==
  ASSUME NEW w \in Nat, w >= 8
  PROVE  \A d \in Words(8) : d \in Words(w)
BY DEF Words, Full

LEMMA DividerTakes ==
  ASSUME NEW w \in Nat, w >= 8, NEW p \in Words(w)
  PROVE  /\ Divider(w, p) \in [Words(w) -> [Words(8) -> Words(w)]]
         /\ \A s \in Words(w) : \A d \in Words(8) : Divider(w, p)[s][d] = ByteReflected(p, Xor(s, d))
<1>1. ASSUME NEW s \in Words(w), NEW d \in Words(8) PROVE ByteReflected(p, Xor(s, d)) \in Words(w)
  <2>1. d \in Words(w)
    BY BytesAreWords
  <2>2. Xor(s, d) \in Words(w)
    BY <2>1, XorWord
  <2> QED BY <2>2, ByteReflectedWord
<1> QED BY <1>1 DEF Divider

LEMMA DividerTells ==
  ASSUME NEW w \in Nat, w >= 8, NEW p \in Words(w), w - 1 \in p
  PROVE  Tells(Words(w), Words(8), Divider(w, p))
<1>1. \A x, y \in Words(w) : ByteReflected(p, x) = ByteReflected(p, y) => x = y
  BY ByteReflectedInjective
<1>2. \A s \in Words(w) : \A d \in Words(8) : Divider(w, p)[s][d] = ByteReflected(p, Xor(s, d))
  BY DividerTakes
<1>3. \A s \in Words(w) : \A d \in Words(8) : Xor(s, d) \in Words(w)
  BY BytesAreWords, XorWord
<1>4. ASSUME NEW s \in Words(w), NEW t \in Words(w), NEW d \in Words(8), Divider(w, p)[s][d] = Divider(w, p)[t][d]
      PROVE  s = t
  <2>1. Xor(s, d) = Xor(t, d)
    BY <1>1, <1>2, <1>3, <1>4
  <2> QED BY <2>1 DEF Xor
<1>5. ASSUME NEW s \in Words(w), NEW d \in Words(8), NEW e \in Words(8), Divider(w, p)[s][d] = Divider(w, p)[s][e]
      PROVE  d = e
  <2>1. Xor(s, d) = Xor(s, e)
    BY <1>1, <1>2, <1>3, <1>5
  <2> QED BY <2>1 DEF Xor
<1> QED BY <1>4, <1>5 DEF Tells

LEMMA DivisionReflected ==
  ASSUME NEW w \in Nat, w >= 8, NEW p \in Words(w), NEW x \in Words(w), NEW data \in Seq(Words(8))
  PROVE  \E g : IsRun(g, Words(w), Divider(w, Reflect(w, p)), x, data) /\ RegisterReflected(w, data, p, x) = g[Len(data)]
<1> DEFINE q == Reflect(w, p)
<1>0. q \in Words(w)
  BY ReflectWord
<1> HIDE DEF q
<1>1. /\ Divider(w, q) \in [Words(w) -> [Words(8) -> Words(w)]]
      /\ \A s \in Words(w) : \A d \in Words(8) : Divider(w, q)[s][d] = ByteReflected(q, Xor(s, d))
  BY <1>0, DividerTakes
<1>2. PICK g : IsRun(g, Words(w), Divider(w, q), x, data)
  BY <1>1, RunExists
<1>3. PICK n \in Nat : n = Len(data)
  BY LenProperties
<1>4. g \in [0 .. n -> Words(w)] /\ g[0] = x /\ \A k \in 1 .. n : g[k] = Divider(w, q)[g[k - 1]][data[k]]
  BY <1>2, <1>3 DEF IsRun
<1>5. ASSUME NEW k \in 1 .. n PROVE g[k] = ByteReflected(q, Xor(g[k - 1], data[k]))
  <2>1. k - 1 \in 0 .. n
    OBVIOUS
  <2>2. g[k - 1] \in Words(w) /\ data[k] \in Words(8)
    BY <1>3, <1>4, <2>1, ElementOfSeq
  <2> QED BY <1>1, <1>4, <2>2
<1>6. g = [k \in 0 .. n |-> IF k = 0 THEN x ELSE ByteReflected(q, Xor(g[k - 1], data[k]))]
  <2>1. ASSUME NEW k \in 0 .. n PROVE g[k] = IF k = 0 THEN x ELSE ByteReflected(q, Xor(g[k - 1], data[k]))
    <3>1. k = 0 \/ k \in 1 .. n
      BY <1>3
    <3>2. CASE k = 0
      BY <1>4, <3>2
    <3>3. CASE k # 0
      BY <1>5, <3>1, <3>3
    <3> QED BY <3>2, <3>3
  <2> QED BY <1>4, <2>1
<1> DEFINE P(h) == h = [k \in 0 .. n |-> IF k = 0 THEN x ELSE ByteReflected(q, Xor(h[k - 1], data[k]))]
           after == CHOOSE h : P(h)
<1>7. P(after)
  <2>1. P(g)
    BY <1>6
  <2> HIDE DEF P
  <2> QED BY <2>1
<1>8. RegisterReflected(w, data, p, x) = after[n]
  BY <1>3 DEF RegisterReflected, q
<1> HIDE DEF after
<1>9. after[0] = x /\ \A k \in 1 .. n : after[k] = ByteReflected(q, Xor(after[k - 1], data[k]))
  BY <1>7
<1>10. Alongside(g, after, n)
  BY <1>4, <1>5, <1>9 DEF Alongside
<1>11. g[n] = after[n]
  BY <1>10, SameSteps
<1> QED BY <1>2, <1>3, <1>8, <1>11 DEF q

\* The other order is the reflected register over reflected bytes.
Mirrored(data) == [i \in 1 .. Len(data) |-> Reflect(8, data[i])]

LEMMA MirroredBytes ==
  ASSUME NEW data \in Seq(Words(8))
  PROVE  /\ Mirrored(data) \in Seq(Words(8)) /\ Len(Mirrored(data)) = Len(data)
         /\ \A i \in 1 .. Len(data) : Mirrored(data)[i] = Reflect(8, data[i])
<1>1. PICK n \in Nat : n = Len(data)
  BY LenProperties
<1>2. \A i \in 1 .. n : Reflect(8, data[i]) \in Words(8)
  BY <1>1, ElementOfSeq, ReflectWord
<1>3. Mirrored(data) \in [1 .. n -> Words(8)]
  BY <1>1, <1>2 DEF Mirrored
<1>4. Mirrored(data) \in Seq(Words(8))
  BY <1>3, SeqDef
<1>5. Len(Mirrored(data)) = n
  BY <1>3, <1>4, LenProperties
<1> QED BY <1>1, <1>4, <1>5 DEF Mirrored

LEMMA XorReflected ==
  ASSUME NEW w \in Nat, NEW x \in SUBSET Int, NEW y \in SUBSET Int
  PROVE  Reflect(w, Xor(x, y)) = Xor(Reflect(w, x), Reflect(w, y))
<1> DEFINE l == Reflect(w, Xor(x, y))
           r == Xor(Reflect(w, x), Reflect(w, y))
<1>1. Xor(x, y) \in SUBSET Int /\ Reflect(w, x) \in SUBSET Int /\ Reflect(w, y) \in SUBSET Int
  BY ReflectIn DEF Xor
<1>2. l \in SUBSET Int /\ r \in SUBSET Int
  BY <1>1, ReflectIn DEF Xor
<1>3. ASSUME NEW i \in Int PROVE i \in l <=> i \in r
  <2>1. i \in l <=> w - 1 - i \in Xor(x, y)
    BY <1>1, ReflectIn
  <2>2. i \in Reflect(w, x) <=> w - 1 - i \in x
    BY ReflectIn
  <2>3. i \in Reflect(w, y) <=> w - 1 - i \in y
    BY ReflectIn
  <2> HIDE DEF l
  <2> QED BY <2>1, <2>2, <2>3, XorIn
<1> HIDE DEF l, r
<1>4. l = r
  BY <1>2, <1>3
<1> QED BY <1>4 DEF l, r

\* A byte at the top end of a register is its reflection at the low end.
LEMMA TopByte ==
  ASSUME NEW w \in Nat, w >= 8, NEW d \in Words(8)
  PROVE  {i + w - 8 : i \in d} \in Words(w) /\ Reflect(w, {i + w - 8 : i \in d}) = Reflect(8, d)
<1>1. d \in SUBSET Int /\ \A i \in d : i \in 0 .. 7
  BY WordsAreSets
<1> DEFINE top == {i + w - 8 : i \in d}
<1>2. top \in SUBSET Int
  BY <1>1
<1>3. top \in Words(w)
  BY <1>1 DEF Words, Full
<1>4. \A j \in Int : j \in top <=> j - w + 8 \in d
  <2>1. ASSUME NEW j \in Int, j - w + 8 \in d PROVE j \in top
    <3>1. (j - w + 8) + w - 8 = j
      OBVIOUS
    <3> QED BY <2>1, <3>1
  <2>2. ASSUME NEW j \in top PROVE j - w + 8 \in d
    <3>1. PICK i \in d : j = i + w - 8
      OBVIOUS
    <3>2. j - w + 8 = i
      BY <1>1, <3>1
    <3> QED BY <3>2
  <2> QED BY <2>1, <2>2
<1> HIDE DEF top
<1>5. ASSUME NEW i \in Int PROVE i \in Reflect(w, top) <=> i \in Reflect(8, d)
  <2>1. i \in Reflect(w, top) <=> w - 1 - i \in top
    BY <1>2, ReflectIn
  <2>2. i \in Reflect(8, d) <=> 8 - 1 - i \in d
    BY <1>1, ReflectIn
  <2>3. (w - 1 - i) - w + 8 = 8 - 1 - i /\ w - 1 - i \in Int
    OBVIOUS
  <2>4. w - 1 - i \in top <=> 8 - 1 - i \in d
    BY <1>4, <2>3
  <2> QED BY <2>1, <2>2, <2>4
<1>6. Reflect(w, top) \in SUBSET Int /\ Reflect(8, d) \in SUBSET Int
  BY <1>1, <1>2, ReflectIn
<1>7. Reflect(w, top) = Reflect(8, d)
  BY <1>5, <1>6
<1> QED BY <1>3, <1>7 DEF top

LEMMA DivisionMirrored ==
  ASSUME NEW w \in Nat, w >= 8, NEW p \in Words(w), NEW x \in Words(w), NEW data \in Seq(Words(8))
  PROVE  RegisterNormal(w, data, p, x) = Reflect(w, RegisterReflected(w, Mirrored(data), p, Reflect(w, x)))
<1> DEFINE q == Reflect(w, p)
           y == Reflect(w, x)
           mirror == Mirrored(data)
           Top(k) == {i + w - 8 : i \in data[k]}
<1>0. /\ q \in Words(w) /\ y \in Words(w) /\ mirror \in Seq(Words(8)) /\ Len(mirror) = Len(data)
      /\ \A i \in 1 .. Len(data) : mirror[i] = Reflect(8, data[i])
  BY ReflectWord, MirroredBytes
<1>1. Reflect(w, y) = x
  BY WordsAreSets, ReflectedTwice
<1>2. PICK g : IsRun(g, Words(w), Divider(w, q), y, mirror) /\ RegisterReflected(w, mirror, p, y) = g[Len(mirror)]
  <2> HIDE DEF y, mirror
  <2> QED BY <1>0, DivisionReflected DEF q
<1> HIDE DEF q, y, mirror
<1>3. PICK n \in Nat : n = Len(data)
  BY LenProperties
<1>4. g \in [0 .. n -> Words(w)] /\ g[0] = y /\ \A k \in 1 .. n : g[k] = Divider(w, q)[g[k - 1]][mirror[k]]
  BY <1>0, <1>2, <1>3 DEF IsRun
<1> DEFINE m == [k \in 0 .. n |-> Reflect(w, g[k])]
<1>5. m[0] = x
  BY <1>1, <1>4
<1>6. ASSUME NEW k \in 1 .. n PROVE m[k] = ByteNormal(w, p, Xor(m[k - 1], Top(k)))
  <2>1. k - 1 \in 0 .. n /\ k \in 0 .. n
    OBVIOUS
  <2>2. g[k - 1] \in Words(w) /\ data[k] \in Words(8) /\ mirror[k] \in Words(8) /\ mirror[k] = Reflect(8, data[k])
    BY <1>0, <1>3, <1>4, <2>1, ElementOfSeq
  <2>3. g[k] = ByteReflected(q, Xor(g[k - 1], mirror[k]))
    BY <1>0, <1>4, <2>2, DividerTakes
  <2>4. m[k - 1] = Reflect(w, g[k - 1]) /\ m[k] = Reflect(w, g[k])
    BY <2>1
  <2> HIDE DEF m
  <2>5. Top(k) \in Words(w) /\ Reflect(w, Top(k)) = mirror[k]
    BY <2>2, TopByte
  <2> HIDE DEF Top
  <2>6. m[k - 1] \in Words(w) /\ Reflect(w, m[k - 1]) = g[k - 1]
    <3>1. g[k - 1] \in SUBSET Int
      BY <2>2, WordsAreSets
    <3>2. Reflect(w, Reflect(w, g[k - 1])) = g[k - 1]
      BY <3>1, ReflectedTwice
    <3>3. Reflect(w, g[k - 1]) \in Words(w)
      BY <2>2, ReflectWord
    <3> QED BY <2>4, <3>2, <3>3
  <2>7. Xor(m[k - 1], Top(k)) \in Words(w)
    BY <2>5, <2>6, XorWord
  <2>8. Reflect(w, Xor(m[k - 1], Top(k))) = Xor(g[k - 1], mirror[k])
    BY <2>5, <2>6, XorReflected, WordsAreSets
  <2>9. ByteNormal(w, p, Xor(m[k - 1], Top(k))) = Reflect(w, ByteReflected(q, Reflect(w, Xor(m[k - 1], Top(k)))))
    BY <2>7, BytesMirrored DEF q
  <2> QED BY <2>3, <2>4, <2>8, <2>9, Zenon
<1> DEFINE P(h) == h = [k \in 0 .. n |-> IF k = 0 THEN x ELSE ByteNormal(w, p, Xor(h[k - 1], Top(k)))]
           after == CHOOSE h : P(h)
<1>7. P(m)
  <2>1. \A k \in 0 .. n : m[k] = IF k = 0 THEN x ELSE ByteNormal(w, p, Xor(m[k - 1], Top(k)))
    <3> HIDE DEF m, Top
    <3> QED BY <1>5, <1>6
  <2>2. m = [k \in 0 .. n |-> m[k]]
    OBVIOUS
  <2> HIDE DEF m
  <2>3. [k \in 0 .. n |-> m[k]] = [k \in 0 .. n |-> IF k = 0 THEN x ELSE ByteNormal(w, p, Xor(m[k - 1], Top(k)))]
    BY <2>1
  <2> QED BY <2>2, <2>3, Zenon
<1>8. m[n] = Reflect(w, g[n])
  OBVIOUS
<1> HIDE DEF m
<1>9. P(after)
  <2> HIDE DEF P
  <2> QED BY <1>7
<1>10. RegisterNormal(w, data, p, x) = after[n]
  BY <1>3 DEF RegisterNormal
<1> HIDE DEF after, Top
<1>11. after[0] = x /\ \A k \in 1 .. n : after[k] = ByteNormal(w, p, Xor(after[k - 1], Top(k)))
  BY <1>9
<1>12. Alongside(m, after, n)
  BY <1>5, <1>6, <1>11 DEF Alongside
<1>13. m[n] = after[n]
  BY <1>12, SameSteps
<1> QED BY <1>0, <1>2, <1>3, <1>8, <1>10, <1>13 DEF mirror, y

LEMMA Divided ==
  ASSUME NEW w \in Nat, w >= 8, NEW p \in Words(w), NEW x \in Words(w), NEW data \in Seq(Words(8))
  PROVE  /\ RegisterReflected(w, data, p, x) \in Words(w)
         /\ RegisterNormal(w, data, p, x) \in Words(w)
<1>1. ASSUME NEW bytes \in Seq(Words(8)), NEW y \in Words(w)
      PROVE  RegisterReflected(w, bytes, p, y) \in Words(w)
  <2>1. PICK g : IsRun(g, Words(w), Divider(w, Reflect(w, p)), y, bytes)
                   /\ RegisterReflected(w, bytes, p, y) = g[Len(bytes)]
    BY DivisionReflected
  <2>2. Len(bytes) \in 0 .. Len(bytes)
    BY LenProperties
  <2> QED BY <2>1, <2>2 DEF IsRun
<1>2. RegisterNormal(w, data, p, x) \in Words(w)
  <2>1. Reflect(w, x) \in Words(w) /\ Mirrored(data) \in Seq(Words(8))
    BY ReflectWord, MirroredBytes
  <2>2. RegisterReflected(w, Mirrored(data), p, Reflect(w, x)) \in Words(w)
    BY <1>1, <2>1
  <2>3. RegisterNormal(w, data, p, x) = Reflect(w, RegisterReflected(w, Mirrored(data), p, Reflect(w, x)))
    BY DivisionMirrored
  <2> QED BY <2>2, <2>3, ReflectWord
<1> QED BY <1>1, <1>2

\* A generator divides by what a term without x makes irreversible.
LEMMA ReflectedTells ==
  ASSUME NEW w \in Nat, w >= 8, NEW p \in Words(w), 0 \in p, NEW x \in Words(w),
         NEW a \in Seq(Words(8)), NEW b \in Seq(Words(8)), OneApart(a, b)
  PROVE  RegisterReflected(w, a, p, x) # RegisterReflected(w, b, p, x)
<1> DEFINE q == Reflect(w, p)
<1>1. q \in Words(w)
  BY ReflectWord
<1>2. w - 1 \in q
  <2>1. p \in SUBSET Int /\ w - 1 - (w - 1) = 0 /\ w - 1 \in Int
    BY WordsAreSets
  <2> QED BY <2>1, ReflectIn
<1>3. PICK g : IsRun(g, Words(w), Divider(w, q), x, a) /\ RegisterReflected(w, a, p, x) = g[Len(a)]
  BY DivisionReflected
<1>4. PICK h : IsRun(h, Words(w), Divider(w, q), x, b) /\ RegisterReflected(w, b, p, x) = h[Len(b)]
  BY DivisionReflected
<1> HIDE DEF q
<1>5. Divider(w, q) \in [Words(w) -> [Words(8) -> Words(w)]] /\ Tells(Words(w), Words(8), Divider(w, q))
  BY <1>1, <1>2, DividerTakes, DividerTells
<1>6. g[Len(a)] # h[Len(b)]
  BY <1>3, <1>4, <1>5, RunsDiffer
<1> QED BY <1>3, <1>4, <1>6

LEMMA NormalTells ==
  ASSUME NEW w \in Nat, w >= 8, NEW p \in Words(w), 0 \in p, NEW x \in Words(w),
         NEW a \in Seq(Words(8)), NEW b \in Seq(Words(8)), OneApart(a, b)
  PROVE  RegisterNormal(w, a, p, x) # RegisterNormal(w, b, p, x)
<1> DEFINE y == Reflect(w, x)
           c == Mirrored(a)
           d == Mirrored(b)
<1>1. y \in Words(w)
  BY ReflectWord
<1>2. /\ c \in Seq(Words(8)) /\ Len(c) = Len(a) /\ \A i \in 1 .. Len(a) : c[i] = Reflect(8, a[i])
      /\ d \in Seq(Words(8)) /\ Len(d) = Len(b) /\ \A i \in 1 .. Len(b) : d[i] = Reflect(8, b[i])
  BY MirroredBytes
<1>3. /\ RegisterNormal(w, a, p, x) = Reflect(w, RegisterReflected(w, c, p, y))
      /\ RegisterNormal(w, b, p, x) = Reflect(w, RegisterReflected(w, d, p, y))
  BY DivisionMirrored
<1> HIDE DEF y, c, d
<1>4. PICK n \in Nat : n = Len(a) /\ n = Len(b)
  BY LenProperties DEF OneApart
<1>5. PICK i \in 1 .. n : a[i] # b[i] /\ \A k \in 1 .. n : k # i => a[k] = b[k]
  BY <1>4 DEF OneApart
<1>6. \A k \in 1 .. n : a[k] \in SUBSET Int /\ b[k] \in SUBSET Int
  <2>1. \A k \in 1 .. n : a[k] \in Words(8) /\ b[k] \in Words(8)
    BY <1>4, ElementOfSeq
  <2> QED BY <2>1, WordsAreSets
<1>7. c[i] # d[i]
  <2>1. Reflect(8, Reflect(8, a[i])) = a[i] /\ Reflect(8, Reflect(8, b[i])) = b[i]
    BY <1>6, ReflectedTwice
  <2>2. c[i] = Reflect(8, a[i]) /\ d[i] = Reflect(8, b[i])
    BY <1>2, <1>4
  <2> QED BY <1>5, <2>1, <2>2, Zenon
<1>8. \A k \in 1 .. n : k # i => c[k] = d[k]
  BY <1>2, <1>4, <1>5
<1>9. OneApart(c, d)
  BY <1>2, <1>4, <1>7, <1>8 DEF OneApart
<1>10. RegisterReflected(w, c, p, y) # RegisterReflected(w, d, p, y)
  BY <1>1, <1>2, <1>9, ReflectedTells
<1>11. RegisterReflected(w, c, p, y) \in SUBSET Int /\ RegisterReflected(w, d, p, y) \in SUBSET Int
  BY <1>1, <1>2, Divided, WordsAreSets
<1>12. /\ Reflect(w, Reflect(w, RegisterReflected(w, c, p, y))) = RegisterReflected(w, c, p, y)
       /\ Reflect(w, Reflect(w, RegisterReflected(w, d, p, y))) = RegisterReflected(w, d, p, y)
  BY <1>11, ReflectedTwice
<1> QED BY <1>3, <1>10, <1>12, Zenon

-----------------------------------------------------------------------------
(* The sums.                                                               *)

LEMMA XorRuns ==
  ASSUME NEW data \in Seq(Words(8))
  PROVE  \E g : /\ IsRun(g, Words(8), [s \in Words(8) |-> [d \in Words(8) |-> Xor(s, d)]], {}, data)
                /\ xor_checksum(data) = g[Len(data)]
<1> DEFINE f == [s \in Words(8) |-> [d \in Words(8) |-> Xor(s, d)]]
<1>1. f \in [Words(8) -> [Words(8) -> Words(8)]] /\ {} \in Words(8)
  BY XorWord DEF Words
<1>2. PICK g : IsRun(g, Words(8), f, {}, data)
  BY <1>1, RunExists
<1>3. PICK n \in Nat : n = Len(data)
  BY LenProperties
<1>4. g \in [0 .. n -> Words(8)] /\ g[0] = {} /\ \A k \in 1 .. n : g[k] = f[g[k - 1]][data[k]]
  BY <1>2, <1>3 DEF IsRun
<1>5. ASSUME NEW k \in 1 .. n PROVE g[k] = Xor(g[k - 1], data[k])
  <2>1. k - 1 \in 0 .. n
    OBVIOUS
  <2>2. g[k - 1] \in Words(8) /\ data[k] \in Words(8)
    BY <1>3, <1>4, <2>1, ElementOfSeq
  <2> QED BY <1>4, <2>2
<1> DEFINE P(h) == h = [k \in 0 .. n |-> IF k = 0 THEN {} ELSE Xor(h[k - 1], data[k])]
           after == CHOOSE h : P(h)
<1>6. P(g)
  <2>1. ASSUME NEW k \in 0 .. n PROVE g[k] = IF k = 0 THEN {} ELSE Xor(g[k - 1], data[k])
    <3>1. CASE k = 0
      BY <1>4, <3>1
    <3>2. CASE k # 0
      <4>1. k \in 1 .. n
        BY <1>3, <3>2
      <4> QED BY <1>5, <3>2, <4>1
    <3> QED BY <3>1, <3>2
  <2> QED BY <1>4, <2>1
<1>7. P(after)
  <2> HIDE DEF P
  <2> QED BY <1>6
<1>8. xor_checksum(data) = after[n]
  BY <1>3 DEF xor_checksum
<1> HIDE DEF after
<1>9. after[0] = {} /\ \A k \in 1 .. n : after[k] = Xor(after[k - 1], data[k])
  <2>1. \A k \in 0 .. n : after[k] = IF k = 0 THEN {} ELSE Xor(after[k - 1], data[k])
    BY <1>7, Zenon
  <2>2. 0 \in 0 .. n /\ \A k \in 1 .. n : k \in 0 .. n /\ k # 0
    OBVIOUS
  <2> QED BY <2>1, <2>2, Zenon
<1>10. Alongside(g, after, n)
  BY <1>4, <1>5, <1>9 DEF Alongside
<1>11. g[n] = after[n]
  BY <1>10, SameSteps
<1> QED BY <1>2, <1>3, <1>8, <1>11

Digits(byte) == [i \in 0 .. 7 |-> IF i \in byte THEN 1 ELSE 0]

Weighed(a) == a[0] + 2 * a[1] + 4 * a[2] + 8 * a[3] + 16 * a[4] + 32 * a[5] + 64 * a[6] + 128 * a[7]

LEMMA EightDigits ==
  ASSUME NEW a \in [0 .. 7 -> {0, 1}], NEW b \in [0 .. 7 -> {0, 1}], Weighed(a) = Weighed(b)
  PROVE  \A i \in 0 .. 7 : a[i] = b[i]
<1>0. /\ a[0] \in {0, 1} /\ a[1] \in {0, 1} /\ a[2] \in {0, 1} /\ a[3] \in {0, 1}
      /\ a[4] \in {0, 1} /\ a[5] \in {0, 1} /\ a[6] \in {0, 1} /\ a[7] \in {0, 1}
  OBVIOUS
<1>a. /\ b[0] \in {0, 1} /\ b[1] \in {0, 1} /\ b[2] \in {0, 1} /\ b[3] \in {0, 1}
      /\ b[4] \in {0, 1} /\ b[5] \in {0, 1} /\ b[6] \in {0, 1} /\ b[7] \in {0, 1}
  OBVIOUS
<1>1. PICK l \in 0 .. 15 : l = a[0] + 2 * a[1] + 4 * a[2] + 8 * a[3]
  BY <1>0
<1>2. PICK k \in 0 .. 15 : k = b[0] + 2 * b[1] + 4 * b[2] + 8 * b[3]
  BY <1>a
<1>3. PICK h \in 0 .. 15 : h = a[4] + 2 * a[5] + 4 * a[6] + 8 * a[7]
  BY <1>0
<1>4. PICK g \in 0 .. 15 : g = b[4] + 2 * b[5] + 4 * b[6] + 8 * b[7]
  BY <1>a
<1>5. 16 * h + l = 16 * g + k
  <2>1. Weighed(a) = 16 * h + l
    BY <1>0, <1>1, <1>3 DEF Weighed
  <2>2. Weighed(b) = 16 * g + k
    BY <1>a, <1>2, <1>4 DEF Weighed
  <2> QED BY <2>1, <2>2
<1>6. h = g /\ l = k
  BY <1>5
<1>7. a[0] = b[0] /\ a[1] = b[1] /\ a[2] = b[2] /\ a[3] = b[3]
  BY <1>0, <1>a, <1>1, <1>2, <1>6
<1>8. a[4] = b[4] /\ a[5] = b[5] /\ a[6] = b[6] /\ a[7] = b[7]
  BY <1>0, <1>a, <1>3, <1>4, <1>6
<1> QED BY <1>7, <1>8

LEMMA NumberOfByte ==
  ASSUME NEW d \in Words(8)
  PROVE  /\ Number(d) \in 0 .. 255
         /\ \A e \in Words(8) : Number(d) = Number(e) => d = e
<1>1. \A x : Digits(x) \in [0 .. 7 -> {0, 1}] /\ \A i \in 0 .. 7 : Digits(x)[i] = 1 <=> i \in x
  BY DEF Digits
<1>2. \A x : Number(x) = Weighed(Digits(x))
  BY DEF Number, Weighed, Digits
<1>3. Number(d) \in 0 .. 255
  <2>1. /\ Digits(d)[0] \in {0, 1} /\ Digits(d)[1] \in {0, 1} /\ Digits(d)[2] \in {0, 1} /\ Digits(d)[3] \in {0, 1}
        /\ Digits(d)[4] \in {0, 1} /\ Digits(d)[5] \in {0, 1} /\ Digits(d)[6] \in {0, 1} /\ Digits(d)[7] \in {0, 1}
    BY <1>1
  <2>2. Weighed(Digits(d)) \in 0 .. 255
    BY <2>1 DEF Weighed
  <2> QED BY <1>2, <2>2
<1>4. ASSUME NEW e \in Words(8), Number(d) = Number(e) PROVE d = e
  <2>1. \A i \in 0 .. 7 : Digits(d)[i] = Digits(e)[i]
    <3>1. Weighed(Digits(d)) = Weighed(Digits(e))
      BY <1>2, <1>4, Zenon
    <3> QED BY <1>1, <3>1, EightDigits
  <2>2. \A i \in 0 .. 7 : i \in d <=> i \in e
    BY <1>1, <2>1
  <2>3. \A i \in d \cup e : i \in 0 .. 7
    BY WordsAreSets
  <2> QED BY <2>2, <2>3
<1> QED BY <1>3, <1>4

LEMMA BitsOfNumber ==
  ASSUME NEW m \in 0 .. 255, NEW n \in 0 .. 255, Bits(8, m) = Bits(8, n)
  PROVE  m = n
<1> DEFINE At(v, i) == (v \div 2^i) % 2 = 1
<1>1. \A i \in 0 .. 7 : At(m, i) <=> At(n, i)
  <2>1. \A i \in 0 .. 7 : i \in Bits(8, m) <=> At(m, i)
    BY DEF Bits
  <2>2. \A i \in 0 .. 7 : i \in Bits(8, n) <=> At(n, i)
    BY DEF Bits
  <2> HIDE DEF At
  <2> QED BY <2>1, <2>2
<1>2. /\ At(m, 0) <=> At(n, 0)
      /\ At(m, 1) <=> At(n, 1)
      /\ At(m, 2) <=> At(n, 2)
      /\ At(m, 3) <=> At(n, 3)
      /\ At(m, 4) <=> At(n, 4)
      /\ At(m, 5) <=> At(n, 5)
      /\ At(m, 6) <=> At(n, 6)
      /\ At(m, 7) <=> At(n, 7)
  <2> HIDE DEF At
  <2> QED BY <1>1
<1>3. 2^0 = 1 /\ 2^1 = 2 /\ 2^2 = 4 /\ 2^3 = 8 /\ 2^4 = 16 /\ 2^5 = 32 /\ 2^6 = 64 /\ 2^7 = 128
  OBVIOUS
<1>4. /\ ((m \div 1) % 2 = 1) <=> ((n \div 1) % 2 = 1)
      /\ ((m \div 2) % 2 = 1) <=> ((n \div 2) % 2 = 1)
      /\ ((m \div 4) % 2 = 1) <=> ((n \div 4) % 2 = 1)
      /\ ((m \div 8) % 2 = 1) <=> ((n \div 8) % 2 = 1)
      /\ ((m \div 16) % 2 = 1) <=> ((n \div 16) % 2 = 1)
      /\ ((m \div 32) % 2 = 1) <=> ((n \div 32) % 2 = 1)
      /\ ((m \div 64) % 2 = 1) <=> ((n \div 64) % 2 = 1)
      /\ ((m \div 128) % 2 = 1) <=> ((n \div 128) % 2 = 1)
  BY <1>2
<1>5. ASSUME NEW v \in 0 .. 255
      PROVE  v = ((v \div 1) % 2) + 2 * ((v \div 2) % 2) + 4 * ((v \div 4) % 2) + 8 * ((v \div 8) % 2)
                   + 16 * ((v \div 16) % 2) + 32 * ((v \div 32) % 2) + 64 * ((v \div 64) % 2) + 128 * ((v \div 128) % 2)
  <2> DEFINE half(i) == v \div i
             bit(i)  == (v \div i) % 2
  <2>1. /\ half(2) = half(1) \div 2 /\ half(4) = half(2) \div 2 /\ half(8) = half(4) \div 2
        /\ half(16) = half(8) \div 2 /\ half(32) = half(16) \div 2 /\ half(64) = half(32) \div 2
        /\ half(128) = half(64) \div 2
    OBVIOUS
  <2>2. /\ half(1) = v /\ half(1) \in Nat /\ half(2) \in Nat /\ half(4) \in Nat /\ half(8) \in Nat
        /\ half(16) \in Nat /\ half(32) \in Nat /\ half(64) \in Nat /\ half(128) \in {0, 1}
    OBVIOUS
  <2>3. \A i : bit(i) = half(i) % 2
    OBVIOUS
  <2> HIDE DEF half, bit
  <2>4. \A k \in Nat : k % 2 \in 0 .. 1 /\ k \div 2 \in Nat /\ k = (k % 2) + 2 * (k \div 2)
    OBVIOUS
  <2>5. \A i, j \in {1, 2, 4, 8, 16, 32, 64, 128} : half(i) \in Nat /\ half(j) = half(i) \div 2 => half(i) = bit(i) + 2 * half(j)
    BY <2>3, <2>4
  <2>6. half(64) = bit(64) + 2 * half(128) /\ half(32) = bit(32) + 2 * half(64) /\ half(16) = bit(16) + 2 * half(32)
    BY <2>1, <2>2, <2>5
  <2>7. half(8) = bit(8) + 2 * half(16) /\ half(4) = bit(4) + 2 * half(8)
    BY <2>1, <2>2, <2>5
  <2>8. half(2) = bit(2) + 2 * half(4) /\ half(1) = bit(1) + 2 * half(2)
    BY <2>1, <2>2, <2>5
  <2>9. /\ bit(1) \in Int /\ bit(2) \in Int /\ bit(4) \in Int /\ bit(8) \in Int
        /\ bit(16) \in Int /\ bit(32) \in Int /\ bit(64) \in Int
    BY <2>2, <2>3
  <2>10. half(128) = bit(128) /\ bit(128) \in Int
    BY <2>2, <2>3
  <2>11. PICK h \in Int : h = half(16) /\ h = bit(16) + 2 * bit(32) + 4 * bit(64) + 8 * bit(128)
    BY <2>6, <2>9, <2>10
  <2>12. half(1) = bit(1) + 2 * bit(2) + 4 * bit(4) + 8 * bit(8) + 16 * h
    BY <2>7, <2>8, <2>9, <2>11
  <2>13. v = bit(1) + 2 * bit(2) + 4 * bit(4) + 8 * bit(8)
               + 16 * bit(16) + 32 * bit(32) + 64 * bit(64) + 128 * bit(128)
    BY <2>2, <2>9, <2>10, <2>11, <2>12
  <2> QED BY <2>13, Zenon DEF bit
<1>6. ASSUME NEW v \in 0 .. 255
      PROVE  /\ ((v \div 1) % 2) \in {0, 1} /\ ((v \div 2) % 2) \in {0, 1} /\ ((v \div 4) % 2) \in {0, 1}
             /\ ((v \div 8) % 2) \in {0, 1} /\ ((v \div 16) % 2) \in {0, 1} /\ ((v \div 32) % 2) \in {0, 1}
             /\ ((v \div 64) % 2) \in {0, 1} /\ ((v \div 128) % 2) \in {0, 1}
  OBVIOUS
<1>7. /\ ((m \div 1) % 2) = ((n \div 1) % 2) /\ ((m \div 2) % 2) = ((n \div 2) % 2)
      /\ ((m \div 4) % 2) = ((n \div 4) % 2) /\ ((m \div 8) % 2) = ((n \div 8) % 2)
      /\ ((m \div 16) % 2) = ((n \div 16) % 2) /\ ((m \div 32) % 2) = ((n \div 32) % 2)
      /\ ((m \div 64) % 2) = ((n \div 64) % 2) /\ ((m \div 128) % 2) = ((n \div 128) % 2)
  BY <1>4, <1>6
<1> QED BY <1>5, <1>7

Totals == 0 .. 255
Sums   == 0 .. 510
Added(total, byte) == (total + Number(byte)) % 256
Adder   == [s \in Totals |-> [d \in Words(8) |-> Added(s, d)]]
Wrap(v) == IF v < 256 THEN v ELSE v - 256

LEMMA Wrapped ==
  ASSUME NEW v \in Sums
  PROVE  v % 256 = Wrap(v) /\ Wrap(v) \in Totals
<1>1. v \in 0 .. 510
  BY DEF Sums
<1>2. CASE v < 256
  BY <1>1, <1>2 DEF Wrap, Totals
<1>3. CASE v >= 256
  BY <1>1, <1>3 DEF Wrap, Totals
<1> QED BY <1>1, <1>2, <1>3

\* Two sums less than a turn apart that wrap to the same are the same.
LEMMA WrapTells ==
  ASSUME NEW v \in Sums, NEW u \in Sums, Wrap(v) = Wrap(u), v - u < 256, u - v < 256
  PROVE  v = u
<1>1. v \in 0 .. 510 /\ u \in 0 .. 510
  BY DEF Sums
<1>2. CASE v < 256
  BY <1>1, <1>2 DEF Wrap
<1>3. CASE v >= 256
  BY <1>1, <1>3 DEF Wrap
<1> QED BY <1>1, <1>2, <1>3

LEMMA AddedTells ==
  /\ \A s \in Totals : \A d \in Words(8) : Added(s, d) \in Totals
  /\ \A s, t \in Totals : \A d \in Words(8) : Added(s, d) = Added(t, d) => s = t
  /\ \A s \in Totals : \A d, e \in Words(8) : Added(s, d) = Added(s, e) => d = e
<1>1. ASSUME NEW s \in Totals, NEW d \in Words(8)
      PROVE  \E n \in Totals, v \in Sums : n = Number(d) /\ v = s + n /\ Added(s, d) = Wrap(v)
  <2>1. PICK n \in Totals : n = Number(d)
    BY NumberOfByte DEF Totals
  <2>2. PICK v \in Sums : v = s + n
    BY DEF Totals, Sums
  <2>3. Added(s, d) = v % 256
    BY <2>1, <2>2, Zenon DEF Added
  <2>4. Added(s, d) = Wrap(v)
    BY <2>3, Wrapped, Zenon
  <2> QED BY <2>1, <2>2, <2>4, Zenon
<1>2. ASSUME NEW s \in Totals, NEW d \in Words(8) PROVE Added(s, d) \in Totals
  <2>1. PICK n \in Totals, v \in Sums : n = Number(d) /\ v = s + n /\ Added(s, d) = Wrap(v)
    BY <1>1, Zenon
  <2> QED BY <2>1, Wrapped, Zenon
<1>3. ASSUME NEW s \in Totals, NEW t \in Totals, NEW d \in Words(8), Added(s, d) = Added(t, d) PROVE s = t
  <2>1. PICK n \in Totals, v \in Sums : n = Number(d) /\ v = s + n /\ Added(s, d) = Wrap(v)
    BY <1>1, Zenon
  <2>2. PICK m \in Totals, u \in Sums : m = Number(d) /\ u = t + m /\ Added(t, d) = Wrap(u)
    BY <1>1, Zenon
  <2>3. Wrap(v) = Wrap(u) /\ m = n
    BY <1>3, <2>1, <2>2, Zenon
  <2>4. v = s + n /\ u = t + n
    BY <2>1, <2>2, <2>3, Zenon
  <2>5. v - u < 256 /\ u - v < 256
    BY <2>4 DEF Totals
  <2>6. v = u
    BY <2>3, <2>5, WrapTells
  <2> QED BY <2>4, <2>6 DEF Totals
<1>4. ASSUME NEW s \in Totals, NEW d \in Words(8), NEW e \in Words(8), Added(s, d) = Added(s, e) PROVE d = e
  <2>1. PICK n \in Totals, v \in Sums : n = Number(d) /\ v = s + n /\ Added(s, d) = Wrap(v)
    BY <1>1, Zenon
  <2>2. PICK m \in Totals, u \in Sums : m = Number(e) /\ u = s + m /\ Added(s, e) = Wrap(u)
    BY <1>1, Zenon
  <2>3. Wrap(v) = Wrap(u)
    BY <1>4, <2>1, <2>2, Zenon
  <2>4. v = s + n /\ u = s + m
    BY <2>1, <2>2, Zenon
  <2>5. v - u < 256 /\ u - v < 256
    BY <2>4 DEF Totals
  <2>6. v = u
    BY <2>3, <2>5, WrapTells
  <2>7. n = m
    BY <2>4, <2>6 DEF Totals
  <2>8. Number(d) = Number(e)
    BY <2>1, <2>2, <2>7, Zenon
  <2> QED BY <2>8, NumberOfByte, Zenon
<1> QED BY <1>2, <1>3, <1>4, Zenon

LEMMA AdderTells ==
  /\ Adder \in [Totals -> [Words(8) -> Totals]]
  /\ \A s \in Totals : \A d \in Words(8) : Adder[s][d] = Added(s, d)
  /\ Tells(Totals, Words(8), Adder)
<1>1. /\ Adder \in [Totals -> [Words(8) -> Totals]]
      /\ \A s \in Totals : \A d \in Words(8) : Adder[s][d] = Added(s, d)
  BY AddedTells DEF Adder
<1>2. Tells(Totals, Words(8), Adder)
  <2>1. ASSUME NEW s \in Totals, NEW t \in Totals, NEW d \in Words(8), Adder[s][d] = Adder[t][d] PROVE s = t
    <3>1. Added(s, d) = Added(t, d)
      BY <1>1, <2>1, Zenon
    <3> QED BY <3>1, AddedTells, Zenon
  <2>2. ASSUME NEW s \in Totals, NEW d \in Words(8), NEW e \in Words(8), Adder[s][d] = Adder[s][e] PROVE d = e
    <3>1. Added(s, d) = Added(s, e)
      BY <1>1, <2>2, Zenon
    <3> QED BY <3>1, AddedTells, Zenon
  <2> QED BY <2>1, <2>2, Zenon DEF Tells
<1> QED BY <1>1, <1>2

LEMMA SumRuns ==
  ASSUME NEW data \in Seq(Words(8))
  PROVE  \E g : IsRun(g, Totals, Adder, 0, data) /\ sum8_checksum(data) = Bits(8, g[Len(data)])
<1>0. Adder \in [Totals -> [Words(8) -> Totals]] /\ 0 \in Totals
  <2>1. 0 \in Totals
    BY DEF Totals
  <2> QED BY <2>1, AdderTells, Zenon
<1>1. PICK g : IsRun(g, Totals, Adder, 0, data)
  BY <1>0, RunExists, Zenon
<1>2. PICK n \in Nat : n = Len(data)
  BY LenProperties
<1>3. g \in [0 .. n -> Totals] /\ g[0] = 0 /\ \A k \in 1 .. n : g[k] = Adder[g[k - 1]][data[k]]
  BY <1>1, <1>2 DEF IsRun
<1>4. ASSUME NEW k \in 1 .. n PROVE g[k] = Added(g[k - 1], data[k])
  <2>1. k - 1 \in 0 .. n
    OBVIOUS
  <2>2. g[k - 1] \in Totals /\ data[k] \in Words(8)
    BY <1>2, <1>3, <2>1, ElementOfSeq
  <2>3. Adder[g[k - 1]][data[k]] = Added(g[k - 1], data[k])
    BY <2>2, AdderTells, Zenon
  <2> QED BY <1>3, <2>3
<1> DEFINE P(h) == h = [k \in 0 .. n |-> IF k = 0 THEN 0 ELSE Added(h[k - 1], data[k])]
           sum == CHOOSE h : P(h)
<1>5. P(g)
  <2>1. ASSUME NEW k \in 0 .. n PROVE g[k] = IF k = 0 THEN 0 ELSE Added(g[k - 1], data[k])
    <3>1. CASE k = 0
      BY <1>3, <3>1
    <3>2. CASE k # 0
      <4>1. k \in 1 .. n
        BY <1>2, <3>2
      <4> QED BY <1>4, <3>2, <4>1
    <3> QED BY <3>1, <3>2
  <2> QED BY <1>3, <2>1
<1>6. P(sum)
  <2> HIDE DEF P
  <2> QED BY <1>5
<1>7. sum8_checksum(data) = Bits(8, sum[n])
  BY <1>2 DEF sum8_checksum, Added
<1> HIDE DEF sum
<1>8. sum[0] = 0 /\ \A k \in 1 .. n : sum[k] = Added(sum[k - 1], data[k])
  BY <1>6
<1>9. Alongside(g, sum, n)
  BY <1>3, <1>4, <1>8 DEF Alongside
<1>10. g[n] = sum[n]
  BY <1>9, SameSteps
<1> QED BY <1>1, <1>2, <1>7, <1>10

-----------------------------------------------------------------------------
(* The generators and the table.                                           *)

\* The constants, bit by bit.
LEMMA PolynomialsEnd ==
  /\ \A n \in {7, 29, 47, 49, 155, 213, 133} : Bits(8, n) \in Words(8) /\ 0 \in Bits(8, n)
  /\ \A p \in {CRC16_MODBUS_POLY, CRC16_CCITT_POLY} : p \in Words(16) /\ 0 \in p
<1>1. \A w, n : Bits(w, n) \in SUBSET (0 .. w - 1)
  BY DEF Bits
<1>2. \A w, n : Bits(w, n) \in Words(w)
  BY <1>1 DEF Words, Full
<1>3. \A n \in {7, 29, 47, 49, 155, 213, 133, 4129, 32773} : (n \div 2^0) % 2 = 1
  OBVIOUS
<1>4. 0 \in 0 .. 8 - 1 /\ 0 \in 0 .. 16 - 1
  OBVIOUS
<1>5. \A n \in {7, 29, 47, 49, 155, 213, 133} : 0 \in Bits(8, n)
  BY <1>3, <1>4 DEF Bits
<1>6. \A n \in {4129, 32773} : 0 \in Bits(16, n)
  BY <1>3, <1>4 DEF Bits
<1> QED BY <1>2, <1>5, <1>6 DEF CRC16_MODBUS_POLY, CRC16_CCITT_POLY

LEMMA ModbusPolynomial == CRC16_MODBUS_POLY_REFLECTED = Reflect(16, CRC16_MODBUS_POLY)
<1> DEFINE At(n, i) == (n \div 2^i) % 2 = 1
<1>1. \A n : \A i \in Int : i \in Bits(16, n) <=> i \in 0 .. 15 /\ At(n, i)
  BY DEF Bits
<1>2. \A n : Bits(16, n) \in SUBSET Int
  BY DEF Bits
<1>3. /\ At(40961, 0) /\ ~At(40961, 1) /\ ~At(40961, 2) /\ ~At(40961, 3)
      /\ ~At(40961, 4) /\ ~At(40961, 5) /\ ~At(40961, 6) /\ ~At(40961, 7)
      /\ ~At(40961, 8) /\ ~At(40961, 9) /\ ~At(40961, 10) /\ ~At(40961, 11)
      /\ ~At(40961, 12) /\ At(40961, 13) /\ ~At(40961, 14) /\ At(40961, 15)
  OBVIOUS
<1>4. /\ At(32773, 0) /\ ~At(32773, 1) /\ At(32773, 2) /\ ~At(32773, 3)
      /\ ~At(32773, 4) /\ ~At(32773, 5) /\ ~At(32773, 6) /\ ~At(32773, 7)
      /\ ~At(32773, 8) /\ ~At(32773, 9) /\ ~At(32773, 10) /\ ~At(32773, 11)
      /\ ~At(32773, 12) /\ ~At(32773, 13) /\ ~At(32773, 14) /\ At(32773, 15)
  OBVIOUS
<1> HIDE DEF At
<1>5. \A i \in 0 .. 15 : i \in {0, 1, 2, 3, 4, 5, 6, 7, 8, 9, 10, 11, 12, 13, 14, 15}
  OBVIOUS
<1>6. \A i \in {0, 1, 2, 3, 4, 5, 6, 7, 8, 9, 10, 11, 12, 13, 14, 15} : At(40961, i) <=> i \in {0, 13, 15}
  BY <1>3
<1>7. \A i \in {0, 1, 2, 3, 4, 5, 6, 7, 8, 9, 10, 11, 12, 13, 14, 15} : At(32773, i) <=> i \in {0, 2, 15}
  BY <1>4
<1>8. \A i \in Int : i \in Bits(16, 40961) <=> i \in {0, 13, 15}
  BY <1>1, <1>5, <1>6
<1>9. \A i \in Int : i \in Bits(16, 32773) <=> i \in {0, 2, 15}
  BY <1>1, <1>5, <1>7
<1>10. Bits(16, 40961) = {0, 13, 15} /\ Bits(16, 32773) = {0, 2, 15}
  BY <1>2, <1>8, <1>9
<1>11. Reflect(16, {0, 2, 15}) = {0, 13, 15}
  BY DEF Reflect
<1> QED BY <1>10, <1>11 DEF CRC16_MODBUS_POLY_REFLECTED, CRC16_MODBUS_POLY

\* One entry of the table is eight steps of the low byte; the high byte has
\* nothing to divide in them.
LEMMA TableStep ==
  ASSUME NEW x \in Words(16), NEW d \in Words(8)
  PROVE  Xor({i - 8 : i \in x \ Full(8)}, CRC16_MODBUS_TABLE[Xor(x, d) \cap Full(8)])
           = ByteReflected(CRC16_MODBUS_POLY_REFLECTED, Xor(x, d))
<1> DEFINE q == CRC16_MODBUS_POLY_REFLECTED
           y == Xor(x, d)
           low == y \cap Full(8)
           high == x \ Full(8)
<1>1. q \in Words(16)
  BY DEF CRC16_MODBUS_POLY_REFLECTED, Bits, Words, Full
<1>2. d \in SUBSET Full(8) /\ d \in Words(16)
  BY BytesAreWords DEF Words
<1>3. y \in Words(16)
  BY <1>2, XorWord
<1>4. low \in Words(16) /\ low \in SUBSET Full(8) /\ high \in Words(16)
  BY <1>3 DEF Words
<1>5. y = Xor(high, low)
  BY <1>2 DEF Xor
<1>6. high \cap Full(8) = {}
  OBVIOUS
<1> HIDE DEF q, y, low, high
<1>7. ByteReflected(q, y) = Xor(ByteReflected(q, high), ByteReflected(q, low))
  BY <1>1, <1>4, <1>5, ByteReflectedLinear
<1>8. ByteReflected(q, high) = {i - 8 : i \in high}
  BY <1>1, <1>4, <1>6, ByteShifted
<1>9. CRC16_MODBUS_TABLE[low] = ByteReflected(q, low)
  BY <1>4 DEF CRC16_MODBUS_TABLE, q
<1> QED BY <1>7, <1>8, <1>9 DEF q, y, low, high

LEMMA TableIsDivision ==
  ASSUME NEW data \in Seq(Words(8))
  PROVE  crc16_modbus_checksum(data) = RegisterReflected(16, data, CRC16_MODBUS_POLY, Full(16))
<1> DEFINE q == CRC16_MODBUS_POLY_REFLECTED
           Step(x, d) == Xor({i - 8 : i \in x \ Full(8)}, CRC16_MODBUS_TABLE[Xor(x, d) \cap Full(8)])
<1>1. q = Reflect(16, CRC16_MODBUS_POLY) /\ CRC16_MODBUS_POLY \in Words(16) /\ Full(16) \in Words(16)
  BY ModbusPolynomial, PolynomialsEnd DEF Words
<1>2. q \in Words(16)
  BY <1>1, ReflectWord
<1>3. \A x \in Words(16) : \A d \in Words(8) : Step(x, d) = ByteReflected(q, Xor(x, d))
  BY TableStep
<1> HIDE DEF q, Step
<1>4. PICK g : /\ IsRun(g, Words(16), Divider(16, q), Full(16), data)
               /\ RegisterReflected(16, data, CRC16_MODBUS_POLY, Full(16)) = g[Len(data)]
  BY <1>1, DivisionReflected
<1>5. PICK n \in Nat : n = Len(data)
  BY LenProperties
<1>6. g \in [0 .. n -> Words(16)] /\ g[0] = Full(16) /\ \A k \in 1 .. n : g[k] = Divider(16, q)[g[k - 1]][data[k]]
  BY <1>4, <1>5 DEF IsRun
<1>7. ASSUME NEW k \in 1 .. n PROVE g[k] = Step(g[k - 1], data[k])
  <2>1. k - 1 \in 0 .. n
    OBVIOUS
  <2>2. g[k - 1] \in Words(16) /\ data[k] \in Words(8)
    BY <1>5, <1>6, <2>1, ElementOfSeq
  <2>3. g[k] = ByteReflected(q, Xor(g[k - 1], data[k]))
    BY <1>2, <1>6, <2>2, DividerTakes
  <2> QED BY <1>3, <2>2, <2>3
<1> DEFINE P(h) == h = [k \in 0 .. n |-> IF k = 0 THEN Full(16) ELSE Step(h[k - 1], data[k])]
           after == CHOOSE h : P(h)
<1>8. P(g)
  <2>1. ASSUME NEW k \in 0 .. n PROVE g[k] = IF k = 0 THEN Full(16) ELSE Step(g[k - 1], data[k])
    <3>1. CASE k = 0
      BY <1>6, <3>1
    <3>2. CASE k # 0
      <4>1. k \in 1 .. n
        BY <1>5, <3>2
      <4> QED BY <1>7, <3>2, <4>1
    <3> QED BY <3>1, <3>2
  <2> QED BY <1>6, <2>1
<1>9. P(after)
  <2> HIDE DEF P
  <2> QED BY <1>8
<1>10. crc16_modbus_checksum(data) = after[n]
  BY <1>5 DEF crc16_modbus_checksum, Step
<1> HIDE DEF after
<1>11. after[0] = Full(16) /\ \A k \in 1 .. n : after[k] = Step(after[k - 1], data[k])
  BY <1>9
<1>12. Alongside(g, after, n)
  BY <1>6, <1>7, <1>11 DEF Alongside
<1>13. g[n] = after[n]
  BY <1>12, SameSteps
<1> QED BY <1>4, <1>5, <1>10, <1>13

-----------------------------------------------------------------------------
(* What an algorithm says is a word of its size, and tells two byte        *)
(* strings apart that differ in one place.                                 *)

Told(a, x, y) ==
  /\ calculate_checksum_simple(a, x) \in Words(8 * output_bytes(a))
  /\ OneApart(x, y) => calculate_checksum_simple(a, x) # calculate_checksum_simple(a, y)

LEMMA XorTells ==
  ASSUME NEW x \in Seq(Words(8)), NEW y \in Seq(Words(8))
  PROVE  xor_checksum(x) \in Words(8) /\ (OneApart(x, y) => xor_checksum(x) # xor_checksum(y))
<1> DEFINE f == [s \in Words(8) |-> [d \in Words(8) |-> Xor(s, d)]]
<1>1. PICK g : IsRun(g, Words(8), f, {}, x) /\ xor_checksum(x) = g[Len(x)]
  BY XorRuns
<1>2. PICK h : IsRun(h, Words(8), f, {}, y) /\ xor_checksum(y) = h[Len(y)]
  BY XorRuns
<1>3. f \in [Words(8) -> [Words(8) -> Words(8)]] /\ {} \in Words(8)
  BY XorWord DEF Words
<1>4. \A s \in Words(8) : \A d \in Words(8) : f[s][d] = Xor(s, d)
  OBVIOUS
<1> HIDE DEF f
<1>5. Tells(Words(8), Words(8), f)
  <2>1. \A s, t \in Words(8) : \A d \in Words(8) : f[s][d] = f[t][d] => s = t
    <3>1. \A s, t, d : Xor(s, d) = Xor(t, d) => s = t
      BY DEF Xor
    <3> QED BY <1>4, <3>1
  <2>2. \A s \in Words(8) : \A d, e \in Words(8) : f[s][d] = f[s][e] => d = e
    <3>1. \A s, d, e : Xor(s, d) = Xor(s, e) => d = e
      BY DEF Xor
    <3> QED BY <1>4, <3>1
  <2> QED BY <2>1, <2>2 DEF Tells
<1>6. Len(x) \in 0 .. Len(x)
  BY LenProperties
<1>7. g[Len(x)] \in Words(8)
  BY <1>1, <1>6 DEF IsRun
<1>8. OneApart(x, y) => g[Len(x)] # h[Len(y)]
  BY <1>1, <1>2, <1>3, <1>5, RunsDiffer
<1> QED BY <1>1, <1>2, <1>7, <1>8

LEMMA SumTells ==
  ASSUME NEW x \in Seq(Words(8)), NEW y \in Seq(Words(8))
  PROVE  sum8_checksum(x) \in Words(8) /\ (OneApart(x, y) => sum8_checksum(x) # sum8_checksum(y))
<1>1. PICK g : IsRun(g, Totals, Adder, 0, x) /\ sum8_checksum(x) = Bits(8, g[Len(x)])
  BY SumRuns
<1>2. PICK h : IsRun(h, Totals, Adder, 0, y) /\ sum8_checksum(y) = Bits(8, h[Len(y)])
  BY SumRuns
<1>3. Len(x) \in 0 .. Len(x) /\ Len(y) \in 0 .. Len(y) /\ 0 \in Totals
  BY LenProperties DEF Totals
<1>4. g[Len(x)] \in Totals /\ h[Len(y)] \in Totals
  BY <1>1, <1>2, <1>3 DEF IsRun
<1>5. OneApart(x, y) => g[Len(x)] # h[Len(y)]
  <2>1. Adder \in [Totals -> [Words(8) -> Totals]] /\ Tells(Totals, Words(8), Adder)
    BY AdderTells, Zenon
  <2>2. 0 \in Totals
    BY DEF Totals
  <2> QED BY <1>1, <1>2, <2>1, <2>2, RunsDiffer, Zenon
<1>6. \A n : Bits(8, n) \in Words(8)
  BY DEF Bits, Words, Full
<1>7. OneApart(x, y) => Bits(8, g[Len(x)]) # Bits(8, h[Len(y)])
  <2>1. PICK m \in 0 .. 255 : m = g[Len(x)]
    BY <1>4 DEF Totals
  <2>2. PICK n \in 0 .. 255 : n = h[Len(y)]
    BY <1>4 DEF Totals
  <2>3. Bits(8, m) = Bits(8, n) => m = n
    BY BitsOfNumber
  <2> QED BY <1>5, <2>1, <2>2, <2>3
<1> QED BY <1>1, <1>2, <1>6, <1>7, Zenon

LEMMA XorTold ==
  ASSUME NEW w \in Nat, NEW v \in Words(w)
  PROVE  /\ \A x \in Words(w) : Xor(x, v) \in Words(w)
         /\ \A x, y : Xor(x, v) = Xor(y, v) => x = y
         /\ \A x : Xor(x, {}) = x
<1>1. \A x \in Words(w) : Xor(x, v) \in Words(w)
  BY XorWord
<1>2. \A x, y : Xor(x, v) = Xor(y, v) => x = y
  BY DEF Xor
<1>3. \A x : Xor(x, {}) = x
  BY DEF Xor
<1> QED BY <1>1, <1>2, <1>3

LEMMA Crc8Tells ==
  ASSUME NEW x \in Seq(Words(8)), NEW y \in Seq(Words(8)),
         NEW p \in Words(8), 0 \in p, NEW init \in Words(8), NEW out \in Words(8), NEW reflect
  PROVE  /\ crc8_parameterised(x, p, init, out, reflect) \in Words(8)
         /\ OneApart(x, y) => crc8_parameterised(x, p, init, out, reflect) # crc8_parameterised(y, p, init, out, reflect)
<1>1. /\ RegisterReflected(8, x, p, init) \in Words(8)
      /\ RegisterNormal(8, x, p, init) \in Words(8)
  BY Divided
<1>2. ASSUME OneApart(x, y)
      PROVE  /\ RegisterReflected(8, x, p, init) # RegisterReflected(8, y, p, init)
             /\ RegisterNormal(8, x, p, init) # RegisterNormal(8, y, p, init)
  BY <1>2, ReflectedTells, NormalTells
<1>3. /\ \A z \in Words(8) : Xor(z, out) \in Words(8)
      /\ \A z, t : Xor(z, out) = Xor(t, out) => z = t
  BY XorTold
<1>4. CASE reflect
  <2>1. \A z : crc8_parameterised(z, p, init, out, reflect) = Xor(RegisterReflected(8, z, p, init), out)
    BY <1>4 DEF crc8_parameterised
  <2> QED BY <1>1, <1>2, <1>3, <2>1
<1>5. CASE ~reflect
  <2>1. \A z : crc8_parameterised(z, p, init, out, reflect) = Xor(RegisterNormal(8, z, p, init), out)
    BY <1>5 DEF crc8_parameterised
  <2> QED BY <1>1, <1>2, <1>3, <2>1
<1> QED BY <1>4, <1>5

LEMMA Crc16Forms ==
  ASSUME NEW data \in Seq(Words(8)), NEW p \in Words(16), NEW init \in Words(16)
  PROVE  /\ crc16_parameterised(data, p, init, {}, TRUE, TRUE) = RegisterReflected(16, data, p, init)
         /\ crc16_parameterised(data, p, init, {}, TRUE, FALSE) = Reflect(16, RegisterReflected(16, data, p, init))
         /\ crc16_parameterised(data, p, init, {}, FALSE, TRUE) = Reflect(16, RegisterNormal(16, data, p, init))
         /\ crc16_parameterised(data, p, init, {}, FALSE, FALSE) = RegisterNormal(16, data, p, init)
<1>1. \A x : Xor(x, {}) = x
  BY DEF Xor
<1> QED BY <1>1 DEF crc16_parameterised

LEMMA Crc8ParametersFit ==
  /\ DOMAIN Crc8Parameters = {"Crc8", "Crc8SaeJ1850", "Crc8Autosar", "Crc8Maxim", "Crc8Cdma2000", "Crc8DvbS2", "Crc8Nissan"}
  /\ \A a \in DOMAIN Crc8Parameters :
       /\ Crc8Parameters[a].poly \in {7, 29, 47, 49, 155, 213, 133}
       /\ Crc8Parameters[a].init \in Words(8) /\ Crc8Parameters[a].xor_out \in Words(8)
       /\ Crc8Parameters[a].reflect \in BOOLEAN
<1> DEFINE z == {}
           f == Full(8)
<1>1. z \in Words(8) /\ f \in Words(8)
  BY DEF Words
<1>2. DOMAIN Crc8Parameters = {"Crc8", "Crc8SaeJ1850", "Crc8Autosar", "Crc8Maxim", "Crc8Cdma2000", "Crc8DvbS2", "Crc8Nissan"}
  BY DEF Crc8Parameters
<1>3. ASSUME NEW a \in DOMAIN Crc8Parameters
      PROVE  /\ Crc8Parameters[a].poly \in {7, 29, 47, 49, 155, 213, 133}
             /\ Crc8Parameters[a].init \in {z, f} /\ Crc8Parameters[a].xor_out \in {z, f}
             /\ Crc8Parameters[a].reflect \in BOOLEAN
  <2>1. CASE a = "Crc8"
    <3>1. Crc8Parameters["Crc8"] = [poly |-> 7, init |-> {}, xor_out |-> {}, reflect |-> FALSE]
      BY DEF Crc8Parameters
    <3> QED BY <2>1, <3>1 DEF z, f
  <2>2. CASE a = "Crc8SaeJ1850"
    <3>1. Crc8Parameters["Crc8SaeJ1850"] = [poly |-> 29, init |-> Full(8), xor_out |-> Full(8), reflect |-> FALSE]
      BY DEF Crc8Parameters
    <3> QED BY <2>2, <3>1 DEF z, f
  <2>3. CASE a = "Crc8Autosar"
    <3>1. Crc8Parameters["Crc8Autosar"] = [poly |-> 47, init |-> Full(8), xor_out |-> Full(8), reflect |-> FALSE]
      BY DEF Crc8Parameters
    <3> QED BY <2>3, <3>1 DEF z, f
  <2>4. CASE a = "Crc8Maxim"
    <3>1. Crc8Parameters["Crc8Maxim"] = [poly |-> 49, init |-> {}, xor_out |-> {}, reflect |-> TRUE]
      BY DEF Crc8Parameters
    <3> QED BY <2>4, <3>1 DEF z, f
  <2>5. CASE a = "Crc8Cdma2000"
    <3>1. Crc8Parameters["Crc8Cdma2000"] = [poly |-> 155, init |-> Full(8), xor_out |-> {}, reflect |-> FALSE]
      BY DEF Crc8Parameters
    <3> QED BY <2>5, <3>1 DEF z, f
  <2>6. CASE a = "Crc8DvbS2"
    <3>1. Crc8Parameters["Crc8DvbS2"] = [poly |-> 213, init |-> {}, xor_out |-> {}, reflect |-> FALSE]
      BY DEF Crc8Parameters
    <3> QED BY <2>6, <3>1 DEF z, f
  <2>7. CASE a = "Crc8Nissan"
    <3>1. Crc8Parameters["Crc8Nissan"] = [poly |-> 133, init |-> {}, xor_out |-> {}, reflect |-> FALSE]
      BY DEF Crc8Parameters
    <3> QED BY <2>7, <3>1 DEF z, f
  <2> QED BY <1>2, <2>1, <2>2, <2>3, <2>4, <2>5, <2>6, <2>7
<1> HIDE DEF z, f
<1> QED BY <1>1, <1>2, <1>3

LEMMA AlgorithmTells ==
  ASSUME NEW a \in ALL_ALGORITHMS, NEW x \in Seq(Words(8)), NEW y \in Seq(Words(8))
  PROVE  Told(a, x, y)
<1>1. CASE a = "Xor"
  <2>1. \A z : calculate_checksum_simple(a, z) = xor_checksum(z)
    BY <1>1, Crc8ParametersFit DEF calculate_checksum_simple
  <2>2. 8 * output_bytes(a) = 8
    BY <1>1 DEF output_bytes
  <2> QED BY <2>1, <2>2, XorTells DEF Told
<1>2. CASE a = "Sum8"
  <2>1. \A z : calculate_checksum_simple(a, z) = sum8_checksum(z)
    BY <1>2, Crc8ParametersFit DEF calculate_checksum_simple
  <2>2. 8 * output_bytes(a) = 8
    BY <1>2 DEF output_bytes
  <2> QED BY <2>1, <2>2, SumTells DEF Told
<1>3. CASE a = "Crc16Modbus"
  <2>1. \A z : calculate_checksum_simple(a, z) = crc16_modbus_checksum(z)
    BY <1>3, Crc8ParametersFit DEF calculate_checksum_simple
  <2>2. 8 * output_bytes(a) = 16
    BY <1>3 DEF output_bytes
  <2>3. \A z \in Seq(Words(8)) : calculate_checksum_simple(a, z) = RegisterReflected(16, z, CRC16_MODBUS_POLY, Full(16))
    BY <2>1, TableIsDivision
  <2>4. CRC16_MODBUS_POLY \in Words(16) /\ 0 \in CRC16_MODBUS_POLY /\ Full(16) \in Words(16)
    BY PolynomialsEnd DEF Words
  <2>5. RegisterReflected(16, x, CRC16_MODBUS_POLY, Full(16)) \in Words(16)
    BY <2>4, Divided
  <2>6. OneApart(x, y) => RegisterReflected(16, x, CRC16_MODBUS_POLY, Full(16)) # RegisterReflected(16, y, CRC16_MODBUS_POLY, Full(16))
    BY <2>4, ReflectedTells
  <2> QED BY <2>2, <2>3, <2>5, <2>6 DEF Told
<1>4. CASE a = "Crc16Ccitt"
  <2>1. \A z : calculate_checksum_simple(a, z) = crc16_ccitt_checksum(z)
    BY <1>4, Crc8ParametersFit DEF calculate_checksum_simple
  <2>2. 8 * output_bytes(a) = 16
    BY <1>4 DEF output_bytes
  <2>3. CRC16_CCITT_POLY \in Words(16) /\ 0 \in CRC16_CCITT_POLY /\ Full(16) \in Words(16)
    BY PolynomialsEnd DEF Words
  <2>4. \A z \in Seq(Words(8)) : calculate_checksum_simple(a, z) = RegisterNormal(16, z, CRC16_CCITT_POLY, Full(16))
    <3>1. \A z \in Seq(Words(8)) : calculate_checksum_simple(a, z) = crc16_parameterised(z, CRC16_CCITT_POLY, Full(16), {}, FALSE, FALSE)
      BY <2>1, Zenon DEF crc16_ccitt_checksum
    <3>2. \A z \in Seq(Words(8)) :
            crc16_parameterised(z, CRC16_CCITT_POLY, Full(16), {}, FALSE, FALSE) = RegisterNormal(16, z, CRC16_CCITT_POLY, Full(16))
      BY <2>3, Crc16Forms, Zenon
    <3> QED BY <3>1, <3>2, Zenon
  <2>5. RegisterNormal(16, x, CRC16_CCITT_POLY, Full(16)) \in Words(16)
    BY <2>3, Divided
  <2>6. OneApart(x, y) => RegisterNormal(16, x, CRC16_CCITT_POLY, Full(16)) # RegisterNormal(16, y, CRC16_CCITT_POLY, Full(16))
    BY <2>3, NormalTells
  <2> QED BY <2>2, <2>4, <2>5, <2>6 DEF Told
<1>5. CASE a \in DOMAIN Crc8Parameters
  <2> DEFINE p == Crc8Parameters[a]
  <2>1. p.poly \in {7, 29, 47, 49, 155, 213, 133} /\ p.init \in Words(8) /\ p.xor_out \in Words(8) /\ p.reflect \in BOOLEAN
    BY <1>5, Crc8ParametersFit
  <2>2. a # "Xor" /\ a # "Sum8" /\ a # "Crc16Modbus" /\ a # "Crc16Ccitt"
    BY <1>5, Crc8ParametersFit
  <2>3. \A z : calculate_checksum_simple(a, z) = crc8_parameterised(z, Bits(8, p.poly), p.init, p.xor_out, p.reflect)
    BY <1>5, <2>2, Zenon DEF calculate_checksum_simple
  <2>4. 8 * output_bytes(a) = 8
    BY <2>2 DEF output_bytes
  <2> HIDE DEF p
  <2>5. Bits(8, p.poly) \in Words(8) /\ 0 \in Bits(8, p.poly)
    BY <2>1, PolynomialsEnd
  <2>6. /\ crc8_parameterised(x, Bits(8, p.poly), p.init, p.xor_out, p.reflect) \in Words(8)
        /\ OneApart(x, y) => crc8_parameterised(x, Bits(8, p.poly), p.init, p.xor_out, p.reflect)
                               # crc8_parameterised(y, Bits(8, p.poly), p.init, p.xor_out, p.reflect)
    <3>1. PICK q \in Words(8) : q = Bits(8, p.poly) /\ 0 \in q
      BY <2>5
    <3>2. PICK init \in Words(8) : init = p.init
      BY <2>1
    <3>4. PICK out \in Words(8) : out = p.xor_out
      BY <2>1
    <3>5. PICK reflect : reflect = p.reflect
      OBVIOUS
    <3>3. /\ crc8_parameterised(x, q, init, out, reflect) \in Words(8)
          /\ OneApart(x, y) => crc8_parameterised(x, q, init, out, reflect) # crc8_parameterised(y, q, init, out, reflect)
      BY <3>1, Crc8Tells
    <3> QED BY <3>1, <3>2, <3>3, <3>4, <3>5, Zenon
  <2> QED BY <2>3, <2>4, <2>6 DEF Told
<1> QED BY <1>1, <1>2, <1>3, <1>4, <1>5 DEF ALL_ALGORITHMS

-----------------------------------------------------------------------------
(* Sealing.                                                                *)

TwoBytes(high, low) == {i + 8 : i \in high} \cup low
HighByte(value) == {i - 8 : i \in value \ Full(8)}
LowByte(value) == value \cap Full(8)

LEMMA TwoBytesRead ==
  /\ \A v \in Words(16) : HighByte(v) \in Words(8) /\ LowByte(v) \in Words(8) /\ TwoBytes(HighByte(v), LowByte(v)) = v
  /\ \A v \in Words(8) : LowByte(v) = v
  /\ \A h, l, g, k \in Words(8) : TwoBytes(h, l) = TwoBytes(g, k) => h = g /\ l = k
<1>1. ASSUME NEW v \in Words(16)
      PROVE  HighByte(v) \in Words(8) /\ LowByte(v) \in Words(8) /\ TwoBytes(HighByte(v), LowByte(v)) = v
  <2>1. v \in SUBSET Int /\ \A i \in v : i \in 0 .. 15
    BY WordsAreSets
  <2>2. HighByte(v) \in Words(8) /\ LowByte(v) \in Words(8)
    BY <2>1 DEF HighByte, LowByte, Words, Full
  <2>3. \A i \in v \ Full(8) : i - 8 + 8 = i
    BY <2>1
  <2>4. {i + 8 : i \in HighByte(v)} = v \ Full(8)
    BY <2>3 DEF HighByte
  <2> QED BY <2>2, <2>4 DEF TwoBytes, LowByte
<1>2. \A v \in Words(8) : LowByte(v) = v
  BY DEF LowByte, Words
<1>3. ASSUME NEW h \in Words(8), NEW l \in Words(8), NEW g \in Words(8), NEW k \in Words(8), TwoBytes(h, l) = TwoBytes(g, k)
      PROVE  h = g /\ l = k
  <2>1. \A i \in h \cup l \cup g \cup k : i \in 0 .. 7
    BY WordsAreSets
  <2>2. \A i \in 0 .. 7 : i \in l <=> i \in k
    <3>1. \A i \in 0 .. 7 : i \in TwoBytes(h, l) <=> i \in l
      BY <2>1 DEF TwoBytes
    <3>2. \A i \in 0 .. 7 : i \in TwoBytes(g, k) <=> i \in k
      BY <2>1 DEF TwoBytes
    <3> QED BY <1>3, <3>1, <3>2
  <2>3. \A i \in 0 .. 7 : i \in h <=> i \in g
    <3>1. ASSUME NEW a \in Words(8), NEW b \in Words(8), NEW i \in 0 .. 7 PROVE i \in a <=> i + 8 \in TwoBytes(a, b)
      <4>1. i + 8 \notin b /\ \A j \in a : j \in Int /\ (i + 8 = j + 8 => i = j)
        BY WordsAreSets
      <4> QED BY <4>1 DEF TwoBytes
    <3> QED BY <1>3, <3>1
  <2>4. h \in SUBSET (0 .. 7) /\ g \in SUBSET (0 .. 7) /\ l \in SUBSET (0 .. 7) /\ k \in SUBSET (0 .. 7)
    BY <2>1
  <2> QED BY <2>2, <2>3, <2>4
<1> QED BY <1>1, <1>2, <1>3

\* The bytes of a sealed frame that hold the checksum, as a word.
TailRead(spec, data, m) ==
  IF spec.byte_length = 1 THEN data[m + 1]
  ELSE IF spec.big_endian THEN TwoBytes(data[m + 1], data[m + 2]) ELSE TwoBytes(data[m + 2], data[m + 1])

LEMMA SealSpecFields ==
  ASSUME NEW spec \in SealSpecs
  PROVE  /\ spec.algorithm \in ALL_ALGORITHMS /\ spec.byte_length \in {1, 2}
         /\ spec.byte_length = output_bytes(spec.algorithm)
         /\ spec.position = -spec.byte_length /\ spec.calc_start_byte = 0
         /\ spec.calc_end_byte = -spec.byte_length /\ spec.big_endian \in BOOLEAN
<1>1. PICK a \in ALL_ALGORITHMS, e \in BOOLEAN : spec = SealSpec(a, e)
  <2> DEFINE S == {SealSpec(a, e) : a \in ALL_ALGORITHMS, e \in BOOLEAN}
  <2>1. SealSpecs = {z \in S : z.big_endian => z.byte_length = 2}
    BY DEF SealSpecs
  <2> HIDE DEF S
  <2>2. spec \in S
    BY <2>1
  <2> QED BY <2>2 DEF S
<1>2. output_bytes(a) \in {1, 2}
  BY DEF output_bytes
<1> QED BY <1>1, <1>2 DEF SealSpec

\* Where a seal is looked for, and over what.
LEMMA SealRead ==
  ASSUME NEW spec \in SealSpecs, NEW m \in Nat \ {0}, NEW data \in Seq(Words(8)), Len(data) = m + spec.byte_length
  PROVE  validate_checksum(data, spec)
           <=> TailRead(spec, data, m) = calculate_checksum_simple(spec.algorithm, SubSeq(data, 1, m))
<1>0. /\ spec.byte_length \in {1, 2} /\ spec.position = -spec.byte_length /\ spec.calc_start_byte = 0
      /\ spec.calc_end_byte = -spec.byte_length
  BY SealSpecFields
<1>1. PICK n \in {1, 2} : n = spec.byte_length /\ spec.position = -n /\ spec.calc_start_byte = 0 /\ spec.calc_end_byte = -n
  BY <1>0
<1>2. PICK L \in Nat : L = Len(data) /\ L = m + n
  BY <1>1
<1>3. resolve_byte_index(spec.position, L) = m
  BY <1>1, <1>2 DEF resolve_byte_index
<1>4. Fits(L, spec)
  BY <1>1, <1>2, <1>3 DEF Fits
<1>5. Clamped(spec.calc_start_byte, L) = 0
  BY <1>1, <1>2 DEF Clamped, resolve_byte_index
<1>6. Clamped(spec.calc_end_byte, L) = m
  BY <1>1, <1>2 DEF Clamped, resolve_byte_index
<1>7. calculate_checksum(data, spec) = calculate_checksum_simple(spec.algorithm, SubSeq(data, 1, m))
  <2>1. ~(0 >= m) /\ 0 + 1 = 1
    OBVIOUS
  <2> QED BY <1>2, <1>5, <1>6, <2>1, Zenon DEF calculate_checksum, Slice
<1>8. extract_checksum(data, spec) = TailRead(spec, data, m)
  <2>1. spec.byte_length # 0 /\ m + 1 + 1 = m + 2
    BY <1>1
  <2> QED BY <1>2, <1>3, <1>4, <2>1, Zenon DEF extract_checksum, TailRead, TwoBytes
<1> QED BY <1>7, <1>8 DEF validate_checksum

LEMMA Beginning ==
  ASSUME NEW s \in Seq(Words(8)), NEW m \in Nat, m <= Len(s)
  PROVE  /\ SubSeq(s, 1, m) \in Seq(Words(8)) /\ Len(SubSeq(s, 1, m)) = m
         /\ \A i \in 1 .. m : SubSeq(s, 1, m)[i] = s[i]
<1>1. \A i \in 1 .. m : s[i] \in Words(8) /\ 1 + i - 1 = i /\ i \in 1 .. m - 1 + 1
  BY LenProperties, ElementOfSeq
<1>2. /\ SubSeq(s, 1, m) \in Seq(Words(8)) /\ Len(SubSeq(s, 1, m)) = IF 1 <= m THEN m - 1 + 1 ELSE 0
      /\ \A i \in 1 .. m - 1 + 1 : SubSeq(s, 1, m)[i] = s[1 + i - 1]
  BY <1>1, SubSeqProperties
<1> QED BY <1>1, <1>2

\* The checksum as it is appended.
SealBytes(spec, value) ==
  IF spec.byte_length = 1 THEN <<LowByte(value)>>
  ELSE IF spec.big_endian THEN <<HighByte(value), LowByte(value)>> ELSE <<LowByte(value), HighByte(value)>>

LEMMA SealedParts ==
  ASSUME NEW spec \in SealSpecs, NEW body \in Seq(Words(8))
  PROVE  /\ Sealed(body, spec) \in Seq(Words(8)) /\ Len(Sealed(body, spec)) = Len(body) + spec.byte_length
         /\ SubSeq(Sealed(body, spec), 1, Len(body)) = body
         /\ TailRead(spec, Sealed(body, spec), Len(body)) = calculate_checksum_simple(spec.algorithm, body)
<1> DEFINE value == calculate_checksum_simple(spec.algorithm, body)
           tail  == SealBytes(spec, value)
           s     == Sealed(body, spec)
<1>1. s = body \o tail
  BY DEF Sealed, SealBytes, LowByte, HighByte
<1>2. PICK m \in Nat : m = Len(body)
  BY LenProperties
<1>3. spec.algorithm \in ALL_ALGORITHMS /\ spec.byte_length \in {1, 2} /\ spec.byte_length = output_bytes(spec.algorithm)
  BY SealSpecFields
<1>4. value \in Words(8 * spec.byte_length)
  BY <1>3, AlgorithmTells DEF Told
<1> HIDE DEF s, value
<1>5. CASE spec.byte_length = 1
  <2>1. value \in Words(8)
    BY <1>4, <1>5
  <2>2. tail = <<value>>
    BY <1>5, <2>1, TwoBytesRead DEF SealBytes
  <2>3. tail \in Seq(Words(8)) /\ Len(tail) = 1 /\ tail[1] = value
    BY <2>1, <2>2
  <2> HIDE DEF tail
  <2>4. /\ s \in Seq(Words(8)) /\ Len(s) = m + 1
        /\ \A i \in 1 .. m + 1 : s[i] = IF i <= m THEN body[i] ELSE tail[i - m]
    <3>1. /\ body \o tail \in Seq(Words(8)) /\ Len(body \o tail) = Len(body) + Len(tail)
          /\ \A i \in 1 .. Len(body) + Len(tail) :
               (body \o tail)[i] = IF i <= Len(body) THEN body[i] ELSE tail[i - Len(body)]
      BY <2>3, ConcatProperties, Zenon
    <3>2. Len(body) = m /\ Len(tail) = 1
      BY <1>2, <2>3
    <3> QED BY <1>1, <3>1, <3>2, Zenon
  <2>5. s[m + 1] = value
    <3>1. m + 1 \in 1 .. m + 1 /\ ~(m + 1 <= m) /\ m + 1 - m = 1
      OBVIOUS
    <3> QED BY <2>3, <2>4, <3>1
  <2>6. SubSeq(s, 1, m) = body
    <3>1. /\ SubSeq(s, 1, m) \in Seq(Words(8)) /\ Len(SubSeq(s, 1, m)) = m
          /\ \A i \in 1 .. m : SubSeq(s, 1, m)[i] = s[i]
      BY <2>4, Beginning
    <3>2. \A i \in 1 .. m : SubSeq(s, 1, m)[i] = body[i]
      BY <2>4, <3>1
    <3> QED BY <1>2, <3>1, <3>2, SeqEqual
  <2>7. TailRead(spec, s, m) = value
    BY <1>5, <2>5 DEF TailRead
  <2> QED BY <1>2, <1>5, <2>4, <2>6, <2>7 DEF s, value
<1>6. CASE spec.byte_length = 2
  <2>1. value \in Words(16)
    BY <1>4, <1>6
  <2>2. HighByte(value) \in Words(8) /\ LowByte(value) \in Words(8) /\ TwoBytes(HighByte(value), LowByte(value)) = value
    BY <2>1, TwoBytesRead
  <2>3. /\ tail \in Seq(Words(8)) /\ Len(tail) = 2
        /\ spec.big_endian => tail[1] = HighByte(value) /\ tail[2] = LowByte(value)
        /\ ~spec.big_endian => tail[1] = LowByte(value) /\ tail[2] = HighByte(value)
    <3> DEFINE h == HighByte(value)
               l == LowByte(value)
    <3>1. tail = IF spec.big_endian THEN <<h, l>> ELSE <<l, h>>
      BY <1>6 DEF SealBytes
    <3>2. h \in Words(8) /\ l \in Words(8)
      BY <2>2
    <3> HIDE DEF h, l, tail
    <3>3. CASE spec.big_endian
      BY <3>1, <3>2, <3>3 DEF h, l
    <3>4. CASE ~spec.big_endian
      BY <3>1, <3>2, <3>4 DEF h, l
    <3> QED BY <3>3, <3>4
  <2> HIDE DEF tail
  <2>4. /\ s \in Seq(Words(8)) /\ Len(s) = m + 2
        /\ \A i \in 1 .. m + 2 : s[i] = IF i <= m THEN body[i] ELSE tail[i - m]
    <3>1. /\ body \o tail \in Seq(Words(8)) /\ Len(body \o tail) = Len(body) + Len(tail)
          /\ \A i \in 1 .. Len(body) + Len(tail) :
               (body \o tail)[i] = IF i <= Len(body) THEN body[i] ELSE tail[i - Len(body)]
      BY <2>3, ConcatProperties, Zenon
    <3>2. Len(body) = m /\ Len(tail) = 2
      BY <1>2, <2>3
    <3> QED BY <1>1, <3>1, <3>2, Zenon
  <2>5. s[m + 1] = tail[1] /\ s[m + 2] = tail[2]
    <3>1. m + 1 \in 1 .. m + 2 /\ ~(m + 1 <= m) /\ m + 1 - m = 1 /\ m + 2 \in 1 .. m + 2 /\ ~(m + 2 <= m) /\ m + 2 - m = 2
      OBVIOUS
    <3> QED BY <2>4, <3>1
  <2>6. SubSeq(s, 1, m) = body
    <3>1. /\ SubSeq(s, 1, m) \in Seq(Words(8)) /\ Len(SubSeq(s, 1, m)) = m
          /\ \A i \in 1 .. m : SubSeq(s, 1, m)[i] = s[i]
      BY <2>4, Beginning
    <3>2. \A i \in 1 .. m : SubSeq(s, 1, m)[i] = body[i]
      BY <2>4, <3>1
    <3> QED BY <1>2, <3>1, <3>2, SeqEqual
  <2>7. TailRead(spec, s, m) = value
    BY <1>6, <2>2, <2>3, <2>5 DEF TailRead
  <2> QED BY <1>2, <1>6, <2>4, <2>6, <2>7 DEF s, value
<1> QED BY <1>3, <1>5, <1>6

LEMMA FlippedOnce ==
  ASSUME NEW data \in Seq(Words(8)), NEW i \in 1 .. Len(data), NEW bit \in Full(8)
  PROVE  /\ Flipped(data, i, bit) \in Seq(Words(8)) /\ Len(Flipped(data, i, bit)) = Len(data)
         /\ \A k \in 1 .. Len(data) : k # i => Flipped(data, i, bit)[k] = data[k]
         /\ Flipped(data, i, bit)[i] # data[i]
<1> DEFINE e == Xor(data[i], {bit})
<1>1. data[i] \in Words(8)
  BY ElementOfSeq
<1>2. e \in Words(8)
  <2>1. {bit} \in Words(8)
    BY DEF Words
  <2> QED BY <1>1, <2>1, XorWord
<1>3. e # data[i]
  BY DEF Xor
<1>4. Flipped(data, i, bit) = [data EXCEPT ![i] = e]
  BY DEF Flipped
<1> HIDE DEF e
<1>5. /\ [data EXCEPT ![i] = e] \in Seq(Words(8)) /\ Len([data EXCEPT ![i] = e]) = Len(data)
      /\ \A j \in 1 .. Len(data) : [data EXCEPT ![i] = e][j] = IF j = i THEN e ELSE data[j]
  BY <1>2, ExceptSeq
<1> QED BY <1>3, <1>4, <1>5

\* A sealed frame validates; a bit flipped in the body makes it another checksum,
\* one flipped in the checksum makes the checksum another.
LEMMA SealsTell ==
  ASSUME NEW spec \in SealSpecs, NEW body \in Seq(Words(8)), body # <<>>
  PROVE  /\ validate_checksum(Sealed(body, spec), spec)
         /\ \A i \in 1 .. Len(Sealed(body, spec)), bit \in Full(8) :
              ~validate_checksum(Flipped(Sealed(body, spec), i, bit), spec)
<1> DEFINE s == Sealed(body, spec)
           Value(data) == calculate_checksum_simple(spec.algorithm, data)
<1>1. PICK m \in Nat \ {0} : m = Len(body)
  BY EmptySeq
<1>2. PICK n \in {1, 2} : n = spec.byte_length
  BY SealSpecFields
<1>3. s \in Seq(Words(8)) /\ Len(s) = m + n /\ SubSeq(s, 1, m) = body /\ TailRead(spec, s, m) = Value(body)
  BY <1>1, <1>2, SealedParts
<1> HIDE DEF s
<1>4. validate_checksum(s, spec)
  BY <1>2, <1>3, SealRead
<1>5. ASSUME NEW i \in 1 .. m + n, NEW bit \in Full(8)
      PROVE  ~validate_checksum(Flipped(s, i, bit), spec)
  <2> DEFINE t == Flipped(s, i, bit)
  <2>1. /\ t \in Seq(Words(8)) /\ Len(t) = m + n
        /\ \A k \in 1 .. m + n : k # i => t[k] = s[k]
        /\ t[i] # s[i]
    <3>1. Len(s) = m + n /\ i \in 1 .. Len(s)
      BY <1>3
    <3>2. /\ t \in Seq(Words(8)) /\ Len(t) = Len(s)
          /\ \A k \in 1 .. Len(s) : k # i => t[k] = s[k]
          /\ t[i] # s[i]
      BY <1>3, <3>1, FlippedOnce, Zenon
    <3> QED BY <3>1, <3>2, Zenon
  <2> HIDE DEF t
  <2>2. validate_checksum(t, spec) <=> TailRead(spec, t, m) = Value(SubSeq(t, 1, m))
    BY <1>2, <2>1, SealRead
  <2>3. /\ SubSeq(t, 1, m) \in Seq(Words(8)) /\ Len(SubSeq(t, 1, m)) = m
        /\ \A k \in 1 .. m : SubSeq(t, 1, m)[k] = t[k]
    BY <2>1, Beginning
  <2>4. \A k \in 1 .. m : body[k] = s[k]
    <3>1. \A k \in 1 .. m : SubSeq(s, 1, m)[k] = s[k]
      BY <1>3, Beginning
    <3> QED BY <1>3, <3>1
  <2>5. CASE i <= m
    <3>1. i \in 1 .. m /\ SubSeq(t, 1, m)[i] # body[i]
      BY <2>1, <2>3, <2>4, <2>5
    <3>2. \A k \in 1 .. m : k # i => SubSeq(t, 1, m)[k] = body[k]
      BY <2>1, <2>3, <2>4
    <3>3. OneApart(body, SubSeq(t, 1, m))
      BY <1>1, <2>3, <3>1, <3>2 DEF OneApart
    <3>4. Value(body) # Value(SubSeq(t, 1, m))
      BY <2>3, <3>3, SealSpecFields, AlgorithmTells DEF Told
    <3>5. TailRead(spec, t, m) = TailRead(spec, s, m)
      <4>1. m + 1 # i /\ m + 2 # i /\ m + 1 \in 1 .. m + n /\ (n = 2 => m + 2 \in 1 .. m + n)
        BY <2>5
      <4>2. t[m + 1] = s[m + 1] /\ (n = 2 => t[m + 2] = s[m + 2])
        BY <2>1, <4>1
      <4> QED BY <1>2, <4>2 DEF TailRead
    <3> QED BY <1>3, <2>2, <3>4, <3>5 DEF t
  <2>6. CASE i > m
    <3>1. SubSeq(t, 1, m) = body
      <4>1. \A k \in 1 .. m : SubSeq(t, 1, m)[k] = body[k]
        BY <2>1, <2>3, <2>4, <2>6
      <4> QED BY <1>1, <2>3, <4>1, SeqEqual
    <3>2. TailRead(spec, t, m) # TailRead(spec, s, m)
      <4>1. CASE n = 1
        <5>1. i = m + 1
          BY <2>6, <4>1
        <5> QED BY <1>2, <2>1, <4>1, <5>1 DEF TailRead
      <4>2. CASE n = 2
        <5>1. i \in {m + 1, m + 2} /\ m + 1 \in 1 .. m + n /\ m + 2 \in 1 .. m + n /\ m + 1 # m + 2
          BY <2>6, <4>2
        <5>2. t[m + 1] # s[m + 1] \/ t[m + 2] # s[m + 2]
          BY <2>1, <5>1
        <5>3. t[m + 1] \in Words(8) /\ t[m + 2] \in Words(8) /\ s[m + 1] \in Words(8) /\ s[m + 2] \in Words(8)
          BY <1>3, <2>1, <5>1, ElementOfSeq
        <5>4. /\ TwoBytes(t[m + 1], t[m + 2]) # TwoBytes(s[m + 1], s[m + 2])
              /\ TwoBytes(t[m + 2], t[m + 1]) # TwoBytes(s[m + 2], s[m + 1])
          BY <5>2, <5>3, TwoBytesRead
        <5> QED BY <1>2, <4>2, <5>4 DEF TailRead
      <4> QED BY <4>1, <4>2
    <3> QED BY <1>3, <2>2, <3>1, <3>2 DEF t
  <2> QED BY <2>5, <2>6
<1> QED BY <1>3, <1>4, <1>5 DEF s

IsModbusSeal(spec) == spec.byte_length = 2 /\ ~spec.big_endian /\ spec.algorithm = "Crc16Modbus"

LEMMA ModbusSpec ==
  ASSUME NEW spec, spec = SealSpec("Crc16Modbus", FALSE)
  PROVE  IsModbusSeal(spec)
BY DEF SealSpec, output_bytes, IsModbusSeal

LEMMA ModbusSeal ==
  ASSUME NEW spec \in SealSpecs, IsModbusSeal(spec), NEW body \in Seq(Words(8))
  PROVE  crc16_modbus_valid(Sealed(body, spec)) <=> Len(body) >= 2
<1> DEFINE s == Sealed(body, spec)
<1>1. spec.byte_length = 2 /\ ~spec.big_endian /\ spec.algorithm = "Crc16Modbus"
  BY DEF IsModbusSeal
<1>2. PICK m \in Nat : m = Len(body)
  BY LenProperties
<1>3. /\ Len(s) = m + 2 /\ SubSeq(s, 1, m) = body
      /\ TailRead(spec, s, m) = calculate_checksum_simple(spec.algorithm, body)
  BY <1>1, <1>2, SealedParts
<1> HIDE DEF s
<1>4. calculate_checksum_simple(spec.algorithm, body) = crc16_modbus_checksum(body)
  BY <1>1, Crc8ParametersFit DEF calculate_checksum_simple
<1>5. TailRead(spec, s, m) = s[m + 1] \cup {i + 8 : i \in s[m + 2]}
  <2>1. ~spec.big_endian /\ spec.byte_length # 1
    <3>1. spec.byte_length # 1
      BY <1>1
    <3> QED BY <1>1, <3>1, Zenon
  <2>2. TailRead(spec, s, m) = TwoBytes(s[m + 2], s[m + 1])
    BY <2>1, Zenon DEF TailRead
  <2>3. TwoBytes(s[m + 2], s[m + 1]) = s[m + 1] \cup {i + 8 : i \in s[m + 2]}
    BY DEF TwoBytes
  <2> QED BY <2>2, <2>3, Zenon
<1>6. m + 2 - 2 = m /\ m + 2 - 1 = m + 1 /\ (m + 2 >= 4 <=> m >= 2)
  OBVIOUS
<1>7. crc16_modbus_valid(s) <=> m >= 2 /\ crc16_modbus_checksum(SubSeq(s, 1, m)) = s[m + 1] \cup {i + 8 : i \in s[m + 2]}
  <2>1. crc16_modbus_valid(s) <=>
          /\ Len(s) >= 4
          /\ crc16_modbus_checksum(SubSeq(s, 1, Len(s) - 2)) = s[Len(s) - 1] \cup {i + 8 : i \in s[Len(s)]}
    BY Zenon DEF crc16_modbus_valid
  <2>2. Len(s) = m + 2 /\ Len(s) - 2 = m /\ Len(s) - 1 = m + 1 /\ (Len(s) >= 4 <=> m >= 2)
    BY <1>3
  <2> QED BY <2>1, <2>2, Zenon
<1> QED BY <1>2, <1>3, <1>4, <1>5, <1>7 DEF s

LEMMA ModesAgree ==
  ASSUME NEW body \in Seq(Words(8)), NEW p \in Words(16), NEW init \in Words(16)
  PROVE  /\ crc16_parameterised(body, p, init, {}, FALSE, TRUE)
              = crc16_parameterised(Mirrored(body), p, Reflect(16, init), {}, TRUE, TRUE)
         /\ crc16_parameterised(body, p, init, {}, FALSE, FALSE)
              = crc16_parameterised(Mirrored(body), p, Reflect(16, init), {}, TRUE, FALSE)
<1> DEFINE r == RegisterReflected(16, Mirrored(body), p, Reflect(16, init))
<1>1. Mirrored(body) \in Seq(Words(8)) /\ Reflect(16, init) \in Words(16)
  BY MirroredBytes, ReflectWord
<1>2. RegisterNormal(16, body, p, init) = Reflect(16, r)
  BY DivisionMirrored
<1>3. r \in SUBSET Int
  BY <1>1, Divided, WordsAreSets
<1>4. Reflect(16, Reflect(16, r)) = r
  BY <1>3, ReflectedTwice
<1>5. /\ crc16_parameterised(body, p, init, {}, FALSE, TRUE) = Reflect(16, RegisterNormal(16, body, p, init))
      /\ crc16_parameterised(body, p, init, {}, FALSE, FALSE) = RegisterNormal(16, body, p, init)
  BY Crc16Forms
<1>6. /\ crc16_parameterised(Mirrored(body), p, Reflect(16, init), {}, TRUE, TRUE) = r
      /\ crc16_parameterised(Mirrored(body), p, Reflect(16, init), {}, TRUE, FALSE) = Reflect(16, r)
  BY <1>1, Crc16Forms
<1> QED BY <1>2, <1>4, <1>5, <1>6, Zenon

\* What SealHolds says of one body.
BodySealed(body, mirror) ==
  /\ \A spec \in SealSpecs :
       /\ validate_checksum(Sealed(body, spec), spec)
       /\ spec = SealSpec("Crc16Modbus", FALSE) => (crc16_modbus_valid(Sealed(body, spec)) <=> Len(body) >= 2)
       /\ \A i \in 1 .. Len(Sealed(body, spec)), bit \in Full(8) :
            ~validate_checksum(Flipped(Sealed(body, spec), i, bit), spec)
  /\ \A poly \in {CRC16_MODBUS_POLY, CRC16_CCITT_POLY}, init \in {{}, {0, 9}, Full(16)}, reflect_out \in BOOLEAN :
       crc16_parameterised(body, poly, init, {}, FALSE, reflect_out)
         = crc16_parameterised(mirror, poly, Reflect(16, init), {}, TRUE, reflect_out)
  /\ crc16_modbus_checksum(body) = crc16_parameterised(body, CRC16_MODBUS_POLY, Full(16), {}, TRUE, TRUE)

\* A frame sealed with any of the algorithms validates, and not once a bit of
\* it has flipped, whatever the frame and its length; crc16_modbus_valid and
\* crc16_parameterised agree with the table, and the two bit orders with one
\* another.
THEOREM SealsHold == SampleSpec => []SealHolds
<1>1. ASSUME sample \in Seq(Frames), Len(sample) = 1
      PROVE  BodySealed(Last(sample), [i \in 1 .. Len(Last(sample)) |-> Reflect(8, Last(sample)[i])])
  <2> DEFINE body == Last(sample)
  <2>1. body \in Seq(Words(8)) /\ body # <<>>
    <3>1. body = sample[1] /\ 1 \in 1 .. Len(sample)
      BY <1>1 DEF Last
    <3>2. body \in Frames
      BY <1>1, <3>1, ElementOfSeq
    <3> QED BY <3>2, SampleAssumption DEF Words
  <2> HIDE DEF body
  <2>2. Mirrored(body) = [i \in 1 .. Len(body) |-> Reflect(8, body[i])]
    BY DEF Mirrored
  <2>3. ASSUME NEW spec \in SealSpecs
        PROVE  /\ validate_checksum(Sealed(body, spec), spec)
               /\ spec = SealSpec("Crc16Modbus", FALSE) => (crc16_modbus_valid(Sealed(body, spec)) <=> Len(body) >= 2)
               /\ \A i \in 1 .. Len(Sealed(body, spec)), bit \in Full(8) :
                    ~validate_checksum(Flipped(Sealed(body, spec), i, bit), spec)
    <3>1. /\ validate_checksum(Sealed(body, spec), spec)
          /\ \A i \in 1 .. Len(Sealed(body, spec)), bit \in Full(8) :
               ~validate_checksum(Flipped(Sealed(body, spec), i, bit), spec)
      BY <2>1, SealsTell
    <3>2. ASSUME spec = SealSpec("Crc16Modbus", FALSE)
          PROVE  crc16_modbus_valid(Sealed(body, spec)) <=> Len(body) >= 2
      <4>1. IsModbusSeal(spec)
        BY <3>2, ModbusSpec, Zenon
      <4> QED BY <2>1, <4>1, ModbusSeal, Zenon
    <3> QED BY <3>1, <3>2, Zenon
  <2>4. ASSUME NEW poly \in {CRC16_MODBUS_POLY, CRC16_CCITT_POLY}, NEW init \in {{}, {0, 9}, Full(16)}, NEW reflect_out \in BOOLEAN
        PROVE  crc16_parameterised(body, poly, init, {}, FALSE, reflect_out)
                 = crc16_parameterised(Mirrored(body), poly, Reflect(16, init), {}, TRUE, reflect_out)
    <3>1. poly \in Words(16)
      BY PolynomialsEnd
    <3>2. init \in Words(16)
      BY DEF Words, Full
    <3>3. /\ crc16_parameterised(body, poly, init, {}, FALSE, TRUE)
               = crc16_parameterised(Mirrored(body), poly, Reflect(16, init), {}, TRUE, TRUE)
          /\ crc16_parameterised(body, poly, init, {}, FALSE, FALSE)
               = crc16_parameterised(Mirrored(body), poly, Reflect(16, init), {}, TRUE, FALSE)
      BY <2>1, <3>1, <3>2, ModesAgree, Zenon
    <3>4. CASE reflect_out = TRUE
      BY <3>3, <3>4, Zenon
    <3>5. CASE reflect_out = FALSE
      BY <3>3, <3>5, Zenon
    <3> QED BY <3>4, <3>5, Zenon
  <2>5. crc16_modbus_checksum(body) = crc16_parameterised(body, CRC16_MODBUS_POLY, Full(16), {}, TRUE, TRUE)
    <3>1. CRC16_MODBUS_POLY \in Words(16) /\ Full(16) \in Words(16)
      BY PolynomialsEnd DEF Words
    <3>2. crc16_parameterised(body, CRC16_MODBUS_POLY, Full(16), {}, TRUE, TRUE) = RegisterReflected(16, body, CRC16_MODBUS_POLY, Full(16))
      BY <2>1, <3>1, Crc16Forms, Zenon
    <3> QED BY <2>1, <3>2, TableIsDivision, Zenon
  <2>6. BodySealed(body, Mirrored(body))
    BY <2>3, <2>4, <2>5, Zenon DEF BodySealed
  <2> QED BY <2>2, <2>6, Zenon DEF body
<1>4. sample \in Seq(Frames) => SealHolds
  BY <1>1, Zenon DEF SealHolds, BodySealed
<1>2. SampleInit => sample \in Seq(Frames)
  BY DEF SampleInit
<1>3. sample \in Seq(Frames) /\ [SampleNext]_sample => (sample \in Seq(Frames))'
  BY AppendProperties DEF SampleNext, Gather
<1> QED BY <1>2, <1>3, <1>4, PTL DEF SampleSpec
=============================================================================
