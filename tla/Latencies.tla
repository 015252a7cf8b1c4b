----------------------------- MODULE Latencies -----------------------------
(***************************************************************************)
(* Latencies (crates/wiretap-protocol/src/testpattern.rs): round-trip      *)
(* times, and the percentiles a run reports of them.                       *)
(***************************************************************************)
EXTENDS Integers, SequencesExt

CONSTANTS
  Times,      \* the round-trip times, in microseconds
  MaxSamples  \* bound: samples recorded

ASSUME LatencyBounds == Times \subseteq Nat /\ MaxSamples \in Nat

VARIABLE samples

Percents == {50, 95, 99}

LatencyInit == samples = <<>>

record(rtt_us) ==
  /\ Len(samples) < MaxSamples
  /\ samples' = Append(samples, rtt_us)

\* stats sorts first, so every collection of samples is covered when they are
\* recorded slowest first, the order furthest from sorted.
SlowestFirst(rtt) == \A t \in ToSet(samples) : rtt <= t

LatencyNext == \E rtt \in Times : SlowestFirst(rtt) /\ record(rtt)

LatencySpec == LatencyInit /\ [][LatencyNext]_samples

-----------------------------------------------------------------------------
\* sort_unstable: the k-th place goes to the sample that k - 1 others come
\* before; which of two equal ones comes first makes no difference.
ComesBefore(recorded, j, i) ==
  recorded[j] < recorded[i] \/ (recorded[j] = recorded[i] /\ j > i)
SortedPlace(recorded, i) == 1 + Cardinality({j \in 1 .. Len(recorded) : ComesBefore(recorded, j, i)})
Sorted(recorded) ==
  [k \in 1 .. Len(recorded) |->
     recorded[CHOOSE i \in 1 .. Len(recorded) : SortedPlace(recorded, i) = k]]

\* Variant: p * n is truncated, which gives the sample below.
RankBelow(n, p) == IF n * p < 100 THEN 1 ELSE (n * p) \div 100

\* Nearest rank, counted from one: ceil(p * n / 100), within 1 .. n.
Rank(n, p) ==
  LET up == (n * p + 99) \div 100
  IN  CASE up < 1 -> 1 [] up > n -> n [] OTHER -> up

\* stats, of a recording that is not empty.
Stats(recorded) ==
  LET s == Sorted(recorded)
      n == Len(recorded)
  IN  [min_us  |-> s[1],
       max_us  |-> s[n],
       mean_us |-> FoldSeq(+, 0, s) \div n,
       percent |-> [p \in Percents |-> s[Rank(n, p)]],
       count   |-> n]

AtMost(t) == Cardinality({i \in 1 .. Len(samples) : samples[i] <= t})
Below(t)  == Cardinality({i \in 1 .. Len(samples) : samples[i] < t})

\* The p-th percentile is the least sample that at least p percent of the
\* samples do not exceed: it neither understates the tail nor overstates it.
NearestRank ==
  samples # <<>> =>
    \A p \in Percents :
      LET t == Stats(samples).percent[p] IN
      /\ t \in ToSet(samples)
      /\ 100 * AtMost(t) >= p * Len(samples)
      /\ 100 * Below(t) < p * Len(samples)
=============================================================================
