--------------------------- MODULE MirrorTracker ---------------------------
(***************************************************************************)
(* MirrorTracker (crates/wiretap-catalog/src/mirror.rs): does a frame that *)
(* mirrors another still agree with it?                                    *)
(*                                                                         *)
(* Each mirror keeps the newest sample of either side and compares the two *)
(* whenever one arrives, on the bytes it inherits. Time is in milliseconds *)
(* or any other unit, as long as the intervals use the same one.           *)
(***************************************************************************)
EXTENDS Integers, Sequences

CONSTANTS
  Absent,             \* an absent value
  Catalog,          \* frame id -> [mirror_of, signals, interval]
  Mask,             \* frame_id_mask plus one, a power of two, or Absent
  DEFAULT_INTERVAL  \* the interval of a source that declares none

MISMATCH_LATCH == 3

ASSUME CatalogAssumption ==
  /\ DEFAULT_INTERVAL \in Nat
  /\ Mask = Absent \/ Mask \in Nat \ {0}
  /\ \A f \in DOMAIN Catalog :
       /\ Catalog[f].mirror_of = Absent \/ Catalog[f].mirror_of \in Nat
       /\ Catalog[f].interval = Absent \/ Catalog[f].interval \in Nat
       /\ \A s \in Catalog[f].signals :
            s.start_bit \in Nat \cup {Absent} /\ s.bit_length \in Nat \cup {Absent}

VARIABLE states   \* tracked mirror -> what is known of the pair

-----------------------------------------------------------------------------
\* The bytes the placed ones among signals reach into.
Reached(signals) ==
  UNION {(s.start_bit \div 8) .. ((s.start_bit + s.bit_length - 1) \div 8) :
           s \in {t \in signals : t.start_bit # Absent /\ t.bit_length \notin {Absent, 0}}}

inherited_byte_indices(f) == Reached({s \in Catalog[f].signals : s.inherited})

\* A mirror is tracked when its source resolves and there is a byte to compare.
Tracked == {f \in DOMAIN Catalog :
              Catalog[f].mirror_of \in DOMAIN Catalog /\ inherited_byte_indices(f) # {}}

SourceOf(m) == Catalog[m].mirror_of

Window(m) ==
  LET interval == Catalog[SourceOf(m)].interval
  IN  2 * (IF interval = Absent THEN DEFAULT_INTERVAL ELSE interval)

mask_id(raw) == IF Mask = Absent THEN raw ELSE raw % Mask

Unseen == [bytes |-> <<>>, ts |-> Absent]

Default == [mirror |-> Unseen, source |-> Unseen, is_valid |-> Absent,
            mismatched |-> {}, consecutive |-> 0]

-----------------------------------------------------------------------------
Apart(s) == IF s.mirror.ts < s.source.ts THEN s.source.ts - s.mirror.ts
                                       ELSE s.mirror.ts - s.source.ts

\* Variant: the window is not applied.
ComparableAtAnyDistance(m, s) == s.mirror.ts # Absent /\ s.source.ts # Absent

Comparable(m, s) ==
  /\ s.mirror.ts # Absent
  /\ s.source.ts # Absent
  /\ Apart(s) <= Window(m)

\* A byte past the end of a payload is absent, and absent on both sides agrees.
ByteAt(bytes, i) == IF i < Len(bytes) THEN bytes[i + 1] ELSE -1

Differing(m, s) ==
  {i \in inherited_byte_indices(m) : ByteAt(s.mirror.bytes, i) # ByteAt(s.source.bytes, i)}

\* What a comparison leaves, when it takes latch mismatches in a row to fail.
Judged(s, differing, latch) ==
  LET count == IF differing = {} THEN 0 ELSE s.consecutive + 1
  IN  [s EXCEPT !.mismatched = differing,
                !.consecutive = count,
                !.is_valid = IF differing = {} THEN TRUE
                             ELSE IF count >= latch THEN FALSE ELSE @]

\* Variants: latched one mismatch early, and one late.
VerdictHasty(s, differing) == Judged(s, differing, MISMATCH_LATCH - 1)
VerdictTardy(s, differing) == Judged(s, differing, MISMATCH_LATCH + 1)

\* One match settles it; a mismatch has to be repeated before it counts.
Verdict(s, differing) == Judged(s, differing, MISMATCH_LATCH)

compare(m, s) == IF Comparable(m, s) THEN Verdict(s, Differing(m, s)) ELSE s

\* record: side is "mirror" or "source".
recorded(m, s, side, sample) == compare(m, [s EXCEPT ![side] = sample])

\* A frame is recorded as the mirror it is, then as the source it is.
Observed(m, f, sample) ==
  LET own == IF f = m THEN recorded(m, states[m], "mirror", sample) ELSE states[m]
  IN  IF f = SourceOf(m) THEN recorded(m, own, "source", sample) ELSE own

observe(raw, bytes, ts) ==
  states' = [m \in Tracked |-> Observed(m, mask_id(raw), [bytes |-> bytes, ts |-> ts])]

reset == states' = [m \in Tracked |-> Default]

TrackerInit == states = [m \in Tracked |-> Default]

=============================================================================
