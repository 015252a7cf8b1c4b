-------------------------- MODULE SequenceTracker --------------------------
(***************************************************************************)
(* SequenceTracker (crates/wiretap-protocol/src/testpattern.rs): what a    *)
(* stream of sequence numbers says about the link under it. Both ends of   *)
(* a Test Pattern run use it; the responder keeps one per run.             *)
(***************************************************************************)
EXTENDS Integers, Sequences

CONSTANTS
  None,          \* Rust's Option::None
  Space,         \* how many sequence numbers there are: 65536 in the code
  WrapThreshold  \* WRAP_THRESHOLD: 32768 in the code

ASSUME SpaceAssumption ==
  /\ Space \in Nat \ {0}
  /\ WrapThreshold \in Nat \ {0}
  /\ WrapThreshold < Space
  /\ None \notin Int

SeqNo == {n \in Nat : n < Space}

\* Variant: the counter does not wrap.
SuccUnwrapped(seq) == seq + 1

\* wrapping_add(1)
Succ(seq) == (seq + 1) % Space

Tracker ==
  [expected : SeqNo \cup {None}, seen : SUBSET SeqNo, rx_count : Nat,
   drops : Nat, duplicates : Nat, out_of_order : Nat,
   gaps : Seq(SeqNo \X SeqNo)]

NewTracker ==
  [expected |-> None, seen |-> {}, rx_count |-> 0,
   drops |-> 0, duplicates |-> 0, out_of_order |-> 0, gaps |-> <<>>]

\* mark_seen, and the two counters every frame may move.
Seen(t, seq) ==
  [t EXCEPT !.rx_count   = @ + 1,
            !.duplicates = IF seq \in t.seen THEN @ + 1 ELSE @,
            !.seen       = @ \cup {seq}]

\* Variant: numbers are compared as they are, without regard to the wrap.
AheadUnwrapped(t, seq) == IF seq >= t.expected THEN seq - t.expected ELSE WrapThreshold

\* wrapping_sub
Ahead(t, seq) == (seq - t.expected) % Space

InOrder(u, seq) == [u EXCEPT !.expected = Succ(seq)]

\* Everything between expected and seq never arrived.
Gap(u, seq) ==
  [u EXCEPT !.drops    = @ + Ahead(u, seq),
            !.gaps     = Append(@, <<u.expected, seq>>),
            !.expected = Succ(seq)]

\* A frame that overtook another, or one already counted as dropped.
Late(u, seq) == [u EXCEPT !.out_of_order = @ + 1]

\* Variant: a stream is taken to start at zero.
TrackFromZero(t, seq) ==
  LET u == [Seen(t, seq) EXCEPT !.expected = IF @ = None THEN 0 ELSE @]
  IN  CASE u.expected = seq                -> InOrder(u, seq)
        [] u.expected # seq
             /\ Ahead(u, seq) < WrapThreshold -> Gap(u, seq)
        [] OTHER                           -> Late(u, seq)

\* track: the first frame defines where the stream starts; a number ahead by
\* less than the threshold leaves a gap; any other one is late.
Track(t, seq) ==
  LET u == Seen(t, seq)
  IN  CASE t.expected \in {None, seq}      -> InOrder(u, seq)
        [] t.expected \notin {None, seq}
             /\ Ahead(u, seq) < WrapThreshold -> Gap(u, seq)
        [] OTHER                           -> Late(u, seq)
=============================================================================
