--------------------------- MODULE SequenceStream ---------------------------
(***************************************************************************)
(* A sender that numbers its frames, a link that loses, repeats and        *)
(* reorders them, and the SequenceTracker at its far end.                  *)
(*                                                                         *)
(* The sender's counter wraps. The model also counts its laps, which no    *)
(* frame carries, so that "arrived" holds what really happened; what the   *)
(* tracker makes of the bare numbers is compared with that.                *)
(***************************************************************************)
EXTENDS SequenceTracker, FiniteSets

CONSTANTS
  Starts,     \* where the sender's counter may stand when the stream begins
  MaxSent,    \* bound: frames sent
  MaxAir,     \* bound: frames in flight; 1 makes the link keep the order
  MaxLost,    \* bound: frames lost
  MaxRepeats  \* bound: frames the link delivers and keeps a copy of

Numbers == [lap : Nat, seq : SeqNo]

ASSUME StreamBounds ==
  /\ Starts \subseteq SeqNo
  /\ {MaxSent, MaxAir, MaxLost, MaxRepeats} \subseteq Nat
  /\ None \notin Numbers

Abs(n)  == Space * n.lap + n.seq

VARIABLES
  tracker,
  next,     \* the sender's counter and its laps
  sent,     \* frames sent
  air,      \* frames in flight
  arrived,  \* every frame tracked, in order
  first,    \* the first frame tracked, or None
  highest,  \* the newest frame tracked, or None
  lost,     \* frames lost
  repeats   \* copies kept

streamVars == <<tracker, next, sent, air, arrived, first, highest, lost, repeats>>

StreamTypeOK ==
  /\ tracker \in Tracker
  /\ next \in Numbers
  /\ {sent, lost, repeats} \subseteq Nat
  /\ air \subseteq Numbers
  /\ arrived \in Seq(Numbers)
  /\ {first, highest} \subseteq Numbers \cup {None}

StreamInit ==
  /\ tracker = NewTracker
  /\ next \in {[lap |-> 0, seq |-> s] : s \in Starts}
  /\ sent = 0
  /\ air = {}
  /\ arrived = <<>>
  /\ first = None
  /\ highest = None
  /\ lost = 0
  /\ repeats = 0

Following(n) == [lap |-> IF n.seq + 1 = Space THEN n.lap + 1 ELSE n.lap,
                 seq |-> Succ(n.seq)]

SendNext ==
  /\ sent < MaxSent
  /\ Cardinality(air) < MaxAir
  /\ sent' = sent + 1
  /\ air' = air \cup {next}
  /\ next' = Following(next)
  /\ UNCHANGED <<tracker, arrived, first, highest, lost, repeats>>

Lose(n) ==
  /\ n \in air
  /\ lost < MaxLost
  /\ lost' = lost + 1
  /\ air' = air \ {n}
  /\ UNCHANGED <<tracker, next, sent, arrived, first, highest, repeats>>

\* The link is one the threshold can tell a wrap from a late frame on: it
\* loses fewer than WrapThreshold frames in a row and delays none by more
\* than the rest of the space.
Tellable(n) ==
  highest # None =>
    LET ahead == Abs(n) - (Abs(highest) + 1)
    IN  ahead < WrapThreshold /\ ahead >= WrapThreshold - Space

Arrives(n) ==
  /\ n \in air
  /\ Tellable(n)
  /\ tracker' = Track(tracker, n.seq)
  /\ arrived' = Append(arrived, n)
  /\ first' = IF first = None THEN n ELSE first
  /\ highest' = IF highest = None \/ Abs(n) > Abs(highest) THEN n ELSE highest
  /\ UNCHANGED <<next, sent, lost>>

Receive(n) ==
  /\ Arrives(n)
  /\ air' = air \ {n}
  /\ UNCHANGED repeats

Repeat(n) ==
  /\ repeats < MaxRepeats
  /\ Arrives(n)
  /\ repeats' = repeats + 1
  /\ UNCHANGED air

StreamNext ==
  \/ SendNext
  \/ \E n \in air : Lose(n) \/ Receive(n) \/ Repeat(n)

StreamSpec == StreamInit /\ [][StreamNext]_streamVars

-----------------------------------------------------------------------------
Now == 1 .. Len(arrived)

\* The numbers some frame overtook: older than it and not there before it.
Overtaken ==
  {a \in Abs(first) .. Abs(highest) :
     \E i \in Now : /\ Abs(arrived[i]) > a
                    /\ \A j \in 1 .. i : Abs(arrived[j]) # a}

IsLate(i)     == \E j \in 1 .. i - 1 : Abs(arrived[j]) >= Abs(arrived[i])
IsRepeated(i) == \E j \in 1 .. i - 1 : arrived[j] = arrived[i]

\* gaps names a number by a pair: from its first up to, not including, its
\* second. (Told apart while numbers are not reused.)
Between(g) == {(g[1] + k) % Space : k \in 0 .. ((g[2] - g[1]) % Space) - 1}

\* drops counts each number a newer frame overtook, once, wherever the wrap
\* falls, and out_of_order each frame that came after a newer one or again;
\* while a run is no longer than the sequence space, gaps names the numbers
\* drops counts and duplicates counts the frames that came again.
CountsExact ==
  /\ arrived # <<>> =>
       /\ tracker.drops = Cardinality(Overtaken)
       /\ tracker.out_of_order = Cardinality({i \in Now : IsLate(i)})
  /\ sent <= Space =>
       /\ tracker.duplicates = Cardinality({i \in Now : IsRepeated(i)})
       /\ arrived # <<>> =>
            UNION {Between(tracker.gaps[i]) : i \in 1 .. Len(tracker.gaps)} = {a % Space : a \in Overtaken}

\* From the first frame to the newest, every number is a drop or a frame
\* that came in order, however often the counter has wrapped.
EveryNumberCounted ==
  highest # None =>
    tracker.drops + tracker.rx_count - tracker.out_of_order
      = Abs(highest) - Abs(first) + 1

\* "A clean stream reports nothing wrong", however long it is.
CleanStreamClean ==
  tracker.drops = 0 /\ tracker.duplicates = 0 /\ tracker.out_of_order = 0
=============================================================================
