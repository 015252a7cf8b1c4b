----------------------------- MODULE FramedLine -----------------------------
(***************************************************************************)
(* What a framer of a byte stream promises: of the messages put on the     *)
(* line, the receiver gets each one whole, once, and in the order sent.    *)
(***************************************************************************)
EXTENDS Naturals, Sequences

VARIABLES
  sent,      \* the messages put on the line so far, in order
  delivered  \* those handed over so far

Init == delivered = <<>>

Put ==
  /\ Len(sent') = Len(sent) + 1
  /\ SubSeq(sent', 1, Len(sent)) = sent
  /\ UNCHANGED delivered

Deliver ==
  /\ Len(delivered) < Len(sent)
  /\ delivered' = Append(delivered, sent[Len(delivered) + 1])
  /\ UNCHANGED sent

Spec == Init /\ [][Put \/ Deliver]_<<sent, delivered>>

\* Whatever has been put on the line is delivered.
EveryMessageArrives == []<>(delivered = sent)
=============================================================================
