----------------------------- MODULE Responder -----------------------------
(***************************************************************************)
(* Responder (crates/wiretap-protocol/src/testpattern.rs): the reply half  *)
(* of Test Pattern. OnFrame is on_frame: the responder after one frame and *)
(* the replies its caller has to put on the bus.                           *)
(*                                                                         *)
(* A frame is a record of what decode makes of it. "arg" stands for the    *)
(* bytes only one message type has: the run a Start names, a probe's       *)
(* timestamp, a status report, the payload of a sweep. The frame rate of a *)
(* status report depends on the caller's clock and is left open; id width  *)
(* and CAN FD, which a reply takes over, are left out.                     *)
(***************************************************************************)
EXTENDS SequenceTracker

CONSTANTS
  Runs,        \* the run tags: 0 .. 15 in the code
  MaxCounter,  \* the largest counter a status report can carry
  Open         \* the frame rate of a status report

Numbered == {"PingRequest", "LatencyProbe", "Throughput"}
Control  == {"Start", "Stop", "SetRate", "RequestStatus", "Hello", "HelloReply", "Unknown"}
Replies  == {"PingReply", "LatencyReply", "Status", "HelloReply", "SweepEcho"}
Types    == Numbered \cup Control \cup Replies \cup {"SweepRequest", "Undecodable"}

NewResponder(capabilities) ==
  [capabilities |-> capabilities, run |-> None, tx_count |-> 0, sequence |-> NewTracker]

Answers(r, replies) == [responder |-> r, replies |-> replies]
Ignores(r)          == Answers(r, <<>>)

\* frame: a reply in kind, on the run it was asked on.
Reply(f, type, seq, arg) ==
  [type |-> type, run |-> f.run, seq |-> seq, arg |-> arg]

Sent(r, n) == [r EXCEPT !.tx_count = @ + n]

Clamp(value) == IF value < MaxCounter THEN value ELSE MaxCounter

\* The values are read before any of the four frames is counted.
StatusOf(r) ==
  <<[field |-> "RX_COUNT", value |-> Clamp(r.sequence.rx_count)],
    [field |-> "TX_COUNT", value |-> Clamp(r.tx_count)],
    [field |-> "DROPS",    value |-> Clamp(r.sequence.drops)],
    [field |-> "FPS",      value |-> Open]>>

Started(r, run) == [r EXCEPT !.run = run, !.tx_count = 0, !.sequence = NewTracker]

\* on_control: control messages are for every responder, whatever their run.
OnControl(r, f) ==
  CASE f.type = "Hello"         -> Answers(Sent(r, 1), <<Reply(f, "HelloReply", 0, r.capabilities)>>)
    [] f.type = "Start"         -> Ignores(Started(r, f.arg))
    [] f.type = "Stop"          -> Ignores([r EXCEPT !.run = None])
    [] f.type = "RequestStatus" -> Answers(Sent(r, 4),
                                     [k \in 1 .. 4 |-> Reply(f, "Status", 0, StatusOf(r)[k])])
    [] OTHER                    -> Ignores(r)

\* Variant: an echo is answered like a request.
IsEchoNever(f) == FALSE

IsEcho(f) == f.type = "SweepEcho"

\* A sweep frame has no run tag and no number. Its payload goes back as it
\* came.
OnSweep(r, f) ==
  IF IsEcho(f) \/ r.run = None
  THEN Ignores(r)
  ELSE Answers([Sent(r, 1) EXCEPT !.sequence.rx_count = @ + 1],
               <<[f EXCEPT !.type = "SweepEcho"]>>)

Ours(r, f) == r.run = f.run

\* Variant: only what is answered is counted.
CountedIfAnswered(r, f) ==
  IF f.type \in Numbered \ {"Throughput"}
  THEN [r EXCEPT !.sequence = Track(@, f.seq)] ELSE r

Counted(r, f) ==
  IF f.type \in Numbered THEN [r EXCEPT !.sequence = Track(@, f.seq)] ELSE r

\* Variant: a reply is numbered by the responder's own count.
OnRunRenumbered(r, f) ==
  LET u == Counted(r, f) IN
  IF ~Ours(r, f) THEN Ignores(r)
  ELSE CASE f.type = "PingRequest"  -> Answers(Sent(u, 1), <<Reply(f, "PingReply", u.tx_count, 0)>>)
         [] f.type = "LatencyProbe" -> Answers(Sent(u, 1), <<Reply(f, "LatencyReply", f.seq, f.arg)>>)
         [] OTHER                   -> Ignores(u)

OnRun(r, f) ==
  LET u == Counted(r, f) IN
  IF ~Ours(r, f) THEN Ignores(r)
  ELSE CASE f.type = "PingRequest"  -> Answers(Sent(u, 1), <<Reply(f, "PingReply", f.seq, 0)>>)
         [] f.type = "LatencyProbe" -> Answers(Sent(u, 1), <<Reply(f, "LatencyReply", f.seq, f.arg)>>)
         [] OTHER                   -> Ignores(u)

OnFrame(r, f) ==
  CASE f.type \in {"SweepRequest", "SweepEcho"} -> OnSweep(r, f)
    [] f.type = "Undecodable"                   -> Ignores(r)
    [] f.type \in Control                       -> OnControl(r, f)
    [] OTHER                                    -> OnRun(r, f)
=============================================================================
