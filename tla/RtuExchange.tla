---------------------------- MODULE RtuExchange ----------------------------
(***************************************************************************)
(* A master and one device taking turns on a Modbus line, and a listener   *)
(* that overhears them through one ModbusRtuStream. Each message reaches   *)
(* the listener whole (interpret) or cut into frames (push), the two       *)
(* sharing the instance as the comment on interpret requires; a message or *)
(* a single frame of it may be missed, and the device may not answer.      *)
(*                                                                         *)
(* The wire does not say who sent a message or, in a read response, what   *)
(* was read: this module keeps the truth and compares it with the labels.  *)
(***************************************************************************)
EXTENDS ModbusRtuStream

CONSTANTS
  Transactions,  \* [request, response : byte strings] the pair may exchange
  FrameSize,     \* how many bytes of a message one frame carries
  MaxTurns,      \* bound: how many messages the two send
  MaxMissed      \* bound: answers not given, messages and frames not heard

\* A message of the device with a good checksum, as long as a consistent header
\* of its own declares, and with no good checksum part of the way by accident.
Sound(raw) ==
  /\ raw \in CrcValid
  /\ AddressMatches(raw[1])
  /\ \E c \in Candidates(raw) : Plausible(raw, c) /\ c.len = Len(raw)
  /\ \A c \in Valid(raw) : c.len = Len(raw)

LaidOutAs(raw, side) ==
  \E c \in Candidates(raw) : c.len = Len(raw) /\ c.direction = side

\* A request and its answer: the same function or its exception; a write of
\* several registers echoes what was written where.
Transaction(t) ==
  /\ Sound(t.request) /\ LaidOutAs(t.request, "Request")
  /\ Sound(t.response)
  /\ t.response[2] \in {t.request[2], t.request[2] + 128}
  /\ t.response[2] \notin WriteSingle => LaidOutAs(t.response, "Response")
  /\ t.response[2] \in WriteMany => \A i \in {3, 5} : Be(t.response, i) = Be(t.request, i)

Sides == {"Request", "Response"}
Facts == [side : Sides, of : Transactions, frames : Nat]

ASSUME ExchangeAssumption ==
  /\ Policy = "Strict"
  /\ None \notin Transactions /\ None \notin Facts
  /\ \A t \in Transactions : Transaction(t)
  /\ FrameSize \in Nat \ {0}
  /\ MaxTurns \in Nat
  /\ MaxMissed \in Nat

VARIABLES
  asked,   \* the transaction whose answer is due, or None
  coming,  \* what the message is whose frames are on the wire, or None
  gone,    \* how many of its bytes have gone by
  pushed,  \* how many bytes have been heard in frames
  ends,    \* for each of those that ended a message, what that message was
  truth,   \* for each message of out, what it really was
  turns,   \* messages sent so far
  missed   \* answers not given, messages and frames not heard, so far

exchangeVars == <<buf, pending, lastReq, call, out, residue,
                  asked, coming, gone, pushed, ends, truth, turns, missed>>

ExchangeInit ==
  /\ Init
  /\ asked = None /\ coming = None /\ gone = 0
  /\ pushed = 0 /\ ends = <<>> /\ truth = <<>>
  /\ turns = 0 /\ missed = 0

Quiet == call = "none" /\ coming = None

\* What a message is: who sent it, in which transaction, and how many of its
\* frames were heard.
Fact(t, side, frames) == [side |-> side, of |-> t, frames |-> frames]
BytesOf(fact) == IF fact.side = "Request" THEN fact.of.request ELSE fact.of.response

\* One message on the wire, heard whole, heard in frames, or missed.
Transmit(t, side) ==
  /\ Quiet
  /\ turns < MaxTurns
  /\ turns' = turns + 1
  /\ asked' = IF side = "Request" THEN t ELSE None
  /\ \/ /\ Interpret(BytesOf(Fact(t, side, 1)))
        /\ truth' = Append(truth, Fact(t, side, 1))
        /\ UNCHANGED <<coming, gone, pushed, ends, missed>>
     \/ /\ coming' = Fact(t, side, 0)
        /\ UNCHANGED <<vars, gone, pushed, ends, truth, missed>>
     \/ /\ missed < MaxMissed
        /\ missed' = missed + 1
        /\ UNCHANGED <<vars, coming, gone, pushed, ends, truth>>

Ask(t) == asked = None /\ Transmit(t, "Request")

Answer == asked # None /\ Transmit(asked, "Response")

\* The device stays silent; the master is free to ask again.
Timeout ==
  /\ Quiet
  /\ asked # None
  /\ missed < MaxMissed
  /\ missed' = missed + 1
  /\ asked' = None
  /\ UNCHANGED <<vars, coming, gone, pushed, ends, truth, turns>>

\* How far the next frame of a message goes: FrameSize bytes, or what is left.
NextGone ==
  IF gone + FrameSize < Len(BytesOf(coming)) THEN gone + FrameSize ELSE Len(BytesOf(coming))

\* The rest of the message that is on the wire, which is now "fact".
GoOn(fact) ==
  IF NextGone = Len(BytesOf(coming))
  THEN coming' = None /\ gone' = 0
  ELSE coming' = fact /\ gone' = NextGone

FrameArrives ==
  LET heard == [coming EXCEPT !.frames = @ + 1]
  IN  /\ coming # None
      /\ Push(SubSeq(BytesOf(coming), gone + 1, NextGone))
      /\ GoOn(heard)
      /\ pushed' = pushed + NextGone - gone
      /\ ends' = IF coming' # None THEN ends
                 ELSE [n \in DOMAIN ends \cup {pushed'} |-> IF n = pushed' THEN heard ELSE ends[n]]
      /\ UNCHANGED <<asked, truth, turns, missed>>

FrameMissed ==
  /\ coming # None
  /\ call = "none"
  /\ missed < MaxMissed
  /\ missed' = missed + 1
  /\ GoOn(coming)
  /\ UNCHANGED <<vars, asked, pushed, ends, truth, turns>>

\* Sixteen bits cannot tell every splice of what was heard from a message.
Accident == [side |-> "Neither", of |-> None, frames |-> 0]

\* What bytes taken out of the buffer were, the last of them the n-th heard: the
\* message that ended there, of which the first may be spliced from one alike.
TruthOf(raw, n) ==
  IF n \in DOMAIN ends /\ BytesOf(ends[n]) = raw THEN ends[n] ELSE Accident

Drain ==
  /\ DrainPass
  /\ truth' = IF out' = out THEN truth
              ELSE Append(truth, TruthOf(out'[Len(out')].raw, pushed - Len(buf')))
  /\ UNCHANGED <<asked, coming, gone, pushed, ends, turns, missed>>

ExchangeNext ==
  \/ \E t \in Transactions : Ask(t)
  \/ Answer
  \/ Timeout
  \/ FrameArrives
  \/ FrameMissed
  \/ Drain

ExchangeSpec == ExchangeInit /\ [][ExchangeNext]_exchangeVars

-----------------------------------------------------------------------------
\* The register address a transaction is about, as its request carries it.
AskedStart(t)    == Be(t.request, 3)
AskedQuantity(t) == IF t.request[2] \in WriteSingle THEN 1 ELSE Be(t.request, 5)

ResponsePaired(i) ==
  /\ out[i].direction = "Response"
  /\ out[i].start = AskedStart(truth[i].of)
  /\ out[i].quantity = AskedQuantity(truth[i].of)

Answers(i) ==
  /\ truth[i].side = "Response"
  /\ truth[i - 1].side = "Request"
  /\ truth[i].of = truth[i - 1].of

\* Three bytes of coils make a response as long as a request, and it is read as
\* one: "wrong, but consistently so".
Collides(raw) == raw[2] \in Reads /\ Len(raw) = 8

\* The side a message is reported from, as long as nothing confuses a write of
\* one register, which looks the same from both.
ReportedSide(fact) ==
  IF fact.side = "Response" /\ Collides(BytesOf(fact)) THEN "Request" ELSE fact.side

\* However much was missed before, a response heard right after its own
\* request is paired with it: what was outstanding earlier (an unanswered
\* request, a write whose answer was missed) never shows through. Answers to a
\* write of one register are left out, which are paired by side (SidesTrue),
\* and the response that reads as a request.
PairingRecovers ==
  \A i \in 2 .. Len(out) :
    Answers(i) /\ truth[i].of.request[2] \notin WriteSingle /\ ~Collides(out[i].raw)
      => ResponsePaired(i)

\* "Which side of the exchange a message came from": as long as everything is
\* heard, every message is reported as coming from the side that sent it,
\* although a write of one register looks the same from both, and in as many
\* frames as brought it (one when it was handed over whole). When something
\* was missed only writes of one register are ever reported on the wrong side,
\* and a request among them only while no request has been heard since another
\* message of its function: the next request of any other function ends the
\* confusion.
SidesTrue ==
  /\ missed = 0 =>
       \A i \in 1 .. Len(out) :
         out[i].direction = ReportedSide(truth[i]) /\ out[i].frame_count = truth[i].frames
  /\ \A i \in 1 .. Len(out) :
       truth[i] # Accident /\ out[i].direction # ReportedSide(truth[i]) =>
         /\ out[i].function \in WriteSingle
         /\ truth[i].side = "Request" =>
              \E j \in 1 .. i - 1 :
                /\ out[j].function = out[i].function
                /\ \A k \in j + 1 .. i - 1 : truth[k].side # "Request"
=============================================================================
