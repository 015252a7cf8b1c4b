----------------------------- MODULE MirrorBus -----------------------------
(***************************************************************************)
(* The bus a MirrorTracker watches. In every round the source and each of  *)
(* its mirrors send the current value, in any order and with jitter; any   *)
(* frame may be lost; a mirror may go wrong and recover; and the session   *)
(* may be rewound, which the caller follows with reset.                    *)
(***************************************************************************)
EXTENDS MirrorTracker, FiniteSets

CONSTANTS
  RawId,         \* frame -> the id it is seen under on the bus
  Period,        \* the time between two rounds
  Jitter,        \* how late within its round a frame may be, less than Period
  Values,        \* what the inherited byte may be
  Faulty,        \* the mirrors that may go wrong
  WrongPayloads, \* what a mirror sends while it is wrong
  MaxRounds,     \* bound: rounds between two rewinds
  MaxRewinds     \* bound: rewinds

\* A frame is known to the tracker by the id it is seen under. The frames of
\* every pair that is tracked are on the bus; a mirror's own first byte is not
\* inherited, one round's frames are within the window, and sources are true.
ASSUME BusAssumption ==
  /\ Period \in Nat /\ Jitter \in Nat /\ Absent \notin Int \cup BOOLEAN
  /\ \A f \in DOMAIN RawId : mask_id(RawId[f]) = f
  /\ \A m \in Tracked : {m, SourceOf(m)} \subseteq DOMAIN RawId
  /\ \A m \in Tracked : 0 \notin inherited_byte_indices(m) /\ Jitter <= Window(m) /\ SourceOf(m) \notin Faulty

\* A wrong payload differs from whatever the source sends on a byte that is
\* inherited, and what two rounds in a row bring is within the window.
ASSUME FaultAssumption ==
  \A m \in Tracked \cap Faulty :
    /\ Period + Jitter <= Window(m)
    /\ \A p \in WrongPayloads : \E i \in inherited_byte_indices(m) :
         \A v \in Values : ByteAt(p, i) # ByteAt(<<SourceOf(m), v>>, i)

VARIABLES
  round,   \* rounds started since the session began or was rewound
  offset,  \* the lateness of the newest frame of this round
  due,     \* the frames of this round still to be sent
  value,   \* what the source sends in this round
  wrong,   \* mirror -> the payload it sends while wrong, or Absent
  heard,   \* the frames of this round that have arrived
  excused, \* mirror -> what excuses a mismatch since its last true round
  spoilt,  \* mirror -> rounds heard whole with it wrong, in a row, up to 2
  newest,  \* frame -> the time it last arrived since the rewind, or Absent
  rewinds

busVars == <<states, round, offset, due, value, wrong, heard, excused, spoilt, newest, rewinds>>

Sender  == DOMAIN RawId
Pair(m) == {m, SourceOf(m)}

\* The payloads: the first byte is each frame's own, the second is inherited.
Wrong(f)   == f \in Tracked /\ wrong[f] # Absent
Payload(f) == IF Wrong(f) THEN wrong[f] ELSE <<f, value>>

BusInit ==
  /\ TrackerInit
  /\ round = 0 /\ offset = 0 /\ due = {} /\ heard = {} /\ rewinds = 0
  /\ value \in Values
  /\ wrong = [m \in Tracked |-> Absent]
  /\ excused = [m \in Tracked |-> 0]
  /\ spoilt = [m \in Tracked |-> 0]
  /\ newest = [f \in Sender |-> Absent]

\* A mirror turns wrong, stays as it was or recovers between two rounds.
NextRound ==
  /\ due = {}
  /\ round < MaxRounds
  /\ round' = round + 1
  /\ offset' = 0
  /\ due' = Sender
  /\ heard' = {}
  /\ value' \in Values
  /\ \E m \in Faulty, p \in WrongPayloads \cup {Absent} : wrong' = [wrong EXCEPT ![m] = p]
  /\ spoilt' = [m \in Tracked |-> IF Pair(m) \subseteq heard /\ wrong'[m] # Absent
                                  THEN spoilt[m] ELSE 0]
  /\ UNCHANGED <<states, excused, newest, rewinds>>

\* f is the frame that completes the pair of m in this round.
Completes(m, f) == f \in Pair(m) /\ Pair(m) \subseteq heard \cup {f}

\* A lost frame excuses one mismatch, a wrong one any number.
Excused(m, by) == IF excused[m] + by > 2 THEN 2 ELSE excused[m] + by

Arrive(f) ==
  /\ f \in due
  /\ offset' \in offset .. Jitter
  /\ LET now == round * Period + offset'
     IN  /\ observe(RawId[f], Payload(f), now)
         /\ newest' = [newest EXCEPT ![f] = now]
  /\ due' = due \ {f}
  /\ heard' = heard \cup {f}
  /\ excused' = [m \in Tracked |-> IF Completes(m, f) /\ ~Wrong(m) THEN 0
                                   ELSE IF f = m /\ Wrong(m) THEN Excused(m, 2)
                                   ELSE excused[m]]
  /\ spoilt' = [m \in Tracked |-> IF Completes(m, f) /\ Wrong(m) /\ spoilt[m] < 2
                                  THEN spoilt[m] + 1 ELSE spoilt[m]]
  /\ UNCHANGED <<round, value, wrong, rewinds>>

Miss(f) ==
  /\ f \in due
  /\ due' = due \ {f}
  /\ excused' = [m \in Tracked |-> IF f \in Pair(m) THEN Excused(m, 1) ELSE excused[m]]
  /\ UNCHANGED <<states, round, offset, value, wrong, heard, spoilt, newest, rewinds>>

Rewind ==
  /\ rewinds < MaxRewinds
  /\ round > 0
  /\ reset
  /\ round' = 0 /\ offset' = 0 /\ due' = {} /\ heard' = {}
  /\ excused' = [m \in Tracked |-> 0]
  /\ spoilt' = [m \in Tracked |-> 0]
  /\ newest' = [f \in Sender |-> Absent]
  /\ rewinds' = rewinds + 1
  /\ UNCHANGED <<value, wrong>>

BusNext ==
  \/ NextRound
  \/ \E f \in Sender : Arrive(f) \/ Miss(f)
  \/ Rewind

BusSpec == BusInit /\ [][BusNext]_busVars

-----------------------------------------------------------------------------
\* A mirror that only moves with its source is never latched invalid by
\* skew: between two rounds heard whole, it takes two lost frames of the pair,
\* or a frame that really was wrong. ("A single differing sample is usually
\* skew on a moving signal.") Nor is there a verdict that outlives a rewind or
\* rests on a sample from before it: both sides have been heard since.
NoFalseLatch ==
  \A m \in Tracked :
    /\ states[m].is_valid = FALSE => excused[m] = 2
    /\ states[m].is_valid # Absent => \A f \in Pair(m) : newest[f] # Absent

\* A mirror that is wrong is found out by the end of the second round in a row
\* heard whole, in whatever order they are heard and whatever came before; and
\* one true round heard whole clears it, whatever the bytes are that the mirror
\* declares for itself.
WholeRoundsSettle ==
  \A m \in Tracked :
    /\ spoilt[m] = 2 => states[m].is_valid = FALSE
    /\ Pair(m) \subseteq heard /\ ~Wrong(m) =>
         states[m].is_valid = TRUE /\ states[m].mismatched = {}

\* A mirror, or a source, that falls silent keeps its last verdict: as long
\* as the session lasts, only a pair heard within the window changes one.
SilenceChangesNothing ==
  [][\A m \in Tracked :
       states'[m].is_valid # states[m].is_valid /\ rewinds' = rewinds =>
         \A f, g \in Pair(m) : newest'[f] - newest'[g] <= Window(m)]_busVars
=============================================================================
