--------------------------- MODULE TestPatternBus ---------------------------
(***************************************************************************)
(* Test Pattern on a bus: initiators that run tests, responders that       *)
(* answer, and every frame heard by every other node (by its own sender    *)
(* too when the adapter loops frames back). A node handles what it hears   *)
(* in the order of the bus, in its own time, and may miss a frame.         *)
(*                                                                         *)
(* The responders are the code's. The initiators are not in the            *)
(* repository: they choose freely among the frames a run may hold, number  *)
(* the ones that carry a number, and stamp each with their own run tag,    *)
(* which is what they are called by: "The run tag is what makes two        *)
(* initiators on one bus safe."                                            *)
(***************************************************************************)
EXTENDS Responder, SequencesExt

CONSTANTS
  Initiators,    \* the initiators, by their run tags
  Nodes,         \* the responders
  Capabilities,  \* what a responder may say it is capable of
  Sends,         \* the message types the initiators send
  Loopback,      \* nodes hear their own frames
  MaxSends,      \* bound: frames the initiators send
  MaxWaiting,    \* bound: frames waiting at a node when one is sent
  MaxMissed      \* bound: frames that are not heard

\* The link is one the threshold can tell a gap from a late frame on.
ASSUME BusAssumption ==
  /\ Initiators \subseteq Runs
  /\ Capabilities \subseteq SUBSET {"FD", "EXTENDED"}
  /\ Sends \subseteq Types \ Replies
  /\ Loopback \in BOOLEAN
  /\ None \notin Runs
  /\ {MaxSends, MaxWaiting, MaxMissed, MaxCounter} \subseteq Nat
  /\ MaxMissed < WrapThreshold

VARIABLES
  responder,  \* [Nodes -> the Responder record]
  inbox,      \* [Nodes -> frames heard and not handled yet]
  nextSeq,    \* [Initiators -> the next sequence number]
  sends,      \* frames the initiators have sent
  missed,     \* frames not heard
  log,        \* [Nodes -> numbered frames of its run since it was started]
  swept,      \* [Nodes -> sweep requests it heard in that time]
  bound,      \* the run the frames on the bus so far bind the nodes to
  pinged,     \* [Initiators -> numbers it has pinged with while so bound]
  ponged      \* [Initiators -> <<node, number>> of the ping replies to it]

busVars == <<responder, inbox, nextSeq, sends, missed, log, swept,
             bound, pinged, ponged>>

IsFrame(f) ==
  /\ f.type \in Types
  /\ f.run \in Runs \cup {None}
  /\ f.seq \in SeqNo
  /\ f.type = "Status" /\ f.arg.field # "FPS" => f.arg.value \in 0 .. MaxCounter

BusInit ==
  /\ responder \in [Nodes -> {NewResponder(c) : c \in Capabilities}]
  /\ inbox = [n \in Nodes |-> <<>>]
  /\ nextSeq = [i \in Initiators |-> 0]
  /\ sends = 0
  /\ missed = 0
  /\ log = [n \in Nodes |-> <<>>]
  /\ swept = [n \in Nodes |-> 0]
  /\ bound = None
  /\ pinged = [i \in Initiators |-> {}]
  /\ ponged = [i \in Initiators |-> {}]

FrameOf(i, type) ==
  [type     |-> type,
   run      |-> IF type = "SweepRequest" THEN None ELSE i,
   seq      |-> IF type \in Numbered THEN nextSeq[i] ELSE 0,
   arg      |-> IF type = "Start" THEN i ELSE 0]

\* An initiator puts a frame on the bus. Frames with a number use it up.
Send(i, type) ==
  /\ sends < MaxSends
  /\ \A n \in Nodes : Len(inbox[n]) < MaxWaiting
  /\ sends' = sends + 1
  /\ inbox' = [n \in Nodes |-> Append(inbox[n], FrameOf(i, type))]
  /\ nextSeq' = [nextSeq EXCEPT ![i] = IF type \in Numbered THEN Succ(@) ELSE @]
  /\ bound' = CASE type = "Start" -> i
                [] type = "Stop"  -> None
                [] OTHER          -> bound
  /\ pinged' = [pinged EXCEPT ![i] = IF type = "PingRequest" /\ bound = i
                                     THEN @ \cup {nextSeq[i]} ELSE @]
  /\ UNCHANGED <<responder, missed, log, swept, ponged>>

Hears(n, m) == n # m \/ Loopback

IsOfRun(n, f) == f.type \in Numbered /\ responder[n].run # None /\ f.run = responder[n].run

\* A node's caller feeds the responder the next frame and puts the replies on
\* the bus.
Handle(n) ==
  /\ inbox[n] # <<>>
  /\ LET f      == Head(inbox[n])
         answer == OnFrame(responder[n], f)
         rest   == [inbox EXCEPT ![n] = Tail(@)]
     IN  /\ responder' = [responder EXCEPT ![n] = answer.responder]
         /\ inbox' = [m \in Nodes |-> IF Hears(n, m) THEN rest[m] \o answer.replies ELSE rest[m]]
         /\ log' = [log EXCEPT ![n] =
                      IF f.type = "Start" THEN <<>>
                      ELSE IF IsOfRun(n, f) THEN Append(@, [seq |-> f.seq, heard |-> TRUE])
                      ELSE @]
         /\ swept' = [swept EXCEPT ![n] =
                        IF f.type = "Start" THEN 0
                        ELSE IF f.type = "SweepRequest" /\ responder[n].run # None
                        THEN @ + 1 ELSE @]
         /\ ponged' = [i \in Initiators |-> ponged[i] \cup
                         {<<n, a.seq>> : a \in {b \in ToSet(answer.replies) :
                                        b.type = "PingReply" /\ b.run = i}}]
  /\ UNCHANGED <<nextSeq, sends, missed, bound, pinged>>

\* The node does not hear the frame at all.
Miss(n) ==
  /\ inbox[n] # <<>>
  /\ missed < MaxMissed
  /\ missed' = missed + 1
  /\ inbox' = [inbox EXCEPT ![n] = Tail(@)]
  /\ log' = [log EXCEPT ![n] =
               IF IsOfRun(n, Head(inbox[n]))
               THEN Append(@, [seq |-> Head(inbox[n]).seq, heard |-> FALSE]) ELSE @]
  /\ UNCHANGED <<responder, nextSeq, sends, swept, bound, pinged, ponged>>

BusNext ==
  \/ \E i \in Initiators, type \in Sends : Send(i, type)
  \/ \E n \in Nodes : Handle(n) \/ Miss(n)

BusSpec == BusInit /\ [][BusNext]_busVars

\* A caller goes on handling what its node hears. Nobody has to send.
FairBusSpec == BusSpec /\ \A n \in Nodes : WF_busVars(Handle(n))

-----------------------------------------------------------------------------
Heard(n) == {k \in 1 .. Len(log[n]) : log[n][k].heard}

\* The drops a responder reports are frames of its own run that it missed
\* since it was started, each of them, up to the last frame it heard; and it
\* counts every frame an initiator numbered, answered or not, and every sweep
\* request. Another run's numbers, an earlier run's, control and status
\* frames, and its own and other nodes' replies coming back are in neither;
\* nothing came twice, in a run no longer than the sequence space.
CountersTrue ==
  \A n \in Nodes :
    LET s == responder[n].sequence IN
    /\ Len(log[n]) <= Space => s.duplicates = 0
    /\ s.out_of_order = 0
    /\ Heard(n) = {} => s.drops = 0
    /\ Heard(n) # {} =>
         s.drops = Cardinality({k \in 1 .. Len(log[n]) :
                                  /\ ~log[n][k].heard
                                  /\ \E a \in Heard(n) : a < k
                                  /\ \E b \in Heard(n) : k < b})
    /\ s.rx_count = Cardinality(Heard(n)) + swept[n]

\* Replies are not answered: however many nodes share the bus and hear their
\* own frames, the bus carries at most four replies for a frame of an
\* initiator (and each node that answers it), and each fits the wire, however
\* far a counter it reports has got.
RepliesFit ==
  \A n \in Nodes : /\ responder[n].tx_count <= 4 * sends
                   /\ \A k \in 1 .. Len(inbox[n]) : IsFrame(inbox[n][k])

\* When no frame is missed, every ping sent between a Start and whatever
\* ends that run is answered by every node with its own number, in the end,
\* however far the nodes lag behind the bus and each other.
PingsAnswered ==
  \A i \in Initiators, seq \in 0 .. Space - 1 :
    seq \in pinged[i] ~> \A n \in Nodes : <<n, seq>> \in ponged[i]

\* "Hello is the only message a responder answers while it is idle."
OnlyHelloWhileIdle ==
  [][\A n \in Nodes :
       responder[n].run = None /\ responder'[n].tx_count > responder[n].tx_count =>
         Head(inbox[n]).type = "Hello"]_busVars
=============================================================================
