----------------------------- MODULE MC_RtuLine -----------------------------
(* Real Modbus messages of device 1 and the lines they are put on: rough   *)
(* ones read as bytes by a strict reassembler that knows its device, clean *)
(* ones tunnelled in frames to a lenient one that does not. A behaviour is *)
(* of the one kind or the other, as part says.                             *)
EXTENDS RtuLine, SequencesExt

CONSTANT Parts

VARIABLE part

ReadRequest    == <<1, 4, 77, 226, 0, 2, 198, 145>>
ReadResponse   == <<1, 4, 4, 1, 244, 0, 0, 187, 138>>
CoilResponse   == <<1, 1, 2, 205, 107, 172, 131>>
ReadException  == <<1, 132, 2, 194, 193>>
WriteOne       == <<1, 6, 19, 136, 0, 200, 12, 242>>
WriteTwo       == <<1, 16, 0, 16, 0, 1, 2, 0, 7, 229, 2>>
WriteTwoReply  == <<1, 16, 0, 16, 0, 1, 0, 12>>

Messages == {ReadRequest, ReadResponse, CoilResponse, ReadException,
             WriteOne, WriteTwo, WriteTwoReply}

\* A whole message, of another device on the same bus.
ForeignRequest == <<2, 4, 77, 226, 0, 2, 198, 162>>

MCCrcValid == Messages \cup {ForeignRequest}

\* A line of parts, each a message (genuine where Messages has it) or junk.
LineOf(parts) ==
  LET Before(i) == Len(FlattenSeq(SubSeq(parts, 1, i - 1)))
      kept == SetToSortSeq({i \in 1 .. Len(parts) : parts[i] \in Messages}, <)
  IN  [bytes   |-> FlattenSeq(parts),
       genuine |-> [k \in 1 .. Len(kept) |->
                      [first |-> Before(kept[k]) + 1,
                       last  |-> Before(kept[k]) + Len(parts[kept[k]])]]]

\* Lines of nothing but messages.
CleanLines ==
  {LineOf(<<a, b>>) : a \in Messages, b \in Messages}
    \cup {LineOf(<<ReadException, a, b>>) : a, b \in {ReadException, CoilResponse}}

\* Junk: bytes nothing starts at, a false head of each shape, the tail of a
\* message that lost its head, a message of another device, and one of this
\* device with a byte corrupted.
Junk == {<<0, 255, 0>>, ForeignRequest,
         <<1, 3>>, <<1, 4, 6>>, <<1, 16, 0, 0, 0, 1, 2>>, <<1, 131>>, <<1, 1, 1>>,
         <<226, 0, 2, 198, 145>>,
         <<1, 4, 5, 1, 244, 0, 0, 187, 138>>,
         <<1, 4, 4, 1, 244, 0, 0, 187, 139>>}

NoisyLines == {LineOf(<<j, a, b>>) : j \in Junk, a \in {ReadRequest, ReadResponse, WriteTwo},
                                     b \in {ReadException, WriteOne}}
         \cup {LineOf(<<a, j, b>>) : j \in Junk, a \in {ReadException},
                                     b \in {ReadResponse, WriteTwo}}

\* More bytes than the longest message behind every kind of false head, so
\* that the buffer would grow past it if the reassembler could wait for more.
Zeros(n) == [i \in 1 .. n |-> 0]
LongLines == {LineOf(<<head, Zeros(300), ReadException>>) :
                head \in {<<1, 3, 250>>, <<1, 3, 252>>, <<1, 2, 251>>,
                          <<1, 16, 0, 0, 0, 123, 246>>, <<1, 15, 0, 0, 0, 1, 255>>}}

\* All a strict reassembler on a bad line has to cope with.
RoughLines == NoisyLines \cup LongLines

Clean == INSTANCE RtuLine WITH
  Lines <- CleanLines, Policy <- "Lenient", DeviceAddress <- None, Tunnelled <- TRUE

\* What RtuLine assumes of its lines holds of the clean ones as well.
ASSUME CleanAssumption == \A l \in CleanLines : Clean!Marked(l) /\ OnlyMessages(l)

MCInit ==
  /\ part \in Parts
  /\ \/ part = "rough" /\ LineInit
     \/ part = "clean" /\ Clean!LineInit

Feeds ==
  \/ part = "rough" /\ \E n \in ChunkSizes : Feed(n)
  \/ part = "clean" /\ \E n \in ChunkSizes : Clean!Feed(n)

Ends ==
  \/ part = "rough" /\ EndOfStream
  \/ part = "clean" /\ Clean!EndOfStream

Passes ==
  \/ part = "rough" /\ Reassemble
  \/ part = "clean" /\ Clean!Reassemble

MCNext == UNCHANGED part /\ (Feeds \/ Ends \/ Passes)

mcVars == <<part, lineVars>>

MCSpec == MCInit /\ [][MCNext]_mcVars

FairMCSpec == MCSpec /\ WF_mcVars(UNCHANGED part /\ Feeds) /\ WF_mcVars(UNCHANGED part /\ Passes)

\* A false head followed by a whole message, and nothing more.
CutShort == {LineOf(<<<<1, 3, 200>>, ReadResponse>>)}
=============================================================================
