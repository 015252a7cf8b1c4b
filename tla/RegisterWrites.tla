--------------------------- MODULE RegisterWrites ---------------------------
(***************************************************************************)
(* An operator's commands on their way to a device: the manifest encodes   *)
(* them, merges what falls on one register and groups neighbours, and a    *)
(* poller sends the groups one by one, reading first what it only owns in  *)
(* part. The device may hold anything else in the rest of its registers.   *)
(***************************************************************************)
EXTENDS ModbusManifest

CONSTANTS
  WriteMeta,   \* the manifest's defaults
  WriteFrames, \* its frames, in order
  Batches,     \* the batches of commands: sequences of a signal's name and a value
  Banks        \* what the device may hold: sets of functions from addresses

VARIABLES
  bank,    \* address -> the register
  queue,   \* the groups still to be sent
  batch,   \* the commands being carried out
  earlier, \* the bank before them
  written  \* the addresses written since, in the order they were

writeVars == <<bank, queue, batch, earlier, written>>

WritesInit ==
  /\ bank \in Banks /\ earlier = bank
  /\ queue = <<>> /\ batch = <<>> /\ written = <<>>

Encoded(command) ==
  UNION {encode_signal(WriteMeta, found[1], found[2], command[2]) :
           found \in find_write_signal(WriteFrames, command[1])}

\* The writes of a batch, in its order, if every command can be encoded.
EncodedAll(commands) ==
  IF \E i \in DOMAIN commands : Encoded(commands[i]) = {} THEN {}
  ELSE {FlattenSeq([i \in DOMAIN commands |-> Else(Encoded(commands[i]), <<>>)])}

\* A batch that cannot be carried out whole is refused whole. One is enough: a
\* second would find a bank like any other.
Command(commands) ==
  /\ batch = <<>>
  /\ \E writes \in EncodedAll(commands) : \E merged \in merge_register_writes(writes) :
       queue' = group_contiguous(merged)
  /\ batch' = commands
  /\ UNCHANGED <<bank, earlier, written>>

Send ==
  /\ queue # <<>>
  /\ bank' = [a \in DOMAIN bank |->
       LET ws == {w \in Range(Head(queue)) : w.address = a}
       IN  IF ws = {} THEN bank[a] ELSE UNION {(bank[a] \ w.mask) \cup w.value : w \in ws}]
  /\ queue' = Tail(queue)
  /\ written' = written \o [i \in DOMAIN Head(queue) |-> Head(queue)[i].address]
  /\ UNCHANGED <<batch, earlier>>

WritesNext == Send \/ \E commands \in Batches : Command(commands)

WritesSpec == WritesInit /\ [][WritesNext]_writeVars

-----------------------------------------------------------------------------
\* What a frame's signal reads as from the device.
ReadFrom(registers, found) ==
  LET base == protocol_address(WriteMeta, found[1])
  IN  DecodeSignal(WriteMeta, found[2], [i \in 1 .. found[1].length |-> registers[base + i - 1]])

WritableSignals ==
  UNION {{<<f, s>> : s \in Range(f.signals)} : f \in {g \in Range(WriteFrames) : IsWritable(g.register_type)}}
Commanded(found)  == {c \in Range(batch) : found \in find_write_signal(WriteFrames, c[1])}

Landed ==
  \A found \in WritableSignals :
    IF Commanded(found) = {} THEN ReadFrom(bank, found) = ReadFrom(earlier, found)
    ELSE \E c \in Commanded(found) :
           LET raw == scale_to_raw(found[2], c[2])
           IN  ReadFrom(bank, found) = <<BitsOfInteger(raw, found[2].bit_length), raw < 0>>

InAskedOrder ==
  \A writes \in EncodedAll(batch) :
    LET asked == [i \in DOMAIN writes |-> writes[i].address]
        First(a) == CHOOSE i \in DOMAIN asked : asked[i] = a /\ \A j \in 1 .. i - 1 : asked[j] # a
    IN  \A i, j \in DOMAIN written : i < j => First(written[i]) < First(written[j])

\* Once the groups of a batch are sent, every signal it names reads as what
\* was asked for, as near as its width allows, and every other one as before:
\* through scaling, sign, word order, fields that share a register and however
\* the writes were merged and grouped. ("the inverse of decode_frame") On the
\* way no register is written twice or before one that was asked for earlier; a
\* command that shares a register with an earlier one goes with that one.
\* ("First-occurrence order is preserved (so the operator's command order
\* survives)")
WritesLand == InAskedOrder /\ (queue = <<>> => Landed)
=============================================================================
