---------------------------- MODULE MC_Catalogue ----------------------------
(* A catalogue edited and migrated, registers written, payloads decoded: a   *)
(* run explores each on its own, the one that part names.                    *)
(* Documents: a frame with a multiplexer, a mirror of it and one that copies *)
(* another, named by both spellings of a number; registers of before there   *)
(* were nodes; registers with nodes and a serial frame.                      *)
(* Registers: ten in two frames, one after the other and the second in the   *)
(* traditional numbering: words, a long of either word order, one of three   *)
(* words, and fields that share a register, some read only.                  *)
(* Payloads: signals across bytes in both orders, with a sign, and a         *)
(* multiplexer in a multiplexer, under an id with a mask; a serial header of *)
(* fields in both orders; registers with swapped words.                      *)
EXTENDS CatalogDocument, RegisterWrites, CatalogDecode

CONSTANT Parts

VARIABLE part

catalogueVars == <<part, docVars, writeVars, decodeVars>>

DocIdle    == doc = <<>> /\ edits = 0 /\ touched = {} /\ renamed = <<>>
WritesIdle == bank = (CHOOSE b \in Banks : TRUE) /\ earlier = bank /\ queue = <<>> /\ batch = <<>> /\ written = <<>>
DecodeIdle == catalogue = <<>> /\ raw_id = 0 /\ payload = <<>>

MCInit ==
  /\ part \in Parts
  /\ IF part = "documents" THEN DocInit ELSE DocIdle
  /\ IF part = "writes" THEN WritesInit ELSE WritesIdle
  /\ IF part = "payloads" THEN DecodeInit ELSE DecodeIdle

MCNext ==
  /\ UNCHANGED part
  /\ \/ part = "documents" /\ DocNext /\ UNCHANGED <<writeVars, decodeVars>>
     \/ part = "writes" /\ WritesNext /\ UNCHANGED <<docVars, decodeVars>>
     \/ part = "payloads" /\ DecodeNext /\ UNCHANGED <<docVars, writeVars>>

MCSpec == MCInit /\ [][MCNext]_catalogueVars

-----------------------------------------------------------------------------
Place(name, start, length) == [name |-> Str(name), start_bit |-> Num(start), bit_length |-> Num(length)]

\* A document of some tables, each given as its path and its fields.
Doc(tables) ==
  LET paths == UNION {PathsTo(t[1]) : t \in tables}
      fields == UNION {{<<t[1], k>> : k \in DOMAIN t[2]} : t \in tables}
      Of(f) == (CHOOSE t \in tables : t[1] = f[1] /\ f[2] \in DOMAIN t[2])[2][f[2]]
  IN  [p \in {f[1] \o <<f[2]>> : f \in fields} |->
         Of(<<Front(p), Last(p)>>)] @@ [p \in paths |-> Tab]

CanKey(k) == CanFrames \o <<k>>
Reg(k)    == ModbusFrames \o <<k>>
Empty     == [k \in {} |-> Tab]

CanDoc ==
  Doc({<<<<"meta">>, [name |-> Str("N2")]>>, <<<<"node", "N1">>, [device_address |-> Num(1)]>>,
       <<CanKey("0x10"), [length |-> Num(4), transmitter |-> Str("N1"),
          signals |-> Arr(<<Place("a", 0, 8), Place("b", 8, 8)>>)]>>,
       <<CanKey("0x10") \o <<"tx">>, [interval_ms |-> Num(100)]>>,
       <<CanKey("0x10") \o <<"mux">>, [start_bit |-> Num(16)]>>,
       <<CanKey("0x10") \o <<"mux", "0">>, [signals |-> Arr(<<Place("c", 24, 8)>>)]>>,
       <<CanKey("0x11"), [mirror_of |-> Str("16"), transmitter |-> Str("N2"),
          signals |-> Arr(<<Place("d", 8, 8), Place("e", 32, 8)>>)]>>,
       <<CanKey("18"), [copy |-> Num(17), mirror_of |-> Num(16), extended |-> Bool(TRUE)]>>})

OldDoc ==
  Doc({<<<<"meta", "modbus">>, [device_address |-> Num(3), default_interval |-> Num(70)]>>,
       <<Reg("0x10"), [register_type |-> Str("input"), name |-> Str("a"), interval |-> Num(9)]>>,
       <<Reg("N1"), [register_number |-> Num(7), length |-> Num(2)]>>,
       <<Reg("N1") \o <<"tx">>, [interval |-> Num(100)]>>,
       <<SerialFrames \o <<"18">>, [length |-> Num(3)]>>,
       <<SerialFrames \o <<"18", "tx">>, [interval_ms |-> Num(5)]>>})

NodeDoc ==
  Doc({<<<<"node", "N1">>, [device_address |-> Num(3)]>>, <<<<"node", "N2">>, [notes |-> Str("b")]>>,
       <<<<"meta">>, [version |-> Num(4)]>>, <<CanKey("0x11"), [transmitter |-> Str("N2")]>>,
       <<Reg("0x10"), [node_address |-> Num(3)]>>, <<Reg("18"), [node_address |-> Num(4), disabled |-> Bool(TRUE)]>>})

\* A frame with both old spellings, as only a hand would write.
TwiceDoc ==
  Doc({<<CanKey("0x10") \o <<"tx">>, [interval_ms |-> Num(100), interval |-> Num(50)]>>})

MCDocuments == {CanDoc, OldDoc, NodeDoc}
MCTwice == {TwiceDoc}

MCNumbers == ("0x10" :> 16) @@ ("16" :> 16) @@ ("0x11" :> 17) @@ ("18" :> 18) @@ ("40001" :> 40001) @@ ("40003" :> 40003)
MCTexts   == <<"", "0", "0x10", "0x11", "1-2", "16", "18", "2,4", "3-1", "4", "40001", "40003", "6-9", "N1", "N2", "N3",
               "Slave 3", "low", "sa", "sender">>
MCQuoted  == "'0x11'" :> "0x11"
MCCaseParts == ("0" :> <<<<0>>>>) @@ ("1-2" :> <<<<1, 2>>>>) @@ ("-1" :> <<<<>>>>) @@ ("2,4" :> <<<<2>>, <<4>>>>)
                 @@ ("3-1" :> <<<<3, 1>>>>) @@ ("4" :> <<<<4>>>>) @@ ("6-9" :> <<<<6, 9>>>>)
MCCaseNames == {"0", "1-2", "-1"}

MCFrameKeys == {"0x10", "16", "'0x11'"}
MCFrameValues == {Empty, [mirror_of |-> Num(17)], [length |-> Num(2), tx |-> Object([interval |-> Num(7)])],
                  [transmitter |-> Null]}
MCSignalValues == {Place("x", 0, 8), Place("y", 8, 4), [name |-> Str("z"), start_bit |-> Num(8), bit_length |-> Null]}
MCNodeNames == {"N1", "N2", "N3"}

Tunnel(protocol, address) == [protocol |-> Str(protocol), device_address |-> Num(address)]
MCTunnels == {Tunnel("modbus_rtu", 3), Tunnel("modbus_tcp", 3), Tunnel("modbus_rtu", 300)}

FrameForm(protocol, key, value) ==
  [protocol |-> protocol, key |-> key, value |-> value, length |-> as_i64(value, "length"), max_length |-> {},
   interval |-> {}, transmitter |-> {}, available_peers |-> {"N1"}, extended |-> {}, delimiter |-> {}]
MCFrameForms == {FrameForm("can", k, [length |-> Num(n)]) : k \in {"0x10", "16", "99999999999"}, n \in {8, 65}}
                  \cup {FrameForm("serial", k, Empty) : k \in {"16", "18", "low"}}

SignalForm(start, length, least, format) ==
  [name |-> "x", start_bit |-> start, bit_length |-> length, endianness |-> {"big"}, min |-> least, max |-> {0},
   format |-> format]
MCSignalForms ==
  {SignalForm(start, length, least, format) :
     start \in {{}, {-1}, {4}}, length \in {{}, {0}, {64}, {65}}, least \in {{0}, {1}}, format \in {{}, {"ascii"}}}

-----------------------------------------------------------------------------
Sig(name, start, length, signed, factor, offset, order) ==
  [name |-> name, format |-> {}, start_bit |-> start, bit_length |-> length, signed |-> signed,
   factor |-> factor, offset |-> offset, byte_order |-> {}, word_order |-> order]

MCWriteMeta == [register_base |-> 1, default_byte_order |-> {}, default_word_order |-> {"little"}]

Block(type, number, length, signals) ==
  [register_type |-> type, register_number |-> number, length |-> length, signals |-> signals]

MCWriteFrames ==
  <<Block("input", 30011, 1, <<Sig("mode", 0, 16, FALSE, {}, {}, {})>>),
    Block("holding", 40011, 6,
      <<Sig("mode", 0, 16, FALSE, {}, {}, {}), Sig("low", 28, 4, TRUE, {2}, {1}, {}),
        Sig("high", 16, 7, FALSE, {}, {-3}, {}), Sig("power", 32, 32, TRUE, {-10}, {}, {}),
        Sig("odd", 76, 8, FALSE, {}, {}, {})>>),
    Block("holding", 40017, 3, <<Sig("energy", 0, 48, TRUE, {0}, {}, {"big"})>>)>>

MCBatches ==
  LET values == {-70000, -3, 0, 5, 70000}
      single == {<<n, v>> : n \in {"mode", "low", "high", "power", "energy", "odd"}, v \in values}
      few    == {<<n, v>> : n \in {"mode", "low", "high", "power", "energy"}, v \in {-3, 70000}}
  IN  {<<c>> : c \in single} \cup {<<c, d>> : c, d \in few} \cup
      {<<<<a, 5>>, <<b, 5>>, <<c, -3>>>> : a, b, c \in {"mode", "low", "high", "power", "energy"}}

MCBanks == {[a \in 10 .. 18 |-> {k \in 0 .. 15 : (a * k) % n = 1}] : n \in {1, 2, 3}}

-----------------------------------------------------------------------------
Wide(name, start, length, fields) ==
  fields @@ [name |-> Str(name), start_bit |-> Num(start), bit_length |-> Num(length)]
Case(name, start) == [signals |-> Arr(<<Place(name, start, 4)>>)]

MuxDoc ==
  Doc({<<<<"meta", "can">>, [frame_id_mask |-> Num(255)]>>,
       <<<<"meta", "can", "fields", "sa">>, [mask |-> Num(256)]>>,
       <<<<"meta", "can", "fields", "sender">>, [mask |-> Num(3840), shift |-> Num(9)]>>,
       <<<<"meta", "can", "fields", "low">>, [mask |-> Num(31)]>>,
       <<CanKey("0x10"), [signals |-> Arr(<<Wide("a", 4, 12, [signed |-> Bool(TRUE)]),
          Wide("b", 4, 12, [byte_order |-> Str("big")]), Wide("c", 4, 18, [word_order |-> Str("little")]),
          Wide("d", 0, 16, [format |-> Str("ascii")])>>)]>>,
       <<CanKey("0x10") \o <<"mux">>, [start_bit |-> Num(0), bit_length |-> Num(4)]>>,
       <<CanKey("0x10") \o <<"mux", "2,4">>, Case("e", 4)>>, <<CanKey("0x10") \o <<"mux", "4">>, Case("f", 4)>>,
       <<CanKey("0x10") \o <<"mux", "6-9">>, Case("g", 6)>>, <<CanKey("0x10") \o <<"mux", "3-1">>, Case("h", 8)>>,
       <<CanKey("0x10") \o <<"mux", "6-9", "mux">>, [start_bit |-> Num(7), bit_length |-> Num(3)]>>,
       <<CanKey("0x10") \o <<"mux", "6-9", "mux", "1-2">>, Case("i", 12)>>})

LineDoc ==
  Doc({<<<<"meta", "serial">>, [byte_order |-> Str("big")]>>,
       <<<<"meta", "serial", "fields", "sa">>, [mask |-> Num(4080)]>>,
       <<<<"meta", "serial", "fields", "low">>, [mask |-> Num(65532), endianness |-> Str("little")]>>,
       <<<<"meta", "serial", "fields", "id">>, [mask |-> Num(255)]>>,
       <<SerialFrames \o <<"0x10">>, [signals |-> Arr(<<Place("a", 10, 9)>>)]>>})

\* The three that follow would be one address on the wire were they not apart
\* in kind or slave.
BlockDoc(fields) ==
  Doc({<<<<"meta", "modbus">>, fields @@ [register_base |-> Num(1), default_word_order |-> Str("little")]>>,
       <<Reg("0x10"), [length |-> Num(2), signals |-> Arr(<<Wide("a", 0, 32, [signed |-> Bool(TRUE)]),
          Wide("b", 0, 16, [signed |-> Bool(TRUE)]), Wide("c", 8, 24, Empty), Wide("d", 0, 16, [format |-> Str("ascii")])>>)]>>,
       <<Reg("40001"), [signed |-> Bool(TRUE)]>>, <<Reg("40003"), [register_number |-> Num(40001), node_address |-> Num(2)]>>})

MCCatalogues == {MuxDoc, LineDoc, BlockDoc(Empty), BlockDoc([default_byte_order |-> Str("little")])}
MCLegacy     == {BlockDoc([byte_order |-> Str("little")])}
MCBytes == {{2}, {0, 1, 7}, {1, 2, 4, 7}, {0, 3}}
=============================================================================
