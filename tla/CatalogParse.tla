---------------------------- MODULE CatalogParse ----------------------------
(***************************************************************************)
(* What Catalog::parse makes of a document                                 *)
(* (crates/wiretap-catalog/src/parse.rs), the Modbus section apart: that   *)
(* is read by the manifest. A signal keeps its place, its name, its order  *)
(* and whether it was inherited; units, scales and notes are left out.     *)
(***************************************************************************)
EXTENDS TomlDocument

CONSTANTS
  CaseParts \* the keys that read as mux cases -> their parts, <<n>> or <<n, m>>,
            \* or <<>> for one the parser does not take

CanFrames    == <<"frame", "can">>
SerialFrames == <<"frame", "serial">>
ModbusFrames == <<"frame", "modbus">>

\* A key is a number in decimal or after 0x; anything else names no frame.
parse_id(key) == get(Numbers, key)

\* A reference is written as a key or as a number.
RefNumber(doc, path) ==
  as_u32(doc, path) \cup UNION {parse_id(s) : s \in as_str(doc, path)}

\* The first frame, in the order of the keys, whose key denotes that number.
find_frame_by_numeric_id(doc, section, target) ==
  FirstKey({k \in Keys(doc, section) : target # {} /\ parse_id(k) = target})

parse_endianness(texts) == texts \cap {"big", "little"}

endianness_at(t, one, other) ==
  Or(parse_endianness(as_str(t, one)), parse_endianness(as_str(t, other)))

normalise_signal(raw, inherited) ==
  [start_bit |-> as_u32(raw, "start_bit"), bit_length |-> as_u32(raw, "bit_length"),
   name |-> as_str(raw, "name"), signed |-> as_bool(raw, "signed"),
   endianness |-> endianness_at(raw, "byte_order", "endianness"),
   word_order |-> parse_endianness(as_str(raw, "word_order")),
   format |-> as_str(raw, "format"), inherited |-> inherited \/ as_bool(raw, "_inherited") = {TRUE}]

raw_signals(doc, body) ==
  LET Array(key) == Held(doc, body \o <<key>>, "array")
  IN  Else(IF body \o <<"signals">> \in DOMAIN doc THEN Array("signals") ELSE Array("signal"), <<>>)

normalise_signals(list) == [i \in DOMAIN list |-> normalise_signal(list[i], FALSE)]

-----------------------------------------------------------------------------
\* A negative interval is no interval, and hides the spellings after it.
frame_interval(doc, body) ==
  LET Spelt(path) == as_i64(doc, body \o path)
  IN  {ms \in Or(Or(Spelt(<<"interval_ms">>), Spelt(<<"interval">>)),
                 Or(Spelt(<<"tx", "interval_ms">>), Spelt(<<"tx", "interval">>))) : ms >= 0}

bit_key(raw) ==
  <<Else(as_i64(raw, "start_bit"), 0), Else(as_i64(raw, "bit_length"), 0)>>

\* What a frame takes from the frame it copies or mirrors: what it lacks.
inherit_metadata(doc, body, src, out) ==
  LET length      == IF as_i64(doc, body \o <<"length">>) = {}
                     THEN as_u32(doc, src \o <<"length">>) ELSE {}
      transmitter == IF as_str(doc, body \o <<"transmitter">>) = {}
                     THEN as_str(doc, src \o <<"transmitter">>) ELSE {}
      interval    == IF frame_interval(doc, body) = {} THEN frame_interval(doc, src) ELSE {}
  IN  [length |-> Or(length, out.length), transmitter |-> Or(transmitter, out.transmitter),
       interval |-> Or(interval, out.interval)]

\* The mirror's own signals elsewhere are forgotten.
MirrorOfSource(own, primary) ==
  [i \in DOMAIN primary |-> normalise_signal(primary[i], \A j \in DOMAIN own : bit_key(own[j]) # bit_key(primary[i]))]

\* A mirror shows its source's signals, each overridden by the last of its own
\* in that place, and then those of its own in other places.
MirrorSignals(own, primary) ==
  LET At(place)  == {i \in DOMAIN own : bit_key(own[i]) = place}
      Newest(set) == CHOOSE i \in set : \A j \in set : j <= i
      Shown(raw) == IF At(bit_key(raw)) = {} THEN normalise_signal(raw, TRUE)
                    ELSE normalise_signal(own[Newest(At(bit_key(raw)))], FALSE)
      IsNew(raw) == \A j \in DOMAIN primary : bit_key(primary[j]) # bit_key(raw)
  IN  [i \in DOMAIN primary |-> Shown(primary[i])] \o normalise_signals(SelectSeq(own, IsNew))

\* Copying is for what a frame lacks, mirroring for the signals too; a frame
\* that names one to copy takes nothing it lacks from the one it mirrors.
resolve_mirror_inheritance(doc, body) ==
  LET own     == raw_signals(doc, body)
      Path(k) == CanFrames \o <<k>>
      Source(key) == {Path(k) : k \in find_frame_by_numeric_id(doc, CanFrames, RefNumber(doc, body \o <<key>>))}
      Nothing == [length |-> {}, transmitter |-> {}, interval |-> {}]
      copied  == IF Source("copy") = {} THEN Nothing
                 ELSE inherit_metadata(doc, body, Else(Source("copy"), <<>>), Nothing)
      src     == Else(Source("mirror_of"), <<>>)
      IsCopy  == as_str(doc, body \o <<"copy">>) \cup {"n" : n \in as_i64(doc, body \o <<"copy">>)} # {}
      Mux(p)  == {p \o <<"mux">>} \cap DOMAIN doc
  IN  IF Source("mirror_of") = {}
      THEN [signals |-> normalise_signals(own), mux |-> Mux(body), inherited |-> copied]
      ELSE [signals   |-> MirrorSignals(own, raw_signals(doc, src)),
            mux       |-> Or(Mux(body), Mux(src)),
            inherited |-> IF IsCopy THEN copied ELSE inherit_metadata(doc, body, src, copied)]

-----------------------------------------------------------------------------
\* A mux table's keys are its own fields or its cases, and only cases written
\* in digits, ranges of them and lists of both.
is_mux_case_key(key) ==
  key \in DOMAIN CaseParts /\ \A i \in DOMAIN CaseParts[key] : CaseParts[key][i] # <<>>

RECURSIVE parse_mux(_, _)
parse_mux(doc, mux) ==
  [start_bit  |-> Else(as_u32(doc, mux \o <<"start_bit">>), 0),
   bit_length |-> Else(as_u32(doc, mux \o <<"bit_length">>), 8),
   cases      |-> [key \in {k \in Keys(doc, mux) : is_mux_case_key(k)} |->
     LET case == mux \o <<key>>
     IN  [signals |-> normalise_signals(Else(Held(doc, case \o <<"signals">>, "array"), <<>>)),
          mux     |-> {parse_mux(doc, m) : m \in {case \o <<"mux">>} \cap DOMAIN doc}]]]

\* An offset is absent (no value), usable, or there and unusable ({}).
byte_offset(t, key) == IF key \in DOMAIN t THEN {{n} : n \in as_i64(t, key)} ELSE {{}}

\* A checksum with an offset that is there and unusable is dropped whole.
one_checksum(c) ==
  {[algorithm |-> algorithm, start_byte |-> start, byte_length |-> Else(as_u32(c, "byte_length"), 1),
    calc_start_byte |-> Else(first, 0), calc_end_byte |-> end] :
     algorithm \in as_str(c, "algorithm"), start \in UNION byte_offset(c, "start_byte"),
     first \in byte_offset(c, "calc_start_byte"), end \in byte_offset(c, "calc_end_byte")}

TableAt(doc, path) == [k \in Keys(doc, path) |-> doc[path \o <<k>>]]

\* An array of tables, or one table.
parse_frame_checksums(doc, path) ==
  LET Usable(c) == one_checksum(c) # {}
      list == IF IsTable(doc, path) THEN <<TableAt(doc, path)>>
              ELSE Else(Held(doc, path, "array"), <<>>)
  IN  [i \in DOMAIN SelectSeq(list, Usable) |-> Else(one_checksum(SelectSeq(list, Usable)[i]), {})]

\* The checksum of a serial protocol, read by the same rules.
parse_checksum(doc, path) == IF IsTable(doc, path) THEN one_checksum(TableAt(doc, path)) ELSE {}

parse_tunnel(doc, body) ==
  {[protocol |-> p, device_address |-> as_u8(doc, body \o <<"tunnel", "device_address">>)] :
     p \in as_str(doc, body \o <<"tunnel", "protocol">>) \cap {"modbus_rtu"}}

-----------------------------------------------------------------------------
\* A mask as the set of its bits. A field of a serial header may be given by
\* its bytes instead; a shift of 32 or more wraps round, what leaves the word
\* is lost.
MaskBits(n) == {k \in 0 .. 30 : (n \div 2 ^ k) % 2 = 1}

LegacyMask(start_byte, bytes) ==
  LET shift == (8 * start_byte) % 32
  IN  {k + shift : k \in 0 .. (IF 8 * bytes >= 32 THEN 31 ELSE 8 * bytes - 1)} \cap (0 .. 31)

parse_header_fields(doc, fields, serial) ==
  LET At(name, key) == as_u32(doc, fields \o <<name, key>>)
      Masks(name) ==
        IF At(name, "mask") # {} THEN {MaskBits(m) : m \in At(name, "mask")}
        ELSE {LegacyMask(b, Else(At(name, "bytes"), 1)) : b \in IF serial THEN At(name, "start_byte") ELSE {}}
  IN  [name \in {n \in Keys(doc, fields) : Masks(n) # {}} |->
        [mask |-> Else(Masks(name), {}), shift |-> At(name, "shift"),
         endianness |-> Or(parse_endianness(as_str(doc, fields \o <<name, "endianness">>)),
                           parse_endianness(as_str(doc, fields \o <<name, "byte_order">>)))]]

\* The first byte a mask touches and how many it spans.
mask_to_byte_position(mask) ==
  LET Byte(k) == k \div 8
      first   == Byte(CHOOSE k \in mask : \A j \in mask : k <= j)
      last    == Byte(CHOOSE k \in mask : \A j \in mask : j <= k)
  IN  IF mask = {} THEN {} ELSE {<<first, last - first + 1>>}

Endian(doc, path) == parse_endianness(as_str(doc, path))

parse_can_config(doc) ==
  LET section == IF <<"meta", "can">> \in DOMAIN doc THEN <<"meta", "can">>
                 ELSE CanFrames \o <<"config">>
      At(key) == section \o <<key>>
  IN  [default_byte_order |-> Or(Endian(doc, At("default_byte_order")), Endian(doc, At("default_endianness"))),
       default_interval   |-> as_u32(doc, At("default_interval")),
       default_extended   |-> as_bool(doc, At("default_extended")),
       default_fd         |-> as_bool(doc, At("default_fd")),
       frame_id_mask      |-> as_u32(doc, At("frame_id_mask")),
       fields             |-> parse_header_fields(doc, At("fields"), FALSE)]

\* The places of the header's fields, and of the id and the source address
\* among them, are worked out from the masks once.
parse_serial_config(doc) ==
  LET At(key)  == <<"meta", "serial", key>>
      fields   == parse_header_fields(doc, At("fields"), TRUE)
      Place(n) == IF n \in DOMAIN fields THEN mask_to_byte_position(fields[n].mask) ELSE {}
  IN  [byte_order |-> Endian(doc, At("byte_order")), frame_id_mask |-> as_u32(doc, At("frame_id_mask")),
       header_length |-> as_u32(doc, At("header_length")), fields |-> fields,
       checksum |-> parse_checksum(doc, At("checksum")),
       header_fields |-> [n \in {m \in DOMAIN fields : Place(m) # {}} |-> Place(n)],
       frame_id |-> Place("id"), source_address |-> Place("source_address")]

parse_modbus_config(doc) ==
  LET At(key) == <<"meta", "modbus", key>>
  IN  [device_address |-> as_u8(doc, At("device_address")),
       register_base  |-> as_i64(doc, At("register_base")) \cap {0, 1},
       default_interval |-> as_u32(doc, At("default_interval")),
       default_byte_order |-> Or(Endian(doc, At("default_byte_order")), Endian(doc, At("byte_order"))),
       default_word_order |-> Endian(doc, At("default_word_order"))]

-----------------------------------------------------------------------------
\* Every field of a CAN frame: its own, else the frame's it copies or mirrors,
\* else the catalogue's default, else what the code says.
CanFrame(doc, key) ==
  LET body     == CanFrames \o <<key>>
      id       == Else(parse_id(key), 0)
      resolved == resolve_mirror_inheritance(doc, body)
      can      == parse_can_config(doc)
      own      == [length |-> as_i64(doc, body \o <<"length">>), interval |-> frame_interval(doc, body),
                   transmitter |-> as_str(doc, body \o <<"transmitter">>),
                   extended |-> as_bool(doc, body \o <<"extended">>), fd |-> as_bool(doc, body \o <<"fd">>)]
      interval == Or(own.interval, Or(resolved.inherited.interval, can.default_interval))
  IN  [key |-> key, frame_id |-> id, protocol |-> "can",
       length      |-> Else(Or(as_u32(doc, body \o <<"length">>), resolved.inherited.length), 8),
       transmitter |-> Or(own.transmitter, resolved.inherited.transmitter),
       interval    |-> interval,
       is_extended |-> Else(Or(own.extended, can.default_extended), id > 2047),
       is_fd       |-> Else(Or(own.fd, can.default_fd), FALSE),
       signals     |-> resolved.signals,
       mux         |-> {parse_mux(doc, m) : m \in resolved.mux},
       tunnel      |-> parse_tunnel(doc, body),
       checksums   |-> parse_frame_checksums(doc, body \o <<"checksum">>),
       inherited_fields |->
         {f \in {"length", "transmitter"} : own[f] = {} /\ resolved.inherited[f] # {}}
           \cup {f \in {"interval"} : own[f] = {} /\ interval # {}}
           \cup {f \in {"extended"} : own[f] = {}}
           \cup {f \in {"fd"} : own[f] = {} /\ can.default_fd # {}}]

\* A serial frame inherits nothing.
SerialFrame(doc, key) ==
  LET body == SerialFrames \o <<key>>
  IN  [key |-> key, frame_id |-> Else(parse_id(key), 0), protocol |-> "serial",
       length    |-> Else(as_u32(doc, body \o <<"length">>), 0),
       interval  |-> frame_interval(doc, body),
       transmitter |-> as_str(doc, body \o <<"transmitter">>),
       signals   |-> normalise_signals(Else(Held(doc, body \o <<"signals">>, "array"), <<>>)),
       mux       |-> {parse_mux(doc, m) : m \in {body \o <<"mux">>} \cap DOMAIN doc},
       checksums |-> parse_frame_checksums(doc, body \o <<"checksum">>)]

FrameKeys(doc, section) == {k \in Keys(doc, section) : k # "config" /\ parse_id(k) # {}}
CanOf(doc)    == {CanFrame(doc, k) : k \in FrameKeys(doc, CanFrames)}
SerialOf(doc) == {SerialFrame(doc, k) : k \in FrameKeys(doc, SerialFrames)}

\* Without a default the protocol is that of the frames there are.
ProtocolOf(doc) ==
  LET Has(section) == Keys(doc, section) \ {"config"} # {}
      default == as_str(doc, <<"meta", "default_frame">>) \cap {"can", "serial", "modbus"}
  IN  IF default # {} THEN Else(default, "can")
      ELSE IF Has(ModbusFrames) /\ ~Has(CanFrames) /\ ~Has(SerialFrames) THEN "modbus"
      ELSE IF Has(SerialFrames) /\ ~Has(CanFrames) THEN "serial"
      ELSE "can"

parse_nodes(doc) ==
  {[name |-> n, device_address |-> as_u8(doc, <<"node", n, "device_address">>)] : n \in Keys(doc, <<"node">>)}
=============================================================================
