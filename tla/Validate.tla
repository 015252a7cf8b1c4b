------------------------------ MODULE Validate ------------------------------
(***************************************************************************)
(* What is found wrong with a catalogue, and with the forms it is edited   *)
(* by (crates/wiretap-catalog/src/validate.rs). A finding is the path it   *)
(* is shown at and what it is about; how it is worded is left out. A       *)
(* document that is not TOML, and what is not a table among the signals of *)
(* an array, cannot be written here. A blank text is "".                   *)
(***************************************************************************)
EXTENDS ModbusManifest

CONSTANTS
  Oversized,  \* keys in digits that are no number of 32 bits
  Identifiers, \* keys that are identifiers
  DbcNames    \* the names a DBC file takes: short, of letters, digits and _

Finding(found, path, about) == IF found THEN {<<path, about>>} ELSE {}
Amiss(found, field)         == IF found THEN {field} ELSE {}

Outside(maybe, allowed) == maybe \ allowed # {}

IsTableValue(doc, path) == path \in DOMAIN doc /\ doc[path] \in {Tab, Inline}

-----------------------------------------------------------------------------
\* A document. A name that is missing hides whatever else is wrong.
validate_meta(doc) ==
  LET meta == TableAt(doc, <<"meta">>)
  IN  IF ~IsTableValue(doc, <<"meta">>) THEN {<<<<"meta">>, "missing">>}
      ELSE Finding("name" \notin DOMAIN meta, <<"meta", "name">>, "missing")
             \cup Finding(\E v \in as_i64(meta, "version") : v < 1, <<"meta", "version">>, "range")
             \cup Finding(Outside(as_str(meta, "default_endianness"), {"little", "big"}),
                          <<"meta", "default_endianness">>, "unknown")

validate_signal(prefix, list, i) ==
  LET table == list[i]
      name  == as_str(table, "name")
      At(key) == prefix \o <<"signal", i, key>>
      least == as_i64(table, "min")
      most  == as_i64(table, "max")
  IN  IF name = {} THEN {<<At("name"), "missing">>}
      ELSE Finding(\E j \in 1 .. i - 1 : as_str(list[j], "name") = name, At("name"), "duplicate")
             \cup Finding(Outside(name, DbcNames), At("name"), "export")
             \cup Finding("start_bit" \notin DOMAIN table, At("start_bit"), "missing")
             \cup Finding(\E b \in as_i64(table, "start_bit") : b < 0, At("start_bit"), "range")
             \cup Finding("bit_length" \notin DOMAIN table, At("bit_length"), "missing")
             \cup Finding(Outside(as_i64(table, "bit_length"), 1 .. 64), At("bit_length"), "range")
             \cup Finding(Outside(as_str(table, "endianness"), {"little", "big"}), At("endianness"), "unknown")
             \cup Finding(\E a \in least, b \in most : a > b, At("min"), "range")

validate_signals(prefix, list) == UNION {validate_signal(prefix, list, i) : i \in DOMAIN list}

\* Cases are looked at under one number, a negative one too, and not under a
\* range or a list.
IsCaseNumber(key) ==
  key \in DOMAIN CaseParts /\ Len(CaseParts[key]) = 1 /\ Len(CaseParts[key][1]) <= 1

RECURSIVE validate_mux_object(_, _)
validate_mux_object(doc, prefix) ==
  LET at    == prefix \o <<"mux">>
      table == TableAt(doc, at)
      cases == {k \in Keys(doc, at) : IsCaseNumber(k) /\ IsTableValue(doc, at \o <<k>>)}
      Nested(case) == IF case \o <<"mux">> \in DOMAIN doc THEN validate_mux_object(doc, case) ELSE {}
  IN  IF ~IsTableValue(doc, at) THEN {<<at, "kind">>}
      ELSE {<<at \o <<k>>, "missing">> : k \in {"name", "start_bit", "bit_length"} \ DOMAIN table}
             \cup Finding("name" \in DOMAIN table /\ as_str(table, "name") = {}, at \o <<"name">>, "kind")
             \cup UNION {validate_signals(at \o <<k>>, Else(Held(doc, at \o <<k, "signals">>, "array"), <<>>))
                           \cup Nested(at \o <<k>>) : k \in cases}

\* Variant: any protocol will do.
AnyTunnel(doc, prefix) ==
  LET at == prefix \o <<"tunnel">>
  IN  IF ~IsTableValue(doc, at) THEN {<<at, "kind">>}
      ELSE Finding(as_str(doc, at \o <<"protocol">>) = {}, at \o <<"protocol">>, "unknown")

validate_tunnel(doc, prefix) ==
  LET at == prefix \o <<"tunnel">>
  IN  IF ~IsTableValue(doc, at) THEN {<<at, "kind">>}
      ELSE Finding(as_str(doc, at \o <<"protocol">>) # {"modbus_rtu"}, at \o <<"protocol">>, "unknown")
             \cup Finding(Outside(as_i64(doc, at \o <<"device_address">>), 1 .. 247),
                          at \o <<"device_address">>, "range")

\* Of both spellings the old one is looked at here; the parser reads the other.
validate_can_frame(doc, key) ==
  LET prefix == CanFrames \o <<key>>
      Has(k) == prefix \o <<k>> \in DOMAIN doc
      signals == Held(doc, prefix \o <<IF Has("signal") THEN "signal" ELSE "signals">>, "array")
  IN  IF ~IsTableValue(doc, prefix) THEN {<<prefix, "kind">>}
      ELSE Finding(Outside(as_i64(doc, prefix \o <<"length">>), 0 .. 64), prefix \o <<"length">>, "range")
             \cup UNION {validate_signals(prefix, list) : list \in signals}
             \cup (IF Has("mux") THEN validate_mux_object(doc, prefix) ELSE {})
             \cup (IF Has("tunnel") THEN validate_tunnel(doc, prefix) ELSE {})

\* Of what fails the registers only one is reported, the first without a number.
validate_modbus(doc) ==
  LET bad == FirstKey({k \in Keys(doc, ModbusFrames) : ~Addressed(doc, k)})
  IN  IF ManifestParses(doc) THEN {<<ModbusFrames \o <<k>>, "register">> : k \in bad} ELSE {}

validate_serial_encoding(doc) ==
  LET config  == SerialFrames \o <<"config">>
      Said(section) == as_str(doc, section \o <<"encoding">>) \ {""} # {}
  IN  Finding(/\ Keys(doc, SerialFrames) \ {"config"} # {}
              /\ ~Said(<<"meta", "serial">>) /\ ~Said(config), config \o <<"encoding">>, "missing")

validate(doc) ==
  validate_meta(doc) \cup UNION {validate_can_frame(doc, k) : k \in Keys(doc, CanFrames) \ {"config"}}
    \cup validate_modbus(doc) \cup validate_serial_encoding(doc)

-----------------------------------------------------------------------------
\* The forms, each a record of its fields; what is found is the fields amiss.
validate_meta_fields(m) == Amiss(m.name = "", "name") \cup Amiss(m.version < 1, "version")

\* The shape of an enum is left out. Text may be longer than a number.
validate_signal_fields(s) ==
  LET most == IF s.format \cap {"utf8", "ascii", "hex"} # {} THEN 2048 ELSE 64
  IN  Amiss(s.name = "", "name")
        \cup Amiss(\A b \in s.start_bit : b < 0, "start_bit")
        \cup Amiss(s.bit_length \cap 1 .. most = {}, "bit_length")
        \cup Amiss(Outside(s.endianness, {"little", "big"}), "endianness")
        \cup Amiss(\E a \in s.min, b \in s.max : a > b, "range")

IsIdText(key) == key \in DOMAIN Numbers \cup Oversized

\* Variant: a key is looked up only for a frame that is new.
TakenByNew(f) == f.original_key = {} /\ f.key \in f.existing_keys

\* Whether another frame has that key, in the same spelling.
Taken(f) == f.original_key # {f.key} /\ f.key \in f.existing_keys

validate_frame_fields(f) ==
  LET OutOfRange(num) == num > (IF Else(f.extended, num > 2047) THEN 536870911 ELSE 2047)
      common == Amiss(Outside(f.length, 0 .. Else(f.max_length, 64)), "length")
                  \cup Amiss(\E ms \in f.interval : ms < 0, "interval")
                  \cup Amiss(f.available_peers # {} /\ Outside(f.transmitter \ {""}, f.available_peers), "transmitter")
  IN  common \cup
      CASE f.protocol = "can" ->
             Amiss(f.key = "" \/ ~IsIdText(f.key) \/ (\E num \in parse_id(f.key) : OutOfRange(num)) \/ Taken(f), "id")
        [] f.protocol = "modbus" ->
             Amiss(Outside(f.register_number, 0 .. 65535), "register_number")
               \cup Amiss(Outside(f.node_address, 1 .. 247), "node_address")
               \cup Amiss(Outside(f.register_type, {"holding", "input", "coil", "discrete"}), "register_type")
               \cup Amiss(Outside(f.register_base, {0, 1}), "register_base")
               \cup Amiss(parse_id(f.key) = {} /\ f.register_number = {}, "register_number")
        [] f.protocol = "serial" ->
             Amiss(f.key = "" \/ ~(IsIdText(f.key) \/ f.key \in Identifiers) \/ Taken(f), "frame_id")
               \cup Amiss(\E bytes \in f.delimiter : Outside(bytes, 0 .. 255), "delimiter")
        [] OTHER -> {"protocol"}
=============================================================================
