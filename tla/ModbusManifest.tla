--------------------------- MODULE ModbusManifest ---------------------------
(***************************************************************************)
(* The Modbus section of a catalogue and the registers its signals are     *)
(* read from and written to                                                *)
(* (crates/wiretap-catalog/src/modbus/manifest.rs), and the bits that any  *)
(* payload's signals are decoded from (crates/wiretap-decode/src/lib.rs).  *)
(* A register is the set of its bits that are 1.                           *)
(***************************************************************************)
EXTENDS CatalogParse

DEFAULT_INTERVAL_MS == 5000

IsWritable(register_type)     == register_type \in {"holding", "coil"}
IsRegisterBank(register_type) == register_type \in {"holding", "input"}
base_one_prefix == [coil |-> 1, discrete |-> 10001, input |-> 30001, holding |-> 40001]

-----------------------------------------------------------------------------
\* The bits of a signal within a payload. A byte is the set of the bits that
\* are 1, 0 the least. A number read from a payload is too wide for the model's
\* integers, so it is the pair of its weights, {k : 2^k counts}, and of whether
\* 2^bit_length is taken off.

\* Bit i of the payload in either order: bytes always ascend, the bits of a
\* byte descend when the order is big.
BitAt(bytes, i, endian) ==
  (IF endian = "big" THEN 7 - (i % 8) ELSE i % 8) \in bytes[i \div 8 + 1]

\* A field that runs past the end is what there is of it: the rest counts for
\* nothing, and big endian weights are those of the shorter field.
Weights(bytes, start_bit, bit_length, endian) ==
  LET total == 8 * Len(bytes)
      start == Min({start_bit, total})
      end   == Min({start + bit_length, total})
  IN  {k \in 0 .. end - start - 1 :
         BitAt(bytes, IF endian = "big" THEN end - 1 - k ELSE start + k, endian)}

extract_bits(bytes, start_bit, bit_length, endian, signed) ==
  LET weights == Weights(bytes, start_bit, bit_length, endian)
  IN  <<weights, signed /\ bit_length - 1 \in weights>>

CeilDiv(n, d) == (n + d - 1) \div d

\* Variant: the words to the end of the payload are reversed.
SwapToEnd(bytes, start_bit, bit_length) ==
  LET first == start_bit \div 8
      words == CeilDiv(Len(bytes) - first, 2)
      Source(at) == first + 2 * (words - 1 - ((at - first) \div 2)) + ((at - first) % 2)
      Old(at)    == IF at < Len(bytes) THEN bytes[at + 1] ELSE {}
  IN  [i \in DOMAIN bytes |-> IF i > first THEN Old(Source(i - 1)) ELSE bytes[i]]

\* The 16-bit words under a signal in reverse; the last may reach past it, and
\* a byte past the end is read as 0 and not written.
apply_word_swap(bytes, start_bit, bit_length) ==
  LET first == start_bit \div 8
      words == CeilDiv(CeilDiv(bit_length, 8), 2)
      Source(at) == LET w == (at - first) \div 2
                    IN  first + 2 * (words - 1 - w) + ((at - first) % 2)
      Old(at)    == IF at < Len(bytes) THEN bytes[at + 1] ELSE {}
  IN  [i \in DOMAIN bytes |-> IF i - 1 \in first .. first + 2 * words - 1
                              THEN Old(Source(i - 1)) ELSE bytes[i]]

\* Decimal arithmetic is exact, so integers stand for it: only numbers of at
\* most 30 bits are scaled.
Number(raw, bit_length) ==
  SumSet({2 ^ k : k \in raw[1]}) - (IF raw[2] THEN 2 ^ bit_length ELSE 0)

scale(raw, bit_length, factor, offset) == Number(raw, bit_length) * factor + offset

\* The two's complement weights of an integer in a field of some width.
BitsOfInteger(n, bit_length) ==
  {k \in 0 .. bit_length - 1 : IF k > 29 THEN n < 0 ELSE (n \div 2 ^ k) % 2 = 1}

\* The bytes a text signal spans, without the zero ones.
decode_text(bytes, start_bit, bit_length) ==
  LET first == start_bit \div 8
      Byte(i) == IF first + i < Len(bytes) THEN bytes[first + i + 1] ELSE {}
      IsText(b) == b # {}
  IN  SelectSeq([i \in 1 .. CeilDiv(bit_length, 8) |-> Byte(i - 1)], IsText)

-----------------------------------------------------------------------------
\* Reading. An item of the wrong kind fails the whole section, and so does one
\* key given under both its names.
IntegerOf(doc, path, most) == path \in DOMAIN doc => \E n \in as_i64(doc, path) : n \in 0 .. most
OneSpelling(doc, body)     == ~({body \o <<"interval_ms">>, body \o <<"interval">>} \subseteq DOMAIN doc)

WellFormed(doc, body) ==
  LET Ok(path, most) == IntegerOf(doc, body \o path, most)
  IN  /\ Ok(<<"register_number">>, 65535) /\ Ok(<<"length">>, 65535) /\ Ok(<<"node_address">>, 255)
      /\ \A tx \in {<<>>, <<"tx">>} : /\ OneSpelling(doc, body \o tx)
                                      /\ Ok(tx \o <<"interval_ms">>, 2 ^ 30)
                                      /\ Ok(tx \o <<"interval">>, 2 ^ 30)

\* The defaults of the section, by these names only.
ModbusMeta(doc) ==
  LET At(key) == <<"meta", "modbus", key>>
  IN  [register_base |-> Else(as_u8(doc, At("register_base")), 0),
       default_byte_order |-> parse_endianness(as_str(doc, At("default_byte_order"))),
       default_word_order |-> parse_endianness(as_str(doc, At("default_word_order")))]

parse_register_key(key) == {n \in parse_id(key) : n <= 65535}

ModbusSignal(raw) ==
  [name |-> Else(as_str(raw, "name"), ""), format |-> as_str(raw, "format"), start_bit |-> Else(as_u32(raw, "start_bit"), 0),
   bit_length |-> Else(as_u32(raw, "bit_length"), 0), signed |-> as_bool(raw, "signed") = {TRUE},
   factor |-> as_i64(raw, "factor"), offset |-> as_i64(raw, "offset"),
   byte_order |-> endianness_at(raw, "byte_order", "endianness"),
   word_order |-> parse_endianness(as_str(raw, "word_order"))]

\* A register with decoding fields of its own and no signals is one signal.
synth_frame_signal(doc, key, length) ==
  LET body   == TableAt(doc, ModbusFrames \o <<key>>)
      fields == {"name", "format", "factor", "offset", "unit", "signed", "enum"}
  IN  IF fields \cap DOMAIN body = {} THEN <<>>
      ELSE <<[ModbusSignal(body) EXCEPT !.name = Else(as_str(body, "name"), key), !.start_bit = 0,
              !.bit_length = 16 * length, !.byte_order = {}, !.word_order = {}]>>

\* Registers name their slave by address; the last node, by name, that has the
\* address lends its name.
SlaveName(doc, address) ==
  LET named == {n \in parse_nodes(doc) : n.device_address = {address}}
  IN  {n.name : n \in {m \in named : \A o \in named : Rank(o.name) <= Rank(m.name)}}

ManifestFrame(doc, key) ==
  LET body     == ModbusFrames \o <<key>>
      length   == Else(as_u32(doc, body \o <<"length">>), 1)
      signals  == Else(Held(doc, body \o <<"signals">>, "array"), <<>>)
      Spelt(p) == Or(as_u32(doc, body \o p \o <<"interval_ms">>), as_u32(doc, body \o p \o <<"interval">>))
      default  == Else(as_u32(doc, <<"meta", "modbus", "default_interval">>), DEFAULT_INTERVAL_MS)
      address  == Else(as_u8(doc, body \o <<"node_address">>),
                       Else(as_u8(doc, <<"meta", "modbus", "device_address">>), 1))
  IN  [name            |-> key,
       register_number |-> Else(Or(as_u32(doc, body \o <<"register_number">>), parse_register_key(key)), 0),
       register_type   |-> Else(as_str(doc, body \o <<"register_type">>), "holding"),
       length          |-> length,
       interval_ms     |-> Else(Or(Spelt(<<>>), Spelt(<<"tx">>)), default),
       disabled        |-> as_bool(doc, body \o <<"disabled">>) = {TRUE},
       node            |-> SlaveName(doc, address),
       device_address  |-> address,
       signals         |-> IF signals = <<>> THEN synth_frame_signal(doc, key, length)
                           ELSE [i \in DOMAIN signals |-> ModbusSignal(signals[i])]]

ManifestParses(doc) ==
  /\ \A n \in Keys(doc, <<"node">>) : IntegerOf(doc, <<"node", n, "device_address">>, 255)
  /\ IntegerOf(doc, <<"meta", "modbus", "device_address">>, 255)
  /\ \A k \in Keys(doc, ModbusFrames) : WellFormed(doc, ModbusFrames \o <<k>>)

Addressed(doc, key) ==
  ModbusFrames \o <<key, "register_number">> \in DOMAIN doc \/ parse_register_key(key) # {}

\* No value when the section does not parse, lacks a number or has no frames.
\* Every key is a frame here, one called config too.
ManifestOf(doc) ==
  LET keys == Keys(doc, ModbusFrames)
  IN  IF keys # {} /\ ManifestParses(doc) /\ \A k \in keys : Addressed(doc, k)
      THEN {{ManifestFrame(doc, k) : k \in keys}}
      ELSE {}

\* What the catalogue's model shows of a manifest's frame.
map_modbus_signal(s, base_register, register_type) ==
  LET bits == IF IsRegisterBank(register_type) THEN 16 ELSE 1
  IN  [name |-> {s.name}, start_bit |-> {s.start_bit}, bit_length |-> {s.bit_length}, signed |-> {s.signed},
       endianness |-> s.byte_order, word_order |-> s.word_order, format |-> s.format,
       modbus_register |-> base_register + s.start_bit \div bits,
       modbus_register_count |-> CeilDiv(s.bit_length, bits)]

modbus_frames(doc) ==
  {[key |-> f.name, frame_id |-> f.register_number, protocol |-> "modbus",
    length |-> IF IsRegisterBank(f.register_type) THEN 2 * f.length ELSE CeilDiv(f.length, 8),
    interval |-> {f.interval_ms}, modbus_node |-> f.node, modbus_device_address |-> f.device_address,
    modbus_register_type |-> f.register_type,
    signals |-> [i \in DOMAIN f.signals |-> map_modbus_signal(f.signals[i], f.register_number, f.register_type)]] :
     f \in UNION ManifestOf(doc)}

slave_node_name(address) == "Slave " \o ToString(address)

\* A catalogue without nodes is shown with one, that of its first register,
\* and every register as attached to it.
ShownBare(doc, frames) ==
  /\ Keys(doc, ModbusFrames) \ {"config"} # {} /\ Keys(doc, <<"node">>) = {}
  /\ frames # {}

FirstAddress(frames) ==
  LET first == FirstKey({f.key : f \in frames})
  IN  CHOOSE a \in 0 .. 255 : \E f \in frames : f.key \in first /\ f.modbus_device_address = a

ModbusOf(doc) ==
  LET Shown(frames) ==
        IF ShownBare(doc, frames)
        THEN {[f EXCEPT !.modbus_node = {slave_node_name(FirstAddress(frames))}] : f \in frames}
        ELSE frames
  IN  Shown(modbus_frames(doc))

NodesOf(doc) ==
  LET Shown(frames) ==
        IF ShownBare(doc, frames)
        THEN {[name |-> slave_node_name(FirstAddress(frames)), device_address |-> {FirstAddress(frames)}]}
        ELSE parse_nodes(doc)
  IN  Shown(modbus_frames(doc))

-----------------------------------------------------------------------------
\* Writing. A write names one register, the bits it owns and what they become.
\* The manifest is its meta section; a frame carries the fields that its
\* registers depend on.
FullMask == 0 .. 15

protocol_address(meta, frame) ==
  IF meta.register_base # 1 THEN frame.register_number
  ELSE Max({0, frame.register_number - base_one_prefix[frame.register_type]})

\* The first writable signal of that name, in the order of the frames.
find_write_signal(frames, name) ==
  LET Named(f) == {i \in DOMAIN f.signals : f.signals[i].name = name}
      holders  == {i \in DOMAIN frames : IsWritable(frames[i].register_type) /\ Named(frames[i]) # {}}
  IN  {<<frames[i], frames[i].signals[Min(Named(frames[i]))]>> :
         i \in {j \in holders : j = Min(holders)}}

\* What an operator is offered: each writable name once, with its register.
write_signal_options(meta, frames) ==
  LET names == {s.name : s \in UNION {Range(f.signals) : f \in {g \in Range(frames) : IsWritable(g.register_type)}}}
  IN  {<<name, protocol_address(meta, found[1]) + found[2].start_bit \div 16>> :
         <<name, found>> \in UNION {{n} \X find_write_signal(frames, n) : n \in names}}

\* The raw integer nearest to a value, as near as the field is wide. A factor
\* of 0 counts as 1; halves round away from 0.
scale_to_raw(signal, value) ==
  LET f == Else(signal.factor \ {0}, 1)
      d == value - Else(signal.offset, 0)
      Abs(n)  == IF n < 0 THEN -n ELSE n
      nearest == (IF (d < 0) = (f < 0) THEN 1 ELSE -1) * ((2 * Abs(d) + Abs(f)) \div (2 * Abs(f)))
      n   == signal.bit_length
      low == IF ~signal.signed THEN 0 ELSE IF n > 30 THEN nearest ELSE -(2 ^ (n - 1))
      top == IF n > 30 THEN nearest ELSE 2 ^ (IF signal.signed THEN n - 1 ELSE n) - 1
  IN  Max({low, Min({top, nearest})})

\* Whole registers in word order, or a field within one register; nothing
\* else can be written, and nothing in a bank that is only read.
encode_raw(meta, frame, signal, raw) ==
  LET len   == signal.bit_length
      start == signal.start_bit
      bits  == BitsOfInteger(raw, len)
      at    == protocol_address(meta, frame) + start \div 16
      nregs == len \div 16
      order == Else(Or(signal.word_order, meta.default_word_order), "big")
      Word(i) == {w \in FullMask : len - 16 * (i + 1) + w \in bits}
      shift == 16 - (start % 16) - len
  IN  IF ~IsWritable(frame.register_type) THEN {}
      ELSE IF start % 16 = 0 /\ len \in {16, 32, 48, 64}
      THEN {[i \in 1 .. nregs |-> [address |-> at + i - 1, mask |-> FullMask,
                                   value |-> Word(IF order = "little" THEN nregs - i ELSE i - 1)]]}
      ELSE IF len \in 1 .. 15 /\ start \div 16 = (start + len - 1) \div 16
      THEN {<<[address |-> at, mask |-> shift .. shift + len - 1, value |-> {k + shift : k \in bits}]>>}
      ELSE {}

encode_signal(meta, frame, signal, value) ==
  encode_raw(meta, frame, signal, scale_to_raw(signal, value))

\* The later of two writes to a register stands, masks and all.
MergeLatest(writes) ==
  LET Latest(w) == \A v \in Range(writes) : v.address = w.address => v = w \/ v.mask \subseteq w.mask
  IN  {SelectSeq(writes, Latest)}

\* Writes that share a register become one, in the place of the first; two
\* that claim one bit are refused.
merge_register_writes(writes) ==
  LET Place(out, w) == {i \in DOMAIN out : out[i].address = w.address}
      Merged(old, w) == [old EXCEPT !.value = @ \cup (w.value \cap w.mask), !.mask = @ \cup w.mask]
      Step(w, maybe) ==
        UNION {IF Place(out, w) = {} THEN {Append(out, w)}
               ELSE {[out EXCEPT ![i] = Merged(@, w)] :
                       i \in {j \in Place(out, w) : out[j].mask \cap w.mask = {}}} : out \in maybe}
  IN  FoldLeft(LAMBDA maybe, w : Step(w, maybe), {<<>>}, writes)

\* Runs of ascending neighbours, nothing reordered.
group_contiguous(writes) ==
  LET Joins(runs, w) == runs # <<>> /\ Last(Last(runs)).address + 1 = w.address
      Step(runs, w) == IF Joins(runs, w) THEN Front(runs) \o <<Append(Last(runs), w)>>
                       ELSE Append(runs, <<w>>)
  IN  FoldLeft(Step, <<>>, writes)

registers_to_bytes(regs) ==
  [i \in 1 .. 2 * Len(regs) |->
     LET reg == regs[(i + 1) \div 2]
     IN  IF i % 2 = 1 THEN {k - 8 : k \in {b \in reg : b > 7}} ELSE reg \cap 0 .. 7]

\* What one signal reads as from its frame's block of registers.
DecodeSignal(meta, signal, regs) ==
  LET bytes == registers_to_bytes(regs)
      order == Else(Or(signal.byte_order, meta.default_byte_order), "big")
      words == Else(Or(signal.word_order, meta.default_word_order), "big")
      swap  == words = "little" /\ signal.bit_length > 16
  IN  extract_bits(IF swap THEN apply_word_swap(bytes, signal.start_bit, signal.bit_length) ELSE bytes,
                   signal.start_bit, signal.bit_length, order, signal.signed)

\* Texts are not numbers.
IsNumeric(signal) == signal.format \subseteq {"enum"}

decode_registers(frame, regs, meta) ==
  LET numeric == SelectSeq(frame.signals, IsNumeric)
  IN  [i \in DOMAIN numeric |-> [name |-> numeric[i].name, value |-> DecodeSignal(meta, numeric[i], regs)]]
=============================================================================
