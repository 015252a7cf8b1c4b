--------------------------- MODULE CatalogDecode ---------------------------
(***************************************************************************)
(* Payloads decoded against a catalogue                                    *)
(* (crates/wiretap-catalog/src/decode.rs, and the lookups of parse.rs). A  *)
(* signal's number is left unscaled, a pair as it is read; how it is shown *)
(* is left out, but for text.                                              *)
(***************************************************************************)
EXTENDS ModbusManifest

CONSTANTS
  CASE_SPAN \* the most a range of mux cases reaches past its first: 1000 in the code

\* What a key stands for: a range in either order, cut short when it is long.
parse_mux_case_values(key) ==
  LET Span(part) == LET low == Min(Range(part))
                    IN  low .. Min({Max(Range(part)), low + CASE_SPAN})
  IN  UNION {Span(part) : part \in {p \in Range(CaseParts[key]) : p # <<>>}}

mux_case_matches(selector, key) == selector \in parse_mux_case_values(key)

\* Variant: the key that covers the least wins.
NarrowestCase(selector, keys) ==
  LET matching == {k \in keys : mux_case_matches(selector, k)}
      Size(k)  == Cardinality(parse_mux_case_values(k))
  IN  FirstKey({k \in matching : \A j \in matching : Size(k) <= Size(j)})

\* The first in the order of the keys as text.
find_matching_mux_case(selector, keys) ==
  FirstKey({k \in keys : mux_case_matches(selector, k)})

-----------------------------------------------------------------------------
\* Words are swapped only under a signal wider than one. Text is read as it
\* lies.
decode_signal(bytes, sig, default_endianness, default_word_order) ==
  LET start == Else(sig.start_bit, 0)
      len   == Else(sig.bit_length, 0)
      swap  == Or(sig.word_order, default_word_order) = {"little"} /\ len > 16
  IN  [name |-> sig.name,
       value |-> extract_bits(IF swap THEN apply_word_swap(bytes, start, len) ELSE bytes, start, len,
                              Else(sig.endianness, default_endianness), sig.signed = {TRUE}),
       text |-> IF sig.format \cap {"utf8", "ascii"} = {} THEN <<>> ELSE decode_text(bytes, start, len),
       mux_value |-> {}]

RECURSIVE decode_mux(_, _, _, _)

\* The selector, the signals of its case, and the multiplexer below that.
decode_mux(bytes, mux, endianness, word_order) ==
  LET selector == Number(extract_bits(bytes, mux.start_bit, mux.bit_length, endianness, FALSE), mux.bit_length)
      matched  == find_matching_mux_case(selector, DOMAIN mux.cases)
      case     == mux.cases[CHOOSE k \in matched : TRUE]
      Tagged(sig) == [decode_signal(bytes, sig, endianness, word_order) EXCEPT !.mux_value = {selector}]
      below    == [m \in case.mux |-> decode_mux(bytes, m, endianness, word_order)]
      nested   == SetToSeq(Range(below))
      reading  == [value |-> selector, matched_case |-> matched,
                   start_bit |-> mux.start_bit, bit_length |-> mux.bit_length]
  IN  IF matched = {} THEN [selectors |-> <<reading>>, signals |-> <<>>]
      ELSE [selectors |-> <<reading>> \o FlattenSeq([n \in DOMAIN nested |-> nested[n].selectors]),
            signals   |-> [i \in DOMAIN case.signals |-> Tagged(case.signals[i])]
                            \o FlattenSeq([n \in DOMAIN nested |-> nested[n].signals])]

\* Variant: the order of words is only ever a signal's own.
DefaultsOfBytes(doc, frame) ==
  [endianness |-> Else(CASE frame.protocol = "modbus" -> Or(parse_modbus_config(doc).default_byte_order, {"big"})
                         [] frame.protocol = "can" -> parse_can_config(doc).default_byte_order
                         [] OTHER -> parse_serial_config(doc).byte_order, "little"),
   word_order |-> {}]

frame_defaults(doc, frame) ==
  CASE frame.protocol = "modbus" ->
         [endianness |-> Else(parse_modbus_config(doc).default_byte_order, "big"),
          word_order |-> parse_modbus_config(doc).default_word_order]
    [] frame.protocol = "can" ->
         [endianness |-> Else(parse_can_config(doc).default_byte_order, "little"), word_order |-> {}]
    [] frame.protocol = "serial" ->
         [endianness |-> Else(parse_serial_config(doc).byte_order, "little"), word_order |-> {}]

MuxOf(frame) == IF frame.protocol = "modbus" THEN {} ELSE frame.mux

decode_frame(doc, frame, bytes) ==
  LET default == frame_defaults(doc, frame)
      plain   == [i \in DOMAIN frame.signals |->
                    decode_signal(bytes, frame.signals[i], default.endianness, default.word_order)]
      muxed   == SetToSeq({decode_mux(bytes, m, default.endianness, default.word_order) : m \in MuxOf(frame)})
  IN  [signals   |-> plain \o FlattenSeq([n \in DOMAIN muxed |-> muxed[n].signals]),
       selectors |-> FlattenSeq([n \in DOMAIN muxed |-> muxed[n].selectors])]

-----------------------------------------------------------------------------
\* The first frame of a number, whatever its protocol: those of CAN come
\* first, then serial ones, then registers.
catalog_frame(doc, id) ==
  LET First(frames) == {f \in frames : f.frame_id = id /\ \A g \in frames : g.frame_id = id => Rank(f.key) <= Rank(g.key)}
  IN  Or(First(CanOf(doc)), Or(First(SerialOf(doc)), First(ModbusOf(doc))))

\* As an address on the wire; a number below its prefix is address 0.
wire_address(register_number, register_type, base_one) ==
  IF base_one THEN Max({0, register_number - base_one_prefix[register_type]}) ELSE register_number

\* The first register frame at an address of a slave.
modbus_register_frame(doc, register, register_type, device_address) ==
  LET base_one == parse_modbus_config(doc).register_base = {1}
      At(f)    == /\ f.modbus_register_type = register_type /\ f.modbus_device_address = device_address
                  /\ wire_address(f.frame_id, register_type, base_one) = register
      First(found) == {f \in found : f.key \in FirstKey({g.key : g \in found})}
  IN  First({f \in ModbusOf(doc) : At(f)})

IntegerOfBits(bits) == SumSet({2 ^ k : k \in bits})

frame_id_mask(doc) ==
  CASE ProtocolOf(doc) = "can" -> parse_can_config(doc).frame_id_mask
    [] ProtocolOf(doc) = "serial" -> parse_serial_config(doc).frame_id_mask
    [] OTHER -> {}

masked_frame_id(doc, raw_id) ==
  Else({IntegerOfBits(MaskBits(raw_id) \cap MaskBits(m)) : m \in frame_id_mask(doc)}, raw_id)

\* A field of a header as the weights of its value. On CAN it is cut out of
\* the id and shifted by its lowest bit unless it says otherwise; on a serial
\* line it is what there is of its bytes, masked in place.
CanField(raw_id, field) ==
  LET shift == Else(field.shift, IF field.mask = {} THEN 0 ELSE Min(field.mask)) % 32
  IN  {{k - shift : k \in {j \in MaskBits(raw_id) \cap field.mask : j >= shift}}}

SerialField(bytes, field) ==
  UNION {LET first == place[1]
             there == SubSeq(bytes, first + 1, Min({first + place[2], Len(bytes)}))
             Weight(i) == 8 * (IF field.endianness = {"little"} THEN i - 1 ELSE Len(there) - i)
         IN  IF there = <<>> THEN {}
             ELSE {UNION {{k + Weight(i) : k \in there[i]} : i \in DOMAIN there}
                     \cap {k - 8 * first : k \in field.mask}} : place \in mask_to_byte_position(field.mask)}

SourceNames == {"source_address", "sender", "source", "src", "sa"}

\* The last source address, by name (in lower case here), is the one.
extract_header_fields(doc, raw_id, bytes) ==
  LET can    == parse_can_config(doc).fields
      serial == parse_serial_config(doc).fields
      Read(n) == IF ProtocolOf(doc) = "can" THEN CanField(raw_id, can[n]) ELSE SerialField(bytes, serial[n])
      names  == CASE ProtocolOf(doc) = "can" -> DOMAIN can
                  [] ProtocolOf(doc) = "serial" -> DOMAIN serial \ {"id"}
                  [] OTHER -> {}
      named  == IF ProtocolOf(doc) = "can" THEN names \cap SourceNames ELSE {}
  IN  [header_fields  |-> [n \in {m \in names : Read(m) # {}} |-> Else(Read(n), {})],
       source_address |-> {Else(Read(n), {}) : n \in {m \in named : \A o \in named : Rank(o) <= Rank(m)}}]

decode_by_id(doc, raw_id, bytes) ==
  {decode_frame(doc, f, bytes) @@ extract_header_fields(doc, raw_id, bytes) :
     f \in catalog_frame(doc, masked_frame_id(doc, raw_id))}
-----------------------------------------------------------------------------
\* A payload decoded as it comes in, byte by byte, against one catalogue.
CONSTANTS
  Catalogues,   \* the catalogues
  RawIds,       \* the ids frames arrive under
  PayloadBytes, \* the bytes they are made of
  MaxPayload    \* bound: bytes in a payload

VARIABLES
  catalogue, \* the document
  raw_id,    \* the id as it was received
  payload    \* the bytes so far

decodeVars == <<catalogue, raw_id, payload>>

DecodeInit == catalogue \in Catalogues /\ raw_id \in RawIds /\ payload = <<>>

Arrive(byte) ==
  /\ Len(payload) < MaxPayload
  /\ payload' = Append(payload, byte)
  /\ UNCHANGED <<catalogue, raw_id>>

DecodeNext == \E byte \in PayloadBytes : Arrive(byte)

DecodeSpec == DecodeInit /\ [][DecodeNext]_decodeVars

-----------------------------------------------------------------------------
Found == catalog_frame(catalogue, masked_frame_id(catalogue, raw_id))

\* The bits a signal rests on: its own, or the whole words under it.
EndOf(doc, f, sig) ==
  LET start == Else(sig.start_bit, 0)
      len   == Else(sig.bit_length, 0)
  IN  IF Or(sig.word_order, frame_defaults(doc, f).word_order) = {"little"} /\ len > 16
      THEN 8 * (start \div 8) + 16 * CeilDiv(CeilDiv(len, 8), 2) ELSE start + len

\* What is wholly there is not read again as something else when more of the
\* payload comes: a signal in either byte order, signed or word-swapped, the
\* case a selector picks, and a field of a serial header.
CutsAreLocal ==
  [][\A f \in Found :
       LET old == decode_frame(catalogue, f, payload)
           new == decode_frame(catalogue, f, payload')
           header(bytes) == extract_header_fields(catalogue, raw_id, bytes).header_fields
           There(end) == end <= 8 * Len(payload)
           fields == IF ProtocolOf(catalogue) = "serial" THEN parse_serial_config(catalogue).fields ELSE <<>>
       IN  /\ \A i \in DOMAIN f.signals : There(EndOf(catalogue, f, f.signals[i])) => old.signals[i] = new.signals[i]
           /\ \A n \in DOMAIN old.selectors :
                (\A m \in 1 .. n : There(old.selectors[m].start_bit + old.selectors[m].bit_length)) =>
                  n \in DOMAIN new.selectors /\ old.selectors[n] = new.selectors[n]
           /\ \A name \in DOMAIN header(payload) \cap DOMAIN fields : There(Max(fields[name].mask) + 1) =>
                header(payload')[name] = header(payload)[name]]_decodeVars

\* The multiplexers met on the way down, one for each selector.
MuxesMet(f, selectors) ==
  LET At[n \in 1 .. Len(selectors)] ==
        IF n = 1 THEN CHOOSE m \in MuxOf(f) : TRUE
        ELSE CHOOSE m \in At[n - 1].cases[CHOOSE k \in selectors[n - 1].matched_case : TRUE].mux : TRUE
  IN  At

Covers(key, v) ==
  \E part \in Range(CaseParts[key]) :
    \E a, b \in Range(part) : v \in a .. b /\ v - a <= CASE_SPAN /\ {a, b} = Range(part)

RightlyChosen(mux, reading) ==
  LET covering == {k \in DOMAIN mux.cases : Covers(k, reading.value)}
  IN  /\ reading.matched_case \subseteq covering
      /\ covering # {} => reading.matched_case # {}
      /\ \A m \in reading.matched_case, k \in covering : Rank(m) <= Rank(k)

\* Names and selectors of the signals a selector brings in.
Brought(mux, reading) ==
  FlattenSeq(SetToSeq({[i \in DOMAIN mux.cases[k].signals |-> <<mux.cases[k].signals[i].name, {reading.value}>>] :
                         k \in reading.matched_case}))

RightlyRead(read, mux, below) ==
  /\ \A n \in DOMAIN read : /\ RightlyChosen(mux[n], read[n])
                            /\ n < Len(read) => read[n].matched_case # {}
  /\ FlattenSeq([n \in DOMAIN read |-> Brought(mux[n], read[n])])
       = [i \in DOMAIN below |-> <<below[i].name, below[i].mux_value>>]

\* The case shown is one that the selector lies in: between the ends of a part
\* of its key, whichever comes first, and near enough to the lower one; no key
\* before it has such a part; a selector in no case ends the descent. The
\* signals are those of the cases on the way, each told by its own selector.
RightCase ==
  \A f \in Found :
    LET Right(d) == /\ MuxOf(f) # {} <=> d.selectors # <<>>
                    /\ RightlyRead(d.selectors, MuxesMet(f, d.selectors),
                                   SubSeq(d.signals, Len(f.signals) + 1, Len(d.signals)))
    IN  Right(decode_frame(catalogue, f, payload))

\* The numbers of a register by the manifest, and by the catalogue as signals
\* beside what the manifest knows of them.
SameNumbers(numbers, signals, polled) ==
  LET numeric == SelectSeq([i \in DOMAIN signals |-> <<signals[i], polled.signals[i]>>],
                           LAMBDA pair : IsNumeric(pair[2]))
  IN  [i \in DOMAIN numbers |-> numbers[i].value] = [i \in DOMAIN numeric |-> numeric[i][1].value]

\* The register found where one is polled is it, or another polled there.
SamePlace(found, polled, all) ==
  \E f \in found : \E other \in all :
    /\ other.name = f.key /\ Rank(f.key) <= Rank(polled.name)
    /\ protocol_address(ModbusMeta(catalogue), other) = protocol_address(ModbusMeta(catalogue), polled)

\* Registers read through the manifest and through the catalogue are the same
\* numbers, and a register is found at the address it is polled at, unless
\* another is polled there. ("so the streaming decoder and this Modbus decoder
\* stay byte-for-byte identical")
RegistersAgree ==
  LET Word(i) == {k + 8 : k \in payload[2 * i - 1]} \cup payload[2 * i]
      regs == [i \in 1 .. Len(payload) \div 2 |-> Word(i)]
      Agree(polled, shown, meta) ==
        SameNumbers(decode_registers(polled, regs, meta),
                    decode_frame(catalogue, shown, registers_to_bytes(regs)).signals, polled)
      Polled(polled, all, meta) ==
        /\ \E shown \in {f \in ModbusOf(catalogue) : f.key = polled.name} : Agree(polled, shown, meta)
        /\ SamePlace(modbus_register_frame(catalogue, protocol_address(meta, polled), polled.register_type,
                                           polled.device_address), polled, all)
  IN  \A all \in ManifestOf(catalogue) : \A polled \in all : Polled(polled, all, ModbusMeta(catalogue))
=============================================================================
