-------------------------- MODULE CatalogDocument --------------------------
(***************************************************************************)
(* A catalogue under an editor: one document, edited, migrated and read    *)
(* again and again. What is read is what Catalog::parse makes of it.       *)
(***************************************************************************)
EXTENDS CatalogEdit, Migrate, Validate

CONSTANTS
  Documents,    \* the documents an editor may open
  FrameKeysToo, \* the keys frames are given and renamed to, in quotes too
  FrameValues,  \* what a frame's form writes
  SignalValues, \* what a signal's form writes
  NodeNames,    \* what nodes are called
  CaseNames,    \* what mux cases are
  Tunnels,      \* what a tunnel is declared as
  FrameForms,   \* the forms of frames as they are filled in
  SignalForms,  \* those of signals
  MaxEdits      \* bound: edits after a document is opened

VARIABLES
  doc,     \* the document
  edits,   \* edits made
  touched, \* the keys of the CAN frames the last edit was about
  renamed  \* what the last edit renamed a node from and to, or <<>>

docVars == <<doc, edits, touched, renamed>>

DocInit == doc \in Documents /\ edits = 0 /\ touched = {} /\ renamed = <<>>

\* The keys of the CAN frames an edit of some path is about: what the whole
\* catalogue rests on is about all of them.
About(path) ==
  CASE Len(path) > 2 /\ SubSeq(path, 1, 2) = CanFrames -> {path[3]}
    [] path[1] = "meta" -> Keys(doc, CanFrames)
    [] OTHER -> {}

\* An edit that fails leaves everything as it is.
Edit(outcome, about, names) ==
  /\ edits < MaxEdits
  /\ doc' \in outcome
  /\ edits' = edits + 1
  /\ touched' = about
  /\ renamed' = names

EditTable(path, value, replace, skip, error) ==
  Edit(SetTable(doc, path, value, {}, replace, skip, error), About(path), <<>>)

EditFrame(key, value, from, signals) ==
  Edit(UpsertFrame(doc, "can", key, value, {"length", "mirror_of"}, from, signals),
       {norm(k) : k \in {key} \cup from}, <<>>)

Signals(key) == CanFrames \o <<key, "signals">>

EditSignal(key, value, index) ==
  Edit(UpsertArrayItem(doc, Signals(key), value, index, <<"start_bit", "bit_length">>), {key}, <<>>)

DropSignal(key, index, whole) == Edit(RemoveArrayItem(doc, Signals(key), index, whole), {key}, <<>>)

RenameNode(old, new) ==
  Edit(RenameKey(doc, <<"node">>, old, new, {[notes |-> Str("renamed")]}, {}, TRUE, TRUE), {}, <<old, new>>)

RenameCase(key, old, new) ==
  Edit(RenameKey(doc, CanFrames \o <<key, "mux">>, old, new, {}, {}, FALSE, TRUE), {key}, <<>>)

Delete(path) == Edit(DeleteAtPath(doc, path), About(path), <<>>)

Disable(frame, on) == Edit(set_frame_disabled(doc, frame, on), {}, <<>>)

Bump == Edit(bump_meta_version(doc), {}, <<>>)

Upgrade ==
  /\ edits < MaxEdits
  /\ migrate(doc).changed
  /\ doc' = migrate(doc).doc
  /\ edits' = edits + 1
  /\ touched' = {} /\ renamed' = <<>>

DocNext ==
  \/ \E replace, skip, error \in BOOLEAN :
       EditTable(<<"meta", "can">>, [default_interval |-> Num(50)], replace, skip, error)
  \/ \E key \in FrameKeysToo, value \in FrameValues, from \in {{}} \cup {{k} : k \in FrameKeysToo} :
       \E signals \in {<<>>, <<CHOOSE v \in SignalValues : TRUE>>} : EditFrame(key, value, from, signals)
  \/ \E key \in FrameKeys(doc, CanFrames) :
       \/ \E value \in SignalValues, index \in {{}, {0}, {1}} : EditSignal(key, value, index)
       \/ \E index \in {0, 1}, whole \in BOOLEAN : DropSignal(key, index, whole)
       \/ \E old, new \in CaseNames : RenameCase(key, old, new)
       \/ Delete(CanFrames \o <<key>>)
  \/ \E value \in Tunnels : EditTable(CanFrames \o <<"0x10", "tunnel">>, value, TRUE, FALSE, FALSE)
  \/ \E old, new \in NodeNames : RenameNode(old, new)
  \/ \E frame \in Keys(doc, ModbusFrames), on \in BOOLEAN : Disable(frame, on)
  \/ Bump
  \/ Upgrade

DocSpec == DocInit /\ [][DocNext]_docVars

-----------------------------------------------------------------------------
\* The numbers a frame names in mirror_of and in copy.
RefersTo(d, key) ==
  RefNumber(d, CanFrames \o <<key, "mirror_of">>) \cup RefNumber(d, CanFrames \o <<key, "copy">>)

\* The frame as it was, but for the new name of its transmitter.
Followed(frame) ==
  IF renamed' # <<>> /\ frame.transmitter = {renamed'[1]}
  THEN [frame EXCEPT !.transmitter = {renamed'[2]}] ELSE frame

Migrated == doc' = migrate(doc).doc /\ migrate(doc).changed

Ordered(d, key) ==
  LET own == raw_signals(d, CanFrames \o <<key>>)
  IN  \A i, j \in DOMAIN own : i < j => ~Greater(own[i], own[j], <<"start_bit", "bit_length">>)

\* What an edit is not about keeps its meaning: a frame changes only with an
\* edit about it or about a frame it names, under any spelling of its number,
\* or with the name of its transmitter; no edit here changes what is read of
\* the registers, but for the name of their node; and the signals of a frame
\* stay in order of their bits. ("only the targeted entry changes", "Insertion
\* places the new entry in sorted position so existing entries do not move")
EditsAreLocal ==
  [][/\ ~Migrated =>
          /\ \A key \in FrameKeys(doc, CanFrames) \ touched' :
               RefersTo(doc, key) \cap UNION {parse_id(k) : k \in touched'} = {} =>
                 key \in FrameKeys(doc', CanFrames) /\ CanFrame(doc', key) = Followed(CanFrame(doc, key))
          /\ renamed' = <<>> => ModbusOf(doc') = ModbusOf(doc)
     /\ \A key \in FrameKeys(doc', CanFrames) :
          (key \in FrameKeys(doc, CanFrames) => Ordered(doc, key)) => Ordered(doc', key)]_docVars

\* A mirror shows a signal in every place of its own and of its source, marked
\* as inherited where it has none of its own, once for each the source has
\* there; it has a multiplexer if its source does, and its source's interval
\* unless it has its own or copies another. What the source itself takes from a
\* third frame is not passed on.
MirrorIsWhole ==
  \A key \in FrameKeys(doc, CanFrames) :
    \A src \in find_frame_by_numeric_id(doc, CanFrames, RefNumber(doc, CanFrames \o <<key, "mirror_of">>)) :
      LET shown  == CanFrame(doc, key)
          given  == frame_interval(doc, CanFrames \o <<src>>)
          Own(k) == {bit_key(s) : s \in Range(raw_signals(doc, CanFrames \o <<k>>))}
          At(s)  == <<Else(s.start_bit, 0), Else(s.bit_length, 0)>>
          Times(place, list) == Cardinality({i \in DOMAIN list : bit_key(list[i]) = place})
      IN  /\ {At(s) : s \in Range(shown.signals)} = Own(key) \cup Own(src)
          /\ \A s \in Range(shown.signals) : s.inherited <=> At(s) \notin Own(key)
          /\ \A place \in Own(src) :
               Cardinality({i \in DOMAIN shown.signals : At(shown.signals[i]) = place})
                 = Times(place, raw_signals(doc, CanFrames \o <<src>>))
          /\ CanFrames \o <<src, "mux">> \in DOMAIN doc => shown.mux # {}
          /\ CanFrames \o <<key, "copy">> \notin DOMAIN doc /\ given # {} =>
               shown.interval = given \/ "interval" \notin shown.inherited_fields

\* A frame's interval is given in one place, and the registers of a catalogue
\* without nodes, if it has any that can be read, name no slave.
Plain(d) ==
  /\ \A frame \in UNION {FrameTables(d, s) : s \in {CanFrames, ModbusFrames, SerialFrames}} :
       Cardinality({frame \o p : p \in {<<"interval_ms">>, <<"interval">>, <<"tx", "interval_ms">>,
                                        <<"tx", "interval">>}} \cap DOMAIN d) <= 1
  /\ Keys(d, ModbusFrames) # {} => ManifestOf(d) # {}
  /\ Keys(d, <<"node">>) # {} \/ \A k \in Keys(d, ModbusFrames) : ModbusFrames \o <<k, "node_address">> \notin DOMAIN d

\* A migrated catalogue reads exactly as it did: the nodes shown for an old one
\* are the ones it is given, with the same names and registers, and every frame
\* keeps its interval. ("the two cannot drift")
MigrationKeepsMeaning ==
  [][Migrated /\ Plain(doc) =>
       /\ CanOf(doc') = CanOf(doc) /\ SerialOf(doc') = SerialOf(doc) /\ ModbusOf(doc') = ModbusOf(doc)
       /\ NodesOf(doc') = NodesOf(doc) /\ ProtocolOf(doc') = ProtocolOf(doc)]_docVars

\* A catalogue that was migrated has nothing left to migrate. ("re-running
\* [`migrate`] on already-upgraded text is a no-op")
MigrationsSettle == [][Migrated => ~migrate(doc').changed]_docVars

-----------------------------------------------------------------------------
\* What the parser leaves out of a frame it shows is reported: a tunnel it does
\* not know or a slave's address it cannot keep, and a signal without a name or
\* a place, be it the frame's own or one it mirrors. ("The parser drops a
\* tunnel it can't understand rather than failing the file", "these are the
\* findings that say why")
DroppedIsReported ==
  LET found == {f[1] : f \in validate(doc)}
      Said(path) == \E p \in found : IsPrefix(path, p)
  IN  \A key \in FrameKeys(doc, CanFrames) :
        LET body   == CanFrames \o <<key>>
            frame  == CanFrame(doc, key)
            lost(s) == s.start_bit = {} \/ s.bit_length = {} \/ s.name = {}
            source == find_frame_by_numeric_id(doc, CanFrames, RefNumber(doc, body \o <<"mirror_of">>))
        IN  /\ body \o <<"tunnel">> \in DOMAIN doc =>
                 \/ Said(body \o <<"tunnel">>)
                 \/ \E t \in frame.tunnel : t.device_address = as_i64(doc, body \o <<"tunnel", "device_address">>)
            /\ (\E s \in Range(frame.signals) : lost(s)) => \E k \in {key} \cup source : Said(CanFrames \o <<k>>)

FramesKept ==
  \A form \in FrameForms :
    LET section == <<"frame", form.protocol>>
        others  == Keys(doc, section)
        Saved(original) == Else(UpsertFrame(doc, form.protocol, form.key, form.value, {}, original, <<>>), doc)
        Read(d) == IF form.protocol = "can" THEN CanOf(d) ELSE SerialOf(d)
    IN  \A original \in {{}} \cup {{k} : k \in others} :
          validate_frame_fields([existing_keys |-> others, original_key |-> original] @@ form) = {} =>
            LET saved == Saved(original)
            IN  /\ Keys(saved, section) = (others \ original) \cup {form.key}
                /\ form.key \notin others \ original
                /\ \A k \in others \ original : \A p \in Below(doc, section \o <<k>>) :
                     p \in DOMAIN saved /\ saved[p] = doc[p]
                /\ \A n \in parse_id(form.key) : \E f \in Read(saved) : f.key = form.key /\ f.frame_id = n

SignalsSound ==
  \A form \in SignalForms, key \in FrameKeys(doc, CanFrames) :
    validate_signal_fields(form) = {} =>
      LET Given(field, item) == [k \in IF form[field] = {} THEN {} ELSE {field} |-> item]
          Whole(field) == Given(field, Num(Else(form[field], 0)))
          value == [name |-> Str(form.name)] @@ Whole("start_bit") @@ Whole("bit_length") @@ Whole("min") @@ Whole("max")
                     @@ Given("endianness", Str(Else(form.endianness, ""))) @@ Given("format", Str(Else(form.format, "")))
          list  == Upserted(raw_signals(doc, CanFrames \o <<key>>), value, {}, <<"start_bit", "bit_length">>)
          At(i) == validate_signal(<<>>, list, i)
      IN  \A i \in {j \in DOMAIN list : list[j] = value} : \A f \in At(i) :
            f[2] \in {"duplicate", "export"} \/ (f[2] = "range" /\ Else(form.bit_length, 0) > 64)

\* A frame's form that nothing is found wrong with, saved under a key of its
\* own or over the one it was opened from, replaces no other frame and leaves
\* the rest of the section as it was; under a number that fits, it is read as
\* that number. (Modbus has no such rule: its key is not looked up.) A signal's
\* leaves nothing to find in the document where it is saved, but for a name that
\* is taken or that a DBC file does not take, or text longer than a number.
SavedFormsHold == FramesKept /\ SignalsSound
=============================================================================
