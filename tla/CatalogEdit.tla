---------------------------- MODULE CatalogEdit ----------------------------
(***************************************************************************)
(* The edits of a catalogue's text (crates/wiretap-catalog/src/edit.rs).   *)
(* An edit is a document, or no value where the code returns an error and  *)
(* leaves the document as it was. A JSON value is an item, or Null, or     *)
(* Object(f) of an object f. The order of the keys of a table is layout.   *)
(***************************************************************************)
EXTENDS TomlDocument

CONSTANT Quoted \* the segments written in quotes -> the key within

Null      == <<"null">>
Object(f) == <<"object", f>>

norm(segment) == Else(get(Quoted, segment), segment)
Path(path)    == [i \in DOMAIN path |-> norm(path[i])]

\* Every table on the way is there afterwards: what was no table is replaced,
\* with what was below it.
navigate_create(doc, path) ==
  LET lost == UNION {Below(doc, p) : p \in {q \in PathsTo(path) : ~IsTable(doc, q)}}
  IN  [p \in PathsTo(path) |-> Tab] @@ Without(doc, lost)

table_exists(doc, path) == \A p \in PathsTo(path) : IsTable(doc, p)

\* Managed keys that are not given go, a null goes, an object becomes a table
\* that keeps none of its old keys but those it is given again.
RECURSIVE apply_object(_, _, _, _)
apply_object(doc, path, value, managed) ==
  LET gone == managed \ DOMAIN value
      Set(d, k) ==
        CASE value[k] = Null -> Removed(d, path \o <<k>>)
          [] value[k][1] = "object" ->
               apply_object(navigate_create(d, path \o <<k>>), path \o <<k>>, value[k][2],
                            IF IsTable(d, path \o <<k>>) THEN Keys(d, path \o <<k>>) ELSE {})
          [] OTHER -> Insert(d, path \o <<k>>, value[k])
      trimmed == Without(doc, UNION {Below(doc, path \o <<k>>) : k \in gone})
  IN  FoldFunction(LAMBDA k, d : Set(d, k), trimmed, [k \in DOMAIN value |-> k])

\* What is at one path is moved to another, over whatever is there.
Moved(doc, from, to) ==
  LET rest == Removed(Removed(doc, from), to)
  IN  [p \in {to \o SubSeq(q, Len(from) + 1, Len(q)) : q \in Below(doc, from)} |->
         doc[from \o SubSeq(p, Len(to) + 1, Len(p))]] @@ rest

-----------------------------------------------------------------------------
SetTable(doc, rawpath, value, managed, replace_contents, skip_if_exists, error_if_exists) ==
  LET path   == Path(rawpath)
      exists == table_exists(doc, path)
      made   == navigate_create(doc, path)
      bare   == IF replace_contents THEN Without(made, Below(made, path) \ {path}) ELSE made
  IN  IF exists /\ skip_if_exists THEN {doc}
      ELSE IF exists /\ error_if_exists THEN {}
      ELSE {apply_object(bare, path, value, managed)}

\* A rename is a move and nothing else: it looks neither at the key it moves to
\* nor at the frames that name the old one.
UpsertFrame(doc, protocol, rawkey, value, managed, rename_from, initial_signals) ==
  LET section == <<"frame", norm(protocol)>>
      frame   == section \o <<norm(rawkey)>>
      olds    == {section \o <<norm(k)>> : k \in rename_from} \ {frame}
      made    == IF olds = {} THEN doc ELSE navigate_create(doc, section)
      moved   == IF olds \cap DOMAIN made = {} THEN made ELSE Moved(made, Else(olds, frame), frame)
      was_new == ~table_exists(moved, frame)
      applied == apply_object(navigate_create(moved, frame), frame, value, managed)
  IN  {IF was_new /\ initial_signals # <<>> /\ frame \o <<"signals">> \notin DOMAIN applied
       THEN Insert(applied, frame \o <<"signals">>, Arr(initial_signals)) ELSE applied}

\* Two numbers compare as numbers; all else as text, what is none as "".
cmp_value(a, b, key) ==
  LET x == as_i64(a, key)
      y == as_i64(b, key)
      Text(t) == Rank(Else(as_str(t, key), ""))
  IN  IF x # {} /\ y # {} THEN Else(x, 0) - Else(y, 0) ELSE Text(a) - Text(b)

Greater(a, b, sort_keys) ==
  \E i \in DOMAIN sort_keys :
    /\ cmp_value(a, b, sort_keys[i]) > 0
    /\ \A j \in 1 .. i - 1 : cmp_value(a, b, sort_keys[j]) = 0

\* Before the first that is greater; at the end without keys to sort by.
sorted_pos(tables, new, sort_keys) ==
  LET greater == {i \in DOMAIN tables : Greater(tables[i], new, sort_keys)}
  IN  CHOOSE i \in greater \cup {Len(tables) + 1} : \A j \in greater : i <= j

\* In place of the entry at index (from 0), or as a new one when there is none.
Upserted(tables, value, index, sort_keys) ==
  LET new  == Restrict(value, {k \in DOMAIN value : value[k] # Null})
      kept == IF \E i \in index : i < Len(tables) THEN RemoveAt(tables, Else(index, 0) + 1) ELSE tables
  IN  InsertAt(kept, sorted_pos(kept, new, sort_keys), new)

UpsertArrayItem(doc, rawpath, value, index, sort_keys) ==
  LET path  == Path(rawpath)
      made  == navigate_create(doc, Front(path))
      items == Else(Held(made, path, "array"), <<>>)
  IN  IF path = <<>> THEN {} ELSE {Insert(made, path, Arr(Upserted(items, value, index, sort_keys)))}

RemoveArrayItem(doc, rawpath, index, remove_if_empty) ==
  LET path  == Path(rawpath)
      items == Held(doc, path, "array")
      left(list) == IF index < Len(list) THEN RemoveAt(list, index + 1) ELSE list
  IN  IF items = {} \/ ~table_exists(doc, Front(path)) THEN {doc}
      ELSE {IF remove_if_empty /\ left(list) = <<>> THEN Removed(doc, path)
            ELSE Insert(doc, path, Arr(left(list))) : list \in items}

\* Every reference is rewritten, whatever it names.
RewriteEveryRef(doc, section, field, old, new) ==
  [p \in {section \o <<k, field>> : k \in Keys(doc, section)} \cap DOMAIN doc |-> Str(new)] @@ doc

\* The frames that name a node by its old name name it by the new one.
rewrite_ref_field(doc, section, field, old, new) ==
  LET refs == {section \o <<k, field>> : k \in {j \in Keys(doc, section) :
                 IsTable(doc, section \o <<j>>) /\ as_str(doc, section \o <<j, field>>) = {old}}}
  IN  [p \in refs |-> Str(new)] @@ doc

update_transmitter_references(doc, old, new) ==
  rewrite_ref_field(rewrite_ref_field(doc, <<"frame", "can">>, "transmitter", old, new),
                    <<"frame", "modbus">>, "node", old, new)

\* The references are compared with the names as they were given, not with the
\* keys in them.
RenameKey(doc, rawparent, old, new, set_value, managed, update_transmitter_refs, error_if_exists) ==
  LET parent == Path(rawparent)
      from   == parent \o <<norm(old)>>
      to     == parent \o <<norm(new)>>
      made   == navigate_create(doc, parent)
      moved  == IF from = to THEN made ELSE Moved(made, from, to)
      set    == IF set_value # {} /\ IsTable(moved, to)
                THEN apply_object(moved, to, Else(set_value, <<>>), managed) ELSE moved
  IN  IF from \notin DOMAIN made \/ (from # to /\ error_if_exists /\ to \in DOMAIN made) THEN {}
      ELSE {IF update_transmitter_refs /\ from # to THEN update_transmitter_references(set, old, new) ELSE set}

DeleteAtPath(doc, rawpath) ==
  LET path == Path(rawpath)
  IN  {IF path # <<>> /\ table_exists(doc, Front(path)) THEN Removed(doc, path) ELSE doc}

\* A catalogue without a version is at 1; nothing else in the text changes.
bump_meta_version(doc) ==
  LET version == <<"meta", "version">>
  IN  IF ~IsTable(doc, <<"meta">>) \/ (version \in DOMAIN doc /\ as_u32(doc, version) = {}) THEN {}
      ELSE {(version :> Num(Else(as_u32(doc, version), 1) + 1)) @@ doc}

\* A frame that is polled again leaves no trace of having been stopped.
set_frame_disabled(doc, frame, disabled) ==
  LET body == <<"frame", "modbus", frame>>
  IN  IF body \notin DOMAIN doc \/ doc[body] \notin {Tab, Inline} THEN {}
      ELSE {IF disabled THEN Insert(doc, body \o <<"disabled">>, Bool(TRUE))
            ELSE Removed(doc, body \o <<"disabled">>)}
=============================================================================
