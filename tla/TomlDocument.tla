---------------------------- MODULE TomlDocument ----------------------------
(***************************************************************************)
(* A catalogue's text, as the toml and toml_edit libraries show it to the  *)
(* code: a function from paths to items. A path is a sequence of keys; an  *)
(* item is a pair of its kind and what it holds. A table holds nothing     *)
(* here, its keys are the paths one longer. The tables of an array are     *)
(* functions from keys to items. Comments and layout are left out. An      *)
(* optional value is a set with at most one member.                        *)
(***************************************************************************)
EXTENDS Integers, SequencesExt

CONSTANTS
  Numbers, \* the keys spelled as numbers, in hexadecimal or not -> the number
  Texts    \* every string that is ordered against another, in their order

Tab       == <<"table">>
Inline    == <<"inline">>
Num(n)    == <<"int", n>>
Str(s)    == <<"str", s>>
Bool(b)   == <<"bool", b>>
Arr(list) == <<"array", list>>

-----------------------------------------------------------------------------
\* Reading: what is missing or of another kind is no value.
Or(first, second) == IF first = {} THEN second ELSE first
Else(maybe, default) == IF maybe = {} THEN default ELSE CHOOSE v \in maybe : TRUE

get(t, k) == IF k \in DOMAIN t THEN {t[k]} ELSE {}
Held(t, k, kind) == {item[2] : item \in {i \in get(t, k) : i[1] = kind}}
as_str(t, k)  == Held(t, k, "str")
as_i64(t, k)  == Held(t, k, "int")
as_bool(t, k) == Held(t, k, "bool")

\* No number in a model reaches 2^31, so the two wider ones share a test.
as_u32(t, k) == {n \in as_i64(t, k) : n >= 0}
as_u8(t, k)  == {n \in as_i64(t, k) : n \in 0 .. 255}

PathsTo(path)      == {SubSeq(path, 1, n) : n \in 1 .. Len(path)}
Below(doc, path)   == {p \in DOMAIN doc : IsPrefix(path, p)}
Keys(doc, path)    == {p[Len(path) + 1] : p \in {q \in Below(doc, path) : Len(q) = Len(path) + 1}}
IsTable(doc, path) == path \in DOMAIN doc /\ doc[path] = Tab

\* The first of some keys in the order a sorted map lists them.
Rank(text)    == IF \E i \in DOMAIN Texts : Texts[i] = text
                 THEN CHOOSE i \in DOMAIN Texts : Texts[i] = text ELSE 0
FirstKey(keys) == {k \in keys : \A j \in keys : Rank(k) <= Rank(j)}

-----------------------------------------------------------------------------
\* Writing: to insert an item replaces what the key held, a table and all.
Without(doc, paths)      == Restrict(doc, DOMAIN doc \ paths)
Removed(doc, path)       == Without(doc, Below(doc, path))
Insert(doc, path, item)  == (path :> item) @@ Removed(doc, path)
=============================================================================
