----------------------------- MODULE SchemaFields -----------------------------
(***************************************************************************)
(* The definition of one field of a schema (schema/fields): its type, the  *)
(* options its table gives, and what is taken over from the field that a   *)
(* $ref names.  A table with a type of its own must be right in every key; *)
(* one with only a $ref loses what is wrong in it and keeps the rest.      *)
(*                                                                         *)
(* An option that may be unset is a sequence of one or none.               *)
(***************************************************************************)
EXTENDS Integers, SequencesExt

CONSTANT Infinite    \* stands for the numbers that are not finite

Num(n) == [shape |-> "number", n |-> n]
Str(t) == [shape |-> "string", text |-> t]
List(items) == [shape |-> "list", items |-> items]
Object(map) == [shape |-> "object", map |-> map]

\* What a TOML value is, as far as it is read: lists of scalars or of tables of them.
IsScalar(v) ==
  /\ v.shape = "number" => v = Num(v.n) /\ v.n \in Int
  /\ v.shape = "string" => v = Str(v.text)

IsItem(v) ==
  /\ IsScalar(v)
  /\ v.shape = "object" => v = Object(v.map) /\ \A k \in DOMAIN v.map : IsScalar(v.map[k])

IsValue(v) ==
  /\ IsItem(v)
  /\ v.shape = "list" => /\ v = List(v.items)
                         /\ Len(v.items) \in Nat
                         /\ v.items = [i \in 1..Len(v.items) |-> v.items[i]]
                         /\ \A i \in DOMAIN v.items : IsItem(v.items[i])

Content(scalar) == IF scalar.shape = "number" THEN scalar.n ELSE scalar.text

AreAll(items, shape) == \A i \in DOMAIN items : items[i].shape = shape

Has(map, key, shape) == key \in DOMAIN map /\ map[key].shape = shape

\* A table [fields.<name>]: a type, or none, and an address to take over, or
\* none, but not neither.
Untyped == "none"
Raw(type, to, required, multi, options) ==
  [type |-> type, to |-> to, required |-> required, multi |-> multi, options |-> options]

Attributes(tag) ==
  CASE tag = "number" -> {"min", "max", "step"}
    [] tag = "date"   -> {"format"}
    [] tag = "file"   -> {"folders", "ext", "class"}
    [] tag = "select" -> {"values"}
    [] OTHER -> {}

Unset(tag) == [k \in Attributes(tag) |-> <<>>]

\* The options, and whether nothing was wrong with those in the table.
Parsed(options, clean) == [options |-> options, clean |-> clean]

-----------------------------------------------------------------------------
(* SchemaFieldParser *)

\* f64 and string: of another shape the option is unset, not taken over.
Scalar(options, key, shape, inherited) ==
  IF key \notin DOMAIN options THEN inherited
  ELSE IF Has(options, key, shape) THEN <<Content(options[key])>> ELSE <<>>

IsStringList(value) == value.shape = "list" /\ AreAll(value.items, "string")

\* string_list: of another shape the option is taken over.
Strings(options, key, inherited) ==
  IF key \in DOMAIN options /\ IsStringList(options[key])
  THEN [i \in DOMAIN options[key].items |-> options[key].items[i].text]
  ELSE inherited

-----------------------------------------------------------------------------
(* number, date and file *)

\* require_finite, require_positive_step
Rejected(key, got) ==
  got # <<>> /\ (got[1] = Infinite \/ (key = "step" /\ got[1] <= 0))

Crossed(given) ==
  given.min # <<>> /\ given.max # <<>> /\ given.min[1] > given.max[1]

\* Mutant of TakenBack: the upper bound stays.
TakenBackMin(given, base) == [given EXCEPT !.min = base.min]

\* A range that is empty is given up as a whole.
TakenBack(given, base) == [given EXCEPT !.min = base.min, !.max = base.max]

ParseNumber(options, base) ==
  LET Given(k) == Scalar(options, k, "number", base[k])
      Valid(k) == IF Rejected(k, Given(k)) THEN base[k] ELSE Given(k)
      valid == [min |-> Valid("min"), max |-> Valid("max"), step |-> Valid("step")]
  IN  Parsed(IF Crossed(valid) THEN TakenBack(valid, base) ELSE valid,
             /\ \A k \in DOMAIN options \cap DOMAIN base : Has(options, k, "number")
             /\ \A k \in DOMAIN base : ~Rejected(k, Given(k))
             /\ ~Crossed(valid))

ParseDate(options, base) ==
  Parsed([base EXCEPT !.format = Scalar(options, "format", "string", @)],
         "format" \in DOMAIN options => Has(options, "format", "string"))

ParseFile(options, base) ==
  Parsed([folders |-> Strings(options, "folders", base.folders),
          ext |-> Scalar(options, "ext", "string", base.ext),
          class |-> Strings(options, "class", base.class)],
         /\ "ext" \in DOMAIN options => Has(options, "ext", "string")
         /\ \A k \in DOMAIN options \cap {"folders", "class"} : IsStringList(options[k]))

-----------------------------------------------------------------------------
(* select: the entries, written as strings, as objects, or kept in a file   *)

Entry(value, label, extra) == [value |-> value, label |-> label, extra |-> extra]

Nothing == [k \in {} |-> <<>>]

Literals(items) ==
  [i \in DOMAIN items |-> Entry(items[i].text, items[i].text, Nothing)]

\* EntrySelectors: the keys that hold value, label and order.
Selectors(value, label, order) == [value |-> value, label |-> label, order |-> order]

\* An object that has all that is selected, and nothing under a name that the
\* output gives to something else.
IsEntry(map, by) ==
  /\ Has(map, by.value, "string")
  /\ \A k \in ToSet(by.label) : Has(map, k, "string")
  /\ \A k \in ToSet(by.order) : Has(map, k, "number")
  /\ DOMAIN map \cap {"value", "label"} \subseteq {by.value} \cup ToSet(by.label)

EntryOf(map, by) ==
  LET value == map[by.value].text
      used == {by.value} \cup ToSet(by.label)
  IN  Entry(value, IF by.label = <<>> THEN value ELSE map[by.label[1]].text,
            [k \in DOMAIN map \ used |-> map[k]])

\* parse_object_entries: sorted by order if it is selected, and stably: at k is
\* the item that k - 1 others come before.
ObjectEntries(items, by) ==
  LET Order(i) == items[i].map[by.order[1]].n
      Before(i, j) == Order(i) < Order(j) \/ (Order(i) = Order(j) /\ i < j)
      At(k) == IF by.order = <<>> THEN k
               ELSE CHOOSE i \in DOMAIN items : Cardinality({j \in DOMAIN items : Before(j, i)}) = k - 1
  IN  IF \A i \in DOMAIN items : IsEntry(items[i].map, by)
      THEN Parsed([k \in DOMAIN items |-> EntryOf(items[At(k)].map, by)], TRUE)
      ELSE Parsed(<<>>, FALSE)

\* parse_inline_value_objects: a key that one entry has, all must have.
InlineSelectors(items) ==
  LET IfAny(key) == IF \E i \in DOMAIN items : key \in DOMAIN items[i].map THEN <<key>> ELSE <<>>
  IN  Selectors("value", IfAny("label"), IfAny("order"))

\* A values file: what it holds, or that it cannot be read as one.
NoEntries == [ok |-> FALSE, entries |-> <<>>]
EntriesFile(entries) == [ok |-> TRUE, entries |-> entries]

SelectorKeys == {"value", "label", "order"}

\* parse_file_bare_entries, parse_file_object_entries
LoadedEntries(table, entries) ==
  LET Selected(key) == IF key \in DOMAIN table THEN <<table[key].text>> ELSE <<>>
      value == IF "value" \in DOMAIN table THEN table["value"].text ELSE "value"
  IN  CASE AreAll(entries, "string") ->
             Parsed(Literals(entries), entries # <<>> => DOMAIN table \cap SelectorKeys = {})
        [] AreAll(entries, "object") /\ entries # <<>> ->
             IF \A k \in DOMAIN table \cap SelectorKeys : Has(table, k, "string")
             THEN ObjectEntries(entries, Selectors(value, Selected("label"), Selected("order")))
             ELSE Parsed(<<>>, FALSE)
        [] OTHER -> Parsed(<<>>, FALSE)

\* parse_file_subtable
FileEntries(table, file) ==
  LET loaded == LoadedEntries(table, file.entries)
  IN  IF Has(table, "path", "string") /\ file.ok
      THEN Parsed(loaded.options, loaded.clean /\ DOMAIN table \subseteq {"path"} \cup SelectorKeys)
      ELSE Parsed(<<>>, FALSE)

ListEntries(items) ==
  CASE AreAll(items, "string") -> Parsed(Literals(items), TRUE)
    [] AreAll(items, "object") /\ items # <<>> -> ObjectEntries(items, InlineSelectors(items))
    [] OTHER -> Parsed(<<>>, FALSE)

\* A list that is empty is as none; of one with a mistake nothing is taken.
ParseSelect(options, base, file) ==
  LET given == options["values"]
      parsed == CASE given.shape = "list"   -> ListEntries(given.items)
                  [] given.shape = "object" -> FileEntries(given.map, file)
                  [] OTHER -> Parsed(<<>>, FALSE)
  IN  IF "values" \notin DOMAIN options \/ given = List(<<>>) THEN Parsed(base, TRUE)
      ELSE Parsed([values |-> IF parsed.clean THEN parsed.options ELSE base.values], parsed.clean)

\* Whether the values file is opened for it.
ReadsFile(tag, options) ==
  /\ tag = "select" /\ Has(options, "values", "object")
  /\ Has(options["values"].map, "path", "string")

-----------------------------------------------------------------------------
(* SchemaFieldBuilder; base holds the definition the $ref leads to, if any *)

TagOf(raw, base) == IF raw.type = Untyped THEN base[1].tag ELSE raw.type

\* as_select, as_number, ...: a change of type starts anew.
BaseOptions(tag, base) ==
  IF base # <<>> /\ base[1].tag = tag THEN base[1].options ELSE Unset(tag)

\* parse_options; a key that is not of the type is a mistake as well.
ParseOptions(tag, options, base, file) ==
  LET parsed == CASE tag = "number" -> ParseNumber(options, base)
                  [] tag = "date"   -> ParseDate(options, base)
                  [] tag = "file"   -> ParseFile(options, base)
                  [] tag = "select" -> ParseSelect(options, base, file)
                  [] OTHER -> Parsed(base, TRUE)
  IN  Parsed(parsed.options, parsed.clean /\ DOMAIN options \subseteq Attributes(tag))

\* build: fields of the Global Schema are never required.
FieldOf(global, raw, base, file) ==
  LET tag == TagOf(raw, base)
      parsed == ParseOptions(tag, raw.options, BaseOptions(tag, base), file)
      Flag(own, inherited) == IF own = <<>> THEN inherited ELSE own[1]
  IN  [ok |-> parsed.clean \/ raw.type = Untyped,
       def |-> [tag |-> tag, options |-> parsed.options,
                required |-> ~global /\ Flag(raw.required, base # <<>> /\ base[1].required),
                multi |-> Flag(raw.multi, base # <<>> /\ base[1].multi)]]
================================================================================
