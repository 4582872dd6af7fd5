-------------------------- MODULE MCSchemaBuilder --------------------------
(***************************************************************************)
(* Registries of up to four schemas for TLC, in five families.             *)
(***************************************************************************)
EXTENDS SchemaBuilder, TLC

\* Two spellings of one field, and another.
MCKey == [f \in Fields |-> IF f = "status" THEN f ELSE "title"]

Bare(type, to) == Raw(type, to, <<>>, <<>>, Nothing)

Only(x, raw) == <<Field(x, raw)>>
NoExcludes == [n \in Names |-> {}]
Undeclared == [s \in All |-> <<>>]

\* Registries in which only some schemas extend others, or declare fields.
Extending(lists) == [n \in Names |-> IF n \in DOMAIN lists THEN lists[n] ELSE <<>>]
Owning(owns) == [s \in All |-> IF s \in DOMAIN owns THEN owns[s] ELSE <<>>]

-----------------------------------------------------------------------------
(* Shapes: every graph of four schemas in which none extends itself, and    *)
(* three whose lists repeat targets or name themselves or no node.          *)

Ordered(S) == CHOOSE s \in InOrder(S) : TRUE
Loopless ==
  {g \in [Names -> {Ordered(S) : S \in SUBSET Names}] :
     \A n \in Names : n \notin Listed(g[n])}

Odd == LET targets == {1, 2, 3, Global, Missing}
       IN  {<<>>} \cup {<<t>> : t \in targets} \cup (targets \X targets)
OddLists == {Extending(<<x, y, z>>) : x \in Odd, y \in Odd,
                                      z \in {<<>>, <<1>>, <<2>>, <<3>>, <<1, 2>>}}

Shapes == (Loopless \cup OddLists) \X {Declaration(Undeclared, NoExcludes, FALSE, <<NoEntries>>)}

-----------------------------------------------------------------------------
(* Mixtures: every acyclic registry of three schemas with lists of up to    *)
(* two, own fields, at most one reference and at most one exclude. Each     *)
(* schema has a format of its own, so that one sees whose field it is.      *)

ListsOf(others) ==
  {<<>>} \cup {<<t>> : t \in others} \cup {s \in others \X others : s[1] # s[2]}

\* The schemas can be numbered from the roots down.
IsAcyclic(g) ==
  \E rank \in [1..3 -> 1..3] :
    \A n \in 1..3 : \A p \in Listed(g[n]) : rank[p] < rank[n]

Dags == {Extending(g) : g \in {<<x, y, z>> : x \in ListsOf({2, 3}), y \in ListsOf({1, 3}),
                                             z \in ListsOf({1, 2})}}

FormatOf(s) == CASE s = 1 -> "1" [] s = 2 -> "2" [] s = 3 -> "3" [] OTHER -> "global"
Direct(s) == Raw("date", <<>>, <<TRUE>>, <<s = 1>>, [format |-> Str(FormatOf(s))])
Invalid == Raw("input", <<>>, <<>>, <<>>, [min |-> Num(0)])
Refs == {Only("title", Bare(Untyped, <<s, "title">>)) : s \in {1, 2, 3, Global}}
Owns(s) == {<<>>, Only("title", Direct(s)), Only("Title", Direct(s)), Only("title", Invalid)} \cup Refs
OwnsOf(first, second, third, globals) ==
  {Owning(1 :> a @@ 2 :> b @@ 3 :> c @@ Global :> g) :
     a \in first, b \in second, c \in third, g \in globals}
OneRef(owns) == {own \in owns : Cardinality({n \in Names : own[n] \in Refs}) <= 1}
Excludes == {NoExcludes, [NoExcludes EXCEPT ![2] = {"title"}]}

Mixtures ==
  {g \in Dags : IsAcyclic(g)} \X
  {Declaration(own, excludes, TRUE, <<NoEntries>>) :
     own \in OneRef(OwnsOf(Owns(1), Owns(2), Owns(3), {Only("title", Direct(Global))})),
     excludes \in Excludes}

-----------------------------------------------------------------------------
(* Strays: two schemas whose lists also name the Global Schema and missing  *)
(* ones, with a Global Schema, without, and with one that fails.            *)

StrayOwns(globals) ==
  OneRef(OwnsOf(Owns(1), Owns(2) \ {Only("Title", Direct(2))}, {<<>>}, globals))

Strays ==
  {Extending(<<x, y>>) : x \in ListsOf({2, Global, Missing}),
                         y \in ListsOf({1, Global, Missing})} \X
  ({Declaration(own, NoExcludes, TRUE, <<NoEntries>>) :
      own \in StrayOwns({Only("title", Direct(Global)), Only("title", Invalid)})} \cup
   {Declaration(own, NoExcludes, FALSE, <<NoEntries>>) : own \in StrayOwns({<<>>})})

-----------------------------------------------------------------------------
(* Chains: 2 extends 1, and a field of 2 refers to one of 1 which refers to *)
(* one of the Global Schema, each with a table of the type or of another.   *)

Numbers ==
  {Nothing, [min |-> Num(5)], [max |-> Num(3)],
   [min |-> Num(2), max |-> Num(6)], [min |-> Num(8), max |-> Num(3)],
   [min |-> Num(Infinite), max |-> Num(1)], [min |-> Str("a")],
   [step |-> Num(2)], [step |-> Num(0), max |-> Num(1)], [ext |-> Str("a"), min |-> Num(4)]}

Files ==
  {Nothing, [folders |-> List(<<Str("a")>>)], [folders |-> List(<<>>), ext |-> Str("a")],
   [class |-> List(<<Str("a"), Num(1)>>)], [class |-> List(<<Str("b")>>), ext |-> Num(1)]}

Dates == {Nothing, [format |-> Str("a")], [format |-> Num(1)]}

Values(items) == [values |-> List(items)]
Item(map) == Object([value |-> Str("a")] @@ map)
Selects ==
  {Nothing, Values(<<>>), Values(<<Str("a"), Str("b")>>), Values(<<Str("a"), Num(1)>>),
   [values |-> Str("a")],
   Values(<<Item([order |-> Num(2)]), Object([value |-> Str("b"), order |-> Num(1)])>>),
   Values(<<Item([order |-> Num(1)]), Object([value |-> Str("b")])>>),
   Values(<<Item([label |-> Str("c"), icon |-> Num(1)])>>),
   Values(<<Object([label |-> Str("c")])>>)}

TablesOf(type) ==
  CASE type = "number" -> Numbers [] type = "file" -> Files
    [] type = "date" -> Dates [] type = "select" -> Selects [] OTHER -> {Nothing}

Typed(type, to) == {Raw(type, to, <<>>, <<>>, table) : table \in TablesOf(type)}
Referring(type, to) == {Raw(Untyped, to, <<>>, <<>>, table) : table \in TablesOf(type)}

\* The middle one may change the type or be another field altogether.
Middles(type) ==
  LET to == <<Global, "title">>
  IN  Typed(type, to) \cup Referring(type, to)
        \cup {Bare("boolean", to), Raw("date", to, <<>>, <<>>, [format |-> Str("c")])}
Lasts(type) == Referring(type, <<1, "title">>) \cup {Bare(type, <<1, "title">>)}

ChainOf(type) ==
  {Declaration(Owning(Global :> Only("title", g) @@ 1 :> Only("title", m) @@ 2 :> Only("title", l)),
               NoExcludes, TRUE, <<NoEntries>>) :
     g \in {raw \in Typed(type, <<>>) : FieldOf(TRUE, raw, <<>>, NoEntries).ok},
     m \in Middles(type), l \in Lasts(type)}

Chains == {Extending(<<<<>>, <<1>>>>)} \X UNION {ChainOf(type) : type \in {"number", "file", "date", "select"}}

-----------------------------------------------------------------------------
(* Readings: select fields of the Global Schema, of 1 and of 2 that show    *)
(* the entries of one file, which is edited meanwhile.                      *)

Texts == EntriesFile(<<Str("a"), Str("b")>>)
Identified ==
  EntriesFile(<<Object([id |-> Str("a"), order |-> Num(1)]), Object([id |-> Str("b"), order |-> Num(0)])>>)
Versions ==
  {NoEntries, Texts, Identified, EntriesFile(<<>>), EntriesFile(<<Str("a"), Item(Nothing)>>),
   EntriesFile(<<Item([order |-> Num(2)]), Object([value |-> Str("b"), order |-> Num(1)])>>)}

File == Str("file")
Subtables ==
  {[path |-> File], [path |-> File, order |-> Str("order")],
   [path |-> File, value |-> Str("id"), order |-> Str("order")],
   [path |-> File, value |-> Num(1)], [value |-> Str("id"), icon |-> Str("a")]}

Shown(type, to, table) == Raw(type, to, <<>>, <<>>, [values |-> Object(table)])

Reader(table) == Shown("select", <<>>, table)

Readings ==
  {Extending(<<<<>>, <<1>>>>)} \X
  {Declaration(Owning(Global :> g @@ 1 :> <<Field("title", m)>> @@ 2 :> <<Field("title", l), Field("status", Reader([path |-> File]))>>),
               NoExcludes, TRUE, <<v, w>>) :
     g \in {<<>>, Only("title", Reader([path |-> File]))},
     m \in {Reader(table) : table \in Subtables},
     l \in {Shown(Untyped, <<1, "title">>, table) : table \in Subtables},
     v \in Versions, w \in {NoEntries, Texts, Identified}}

MCInputs == Shapes \cup Mixtures \cup Strays \cup Chains \cup Readings
=============================================================================
