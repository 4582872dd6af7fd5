-------------------------------- MODULE MCNote --------------------------------
(***************************************************************************)
(* Notes for NoteOutline, in families: first lines of items cut and ended  *)
(* in every way; items nested in every way of a few; text, code and links  *)
(* in their blocks; one item under every small configuration.              *)
(***************************************************************************)
EXTENDS NoteOutline

MCCharacters == Word \cup Brackets \cup {"D", "P", "::", "#", " ", "\n"}

(***************************************************************************)
(* Events.                                                                 *)
(***************************************************************************)
E(kind) == <<[kind |-> kind]>>
T(text) == <<[kind |-> "text", text |-> text]>>
Code(text) == <<[kind |-> "code", text |-> text]>>
Note(text) == <<[kind |-> "footnote", text |-> text]>>
Start(level) == <<[kind |-> "start_text", level |-> level, line |-> 9]>>
Paragraph(inside) == Start(0) \o inside \o E("end_text")
Heading(inside) == Start(2) \o inside \o E("end_text")
CodeBlock(text) == E("start_code") \o T(text) \o E("end_code")
Quote(inside) == E("start_quote") \o inside \o E("other")
Link(wiki, inside) == <<[kind |-> "start_link", wiki |-> wiki, target |-> "t"]>> \o inside \o E("end_link")
Strong(inside) == E("barrier") \o inside \o E("other")
Yaml(entries) == E("start_metadata") \o <<[kind |-> "yaml", entries |-> entries]>> \o E("end_metadata")
Item(line, inside) == <<[kind |-> "start_item", line |-> line]>> \o inside \o E("end_item")
List(ordered, inside) == <<[kind |-> "start_list", ordered |-> ordered]>> \o inside \o E("end_list")

(***************************************************************************)
(* Configurations.                                                         *)
(***************************************************************************)
MCInvalid == {"bad"}
MCInvalidTags == {<<>>}
MCIsAbsolute(path) == path = "/out"
MCNormalName(name) == IF name = "done" THEN "Done" ELSE name

Local == EmptyScope("project")
Global == EmptyScope("home")
Set(scope, key, value) == [scope EXCEPT !.set[key] = value]
Filters(scope, names) == [scope EXCEPT !.tag_filters = names]
Listed(scope, statuses) == [scope EXCEPT !.statuses = statuses]

Parse(events, local, global) == [events |-> events, local |-> local, global |-> global]
Default(events) == Parse(events, Local, Global)

(***************************************************************************)
(* First lines.                                                            *)
(***************************************************************************)
Leads == { <<"[", "x", "]", " ", "w">>, <<"[", "w", "]">>, <<"[", " ", "]", "x">>, <<"[", "]">>,
           <<"[", "w", "]", " ", "[", "x">>, <<"[", "x", "w", "]">>, <<" ", "[", "x">>, <<"[", "w">>,
           <<"[", "1", "]", " ">>, <<"[", "::", "x", "]">> }

\* A text in pieces, cut before the positions of a set.
Pieces(t, cuts) ==
  LET ends == SelectSeq([i \in DOMAIN t |-> i], LAMBDA i : i + 1 \in cuts \cup {Len(t) + 1})
  IN FlattenSeq([n \in DOMAIN ends |-> T(SubSeq(t, IF n = 1 THEN 1 ELSE ends[n - 1] + 1, ends[n]))])

Cut(t) == {Pieces(t, cuts) : cuts \in SUBSET (2..Len(t))}

Nested(line) == List(TRUE, Item(line, T(<<"#", "x">>)))

\* What may follow a first line: nothing, and what goes on with the item.
Sequels == { <<>>, E("break") \o T(<<" ", "x">>), Nested(2), Quote(Paragraph(T(<<"x">>))), E("other"),
             Strong(T(<<" ", "x">>)), Link(FALSE, T(<<"w">>)), Link(TRUE, T(<<"w">>)),
             Code(<<" ", "x">>), Note(<<"[", "x", "]">>) }

FirstLines ==
  {Default(List(FALSE, Item(1, lead \o sequel))) :
     lead \in UNION {Cut(t) : t \in Leads}, sequel \in Sequels}
  \cup
  {Default(List(FALSE, Item(1, Paragraph(lead \o sequel) \o Nested(3)))) :
     lead \in UNION {Cut(t) : t \in {<<"[", "x", "]", " ">>, <<"[", "w", "]">>, <<"[", "x">>}},
     sequel \in {<<>>, E("break") \o T(<<"x">>), Code(<<"x">>)}}

(***************************************************************************)
(* Outlines of four items, each with a text of its own.                    *)
(***************************************************************************)
Texts == {<<"w">>, <<"[", " ", "]", " ", "#", "x">>, <<"[", "x", "]", " ", "#", "w">>}

Outline(t) ==
  { List(FALSE, Item(1, t[1] \o List(TRUE, Item(2, t[2] \o List(FALSE, Item(3, t[3] \o
      List(FALSE, Item(4, t[4])))))))),
    List(FALSE, Item(1, t[1] \o List(TRUE, Item(2, t[2]) \o Item(3, t[3])) \o Paragraph(t[4]))),
    List(FALSE, Item(1, List(TRUE, Item(1, t[1] \o List(FALSE, Item(2, t[2])))) \o t[3]) \o Item(4, t[4])),
    List(TRUE, Item(1, t[1] \o Nested(2)) \o Item(3, t[2])) \o List(FALSE, Item(5, t[3] \o
      List(TRUE, Item(6, t[4])))) }

Outlines ==
  UNION {{Parse(events, Filters(Local, filters), Global) : events \in Outline([n \in 1..4 |-> T(t[n])])} :
           t \in [1..4 -> Texts], filters \in {<<>>, << <<"x">> >>}}

(***************************************************************************)
(* Metadata in all kinds of blocks.                                        *)
(***************************************************************************)
Field == {<<"x", "::", " ", "w">>, <<"[", "d", "::", "1", "]">>, <<"D", " ", "1">>,
          <<"#", "x", "P">>, <<"(", "p", "::", "x", ")", "#", "w">>}

Inlines(t) == {T(t), Code(t), Strong(T(t)), Link(FALSE, T(t)), Link(TRUE, T(t)),
               T(<<"w">>) \o E("break") \o T(t), Note(t)}

Blocks(t) == {CodeBlock(t \o <<"\n">>), Heading(T(t)), Quote(Paragraph(T(t)))} \cup {Paragraph(i) : i \in Inlines(t)}

Marks == {<<>>, T(<<"[", "x", "]", " ", "w", " ">>)}

Tagged == Yaml(<<[key |-> "tags", tags |-> << <<"w">> >>], [key |-> "kinds", tags |-> << <<"x">> >>]>>)
LastItem == Item(5, T(<<"c", "::", "2">>))

Metadata ==
  {Default(Tagged \o Paragraph(T(<<"#", "x">>)) \o List(FALSE, Item(3, mark \o inline) \o LastItem)) :
     mark \in Marks, inline \in UNION {Inlines(t) : t \in Field}}
  \cup
  {Default(piece \o List(FALSE, Item(3, mark \o T(<<"#", "w">>)) \o LastItem) \o piece) :
     mark \in Marks, piece \in Blocks(<<"#", "x">>) \cup Blocks(<<"x", "::", "w">>)}
  \cup
  {Default(List(FALSE, Item(3, mark \o T(<<"#", "w">>) \o Nested(4) \o piece \o Nested(6) \o E("other")))) :
     mark \in Marks, piece \in UNION {Blocks(t) : t \in Field}}

(***************************************************************************)
(* One task under what its two files may say.                              *)
(***************************************************************************)
Statuses == { Status("x", "Done", "done"), Status("x", "Todo", "todo"), Status("w", "Done", "cancelled"),
              Status(" ", "done", "done"), Status("X", "New", "on-hold"), Status("[", "Done", "done"),
              Status("x", "Note", "non-task") }

StatusLists == BoundedSeq(Statuses, 2)

OneTask(symbol) ==
  Tagged \o List(FALSE, Item(5, T(<<"[", symbol, "]", " ", "#", "x">>)))

Configurations ==
  {Parse(OneTask(symbol), Listed(Local, own), Listed(Global, other)) :
     symbol \in {"x", "w"}, own \in StatusLists, other \in BoundedSeq(Statuses, 1)}
  \cup
  {Parse(OneTask("x"), Filters(Set(Local, "tags", own), mine), Filters(Set(Global, "tags", other), theirs)) :
     own \in {Unset, "kinds", "bad"}, other \in {Unset, "kinds", "bad"},
     mine \in {<<>>, << <<"w">> >>, << <<>> >>}, theirs \in {<<>>, << <<"x">>, <<"w">> >>}}

MCInputs == FirstLines \cup Outlines \cup Metadata \cup Configurations

\* Nothing but the default configuration and one that gives a symbol a new name.
Renamings == {Parse(OneTask("x"), Listed(Local, own), Global) : own \in BoundedSeq(Statuses, 1)}
================================================================================
