------------------------------ MODULE MCQuery ------------------------------
(***************************************************************************)
(* Questions for TLC in three families: texts of sources, sources over     *)
(* vaults, and plans over rows.                                            *)
(***************************************************************************)
EXTENDS Query

MCLower == [w \in {"Book", "book", "novel", "Novel", "Sub", "sub", "base", "leaf"} |->
              CASE w = "Book" -> "book" [] w = "Novel" -> "novel" [] w = "Sub" -> "sub"
                [] OTHER -> w]
MCExtends == {<<"Sub", "base">>, <<"leaf", "Sub">>}

Note(tags, classes, items, fields) ==
  [tags |-> tags, classes |-> classes, items |-> items, fields |-> fields]
Item(task, fields) == [task |-> task, fields |-> fields]
NothingLost == [files |-> {}, notes |-> {}]
NoFields == <<>>

Question(vault, tokens, atomsAsked, mode, expander, via, plan, pushes) ==
  [vault |-> vault, tokens |-> tokens, atoms |-> atomsAsked, mode |-> mode,
   expander |-> expander, via |-> via, plan |-> plan, pushes |-> pushes]

-----------------------------------------------------------------------------
(* Texts: all of up to four tokens, and longer ones put together from up to *)
(* three terms, over a vault with one file that no atom selects.            *)

Symbols == {Token(k) : k \in {"and", "or", "not", "(", ")", "bad"}} \cup {AtomToken(1), AtomToken(2)}
A1 == <<AtomToken(1)>>
A2 == <<AtomToken(2)>>
A3 == <<AtomToken(3)>>
T(kind) == <<Token(kind)>>
Parens(s) == T("(") \o s \o T(")")
Inner == {A1 \o T(op) \o A2 : op \in {"and", "or"}}
Terms == {A1, T("not") \o A2, T("not") \o T("not") \o A1}
         \cup {Parens(s) : s \in Inner} \cup {T("not") \o Parens(s) : s \in Inner}
         \cup {Parens(T("not") \o s \o T("or") \o A3) : s \in {A1, Parens(A2)}}
Long == {x \o T(o) \o y \o T(p) \o z :
           x \in Terms, y \in Terms, z \in Terms \cup {A3, T("(") \o A3}, o \in {"and", "or"},
           p \in {"and", "or"}}

OneFile == [files |-> {1}, notes |-> <<>>, bytes |-> <<1>>, lost |-> NothingLost]
Texts ==
  {Question(OneFile, s, <<PathAtom({2}), PathAtom({2}), PathAtom({2})>>, "pages", FALSE,
            "index", <<>>, {}) : s \in BoundedSeq(Symbols, 4) \cup Long}

-----------------------------------------------------------------------------
(* Sources: three paths, of which the second is an attachment, in path      *)
(* order and in the reverse as byte order, with rows that do not decode.    *)

Two == <<Item(FALSE, NoFields), Item(TRUE, NoFields)>>
SourceNotes ==
  {Note({<<"Book", "novel">>}, {"Sub"}, Two, NoFields), Note({<<"book">>}, {"base"}, Two, NoFields),
   Note({}, {"leaf", "base"}, <<>>, NoFields)}
Losses == {NothingLost, [files |-> {1}, notes |-> {}], [files |-> {}, notes |-> {1}],
           [files |-> {2, 3}, notes |-> {3}]}
Vaults ==
  {[files |-> 1..3, notes |-> [p \in {1, 3} |-> IF p = 1 THEN x ELSE y], bytes |-> b, lost |-> l] :
     x \in SourceNotes, y \in SourceNotes, b \in {<<1, 2, 3>>, <<3, 2, 1>>}, l \in Losses}

Axes == {<<TagAtom(<<"book">>), ClassAtom({"base"}, "descendants")>>,
         <<TagAtom(<<"Book">>), ClassAtom({"base"}, "children")>>,
         <<TagAtom(<<"Book", "novel">>), ClassAtom({"base", "novel"}, "exact")>>,
         <<ClassAtom({"Sub"}, "descendants"), TagAtom(<<"book">>)>>}
Ways == {<<"pages", TRUE, "index">>, <<"pages", TRUE, "store">>, <<"lists", TRUE, "store">>,
         <<"tasks", TRUE, "store">>, <<"tasks", FALSE, "store">>}
Forms == {A1, A1 \o T("and") \o A2, A1 \o T("or") \o A2, T("not") \o A1,
          A2 \o T("and") \o T("not") \o A1, Parens(A3 \o T("or") \o A1) \o T("and") \o A2,
          A1 \o T("or") \o A1}
Sources ==
  {Question(v, s, x \o <<PathAtom({2, 3})>>, w[1], w[2], w[3], <<>>, {}) :
     v \in Vaults, s \in Forms \cup {<<>>}, x \in Axes, w \in Ways}

-----------------------------------------------------------------------------
(* Plans: rows with equal, missing and mixed values, lists and an empty     *)
(* one, of notes, an attachment and their items.                            *)

Fields(rating, due, genre) == [rating |-> rating, due |-> due, genre |-> genre]
PlanNotes ==
  <<Note({}, {}, <<Item(TRUE, [rating |-> Value("number", 1)]), Item(TRUE, NoFields)>>,
         Fields(Value("number", 2), Value("dated", 2), ListOf("list", <<5, 4>>))),
    Note({}, {}, <<Item(TRUE, [rating |-> Value("text", 4)])>>,
         Fields(Value("number", 1), Value("date", 1), ListOf("list", <<>>))),
    Note({}, {}, <<>>, Fields(Value("number", 2), Value("text", 3), Value("text", 5))),
    Note({}, {}, <<Item(TRUE, [tags |-> ListOf("tags", <<4>>)])>>,
         [due |-> Value("date", 2), tags |-> ListOf("tags", <<3, 5>>)])>>
PlanVault == [files |-> 1..5, notes |-> PlanNotes, bytes |-> <<1, 2, 3, 4, 5>>, lost |-> NothingLost]

Compare(f, op, x) == [field |-> f, op |-> op, literal |-> x]
MCPredicates ==
  <<Compare("rating", ">=", Value("number", 2)), Compare("due", "<", Value("text", 3)),
    Compare("due", "!=", Value("date", 2)), Compare("genre", "==", Value("text", 5))>>
Pushes ==
  {Filter(Leaf(1)), Filter(Node("or", <<Leaf(2), Node("not", <<Leaf(4)>>)>>)),
   SortBy(<<Term("rating", TRUE)>>), SortBy(<<Term("due", FALSE)>>), Limit(2), Limit(0),
   GroupBy("rating"), Flatten("genre"), Flatten("tags")}
Builders ==
  {<<>>, <<Filter(Leaf(3)), Filter(Leaf(1)), SortBy(<<Term("genre", FALSE), Term("due", TRUE)>>)>>}

Plans ==
  {Question(PlanVault, <<>>, <<>>, "pages", FALSE, "store", b, Pushes) : b \in Builders}
  \cup {Question(PlanVault, <<>>, <<>>, "tasks", FALSE, "index", <<>>, Pushes)}

MCQuestions == Texts \cup Sources \cup Plans
=============================================================================
