------------------------------- MODULE NoteText -------------------------------
(***************************************************************************)
(* What the note parser reads in a stretch of text: tags, inline fields    *)
(* (bare `Key:: value` lines and wrapped `[key:: value]` ones), task dates *)
(* behind an emoji and priority emojis (note/parser/lexer.rs), and what a  *)
(* task takes from them (note/parser/task.rs).                             *)
(*                                                                         *)
(* A text is a sequence of characters, and the characters are few:         *)
(*   "x" "w" "d" "c" "p"  letters; "w" is one that UTF-8 writes in four    *)
(*                  bytes, "d" and "c" are the two names of a task's done  *)
(*                  date as field keys (done, completion), "p" is the key  *)
(*                  priority;                                              *)
(*   "1" "2"        two ISO dates, each taken whole;                       *)
(*   "D" "P"        the emoji of the done date and a priority emoji;       *)
(*   "::"           the separator of a field;                              *)
(*   "#" "[" "]" "(" ")" " " and the line break "\n".                      *)
(* There are no quotes, escapes or double brackets, which only matter to   *)
(* the search for the bracket that closes a field.                         *)
(***************************************************************************)
EXTENDS Integers, SequencesExt

Letter == {"x", "w", "d", "c", "p"}
Date == {"1", "2"}
Word == Letter \cup Date            \* char::is_alphanumeric
AsciiLetter == Letter \ {"w"}       \* the keys of bare fields
Blank == {" "}
White == {" ", "\n"}
Opening == {"[", "("}
Brackets == {"[", "]", "(", ")"}

NoDate == "none"
NoPriority == "none"

At(t, i) == IF i \in DOMAIN t THEN t[i] ELSE "end"

\* The first position from i on that holds no character of S.
RunEnd(t, i, S) ==
  CHOOSE j \in i..(Len(t) + 1) : At(t, j) \notin S /\ \A k \in i..(j - 1) : t[k] \in S

\* The first position from i on that holds the character c, or 0.
Find(t, i, c) == SelectInSubSeq(t, i, Len(t), LAMBDA ch : ch = c)

Trim(t) ==
  LET from == RunEnd(t, 1, White)
      to == SelectLastInSeq(t, LAMBDA c : c \notin White)
  IN SubSeq(t, from, to)

(***************************************************************************)
(* One token at position i: what it is and the position after it.          *)
(***************************************************************************)
Skip(next) == [kind |-> "skip", next |-> next]

IsTagAt(t, i) ==
  /\ At(t, i) = "#"
  /\ i > 1 => t[i - 1] \notin Word
  /\ At(t, i + 1) \in Letter

TagNameAt(t, i) == SubSeq(t, i + 1, RunEnd(t, i + 1, Word) - 1)

TagAt(t, i) ==
  IF IsTagAt(t, i)
  THEN [kind |-> "tag", next |-> RunEnd(t, i + 1, Word), tag |-> TagNameAt(t, i)]
  ELSE Skip(i + 1)

\* An emoji counts as a date only where `emojis` asks for it, before a date
\* that no word continues.
DateAt(t, i, emojis) ==
  LET j == RunEnd(t, i + 1, Blank)
  IN IF emojis /\ At(t, j) \in Date /\ At(t, j + 1) \notin Word
     THEN [kind |-> "date", next |-> j + 1, date |-> t[j]]
     ELSE Skip(i + 1)

\* The position of the "::" of the key that starts at i, or 0.
KeyEnd(t, i) ==
  LET j == RunEnd(t, i, Blank)
      k == RunEnd(t, j, AsciiLetter \cup Date)
  IN IF At(t, j) \in AsciiLetter /\ At(t, k) = "::" THEN k ELSE 0

LineEnd(t, i) == RunEnd(t, i, Word \cup Blank \cup Brackets \cup {"D", "P", "::", "#"})

\* A key that does not start its line is passed over whole.
BareField(t, i, sep, eol) ==
  IF i = 1 \/ At(t, i - 1) = "\n"
  THEN [kind |-> "field", next |-> eol, wrapped |-> FALSE,
        key |-> Trim(SubSeq(t, i, sep - 1)), value |-> Trim(SubSeq(t, sep + 1, eol - 1))]
  ELSE Skip(sep + 1)

BareFieldAt(t, i) == BareField(t, i, KeyEnd(t, i), LineEnd(t, i))

\* The position of the bracket that closes one opened before i, or 0: brackets
\* nest, and a wrong one ends the search.
Closes(open, close) == <<open, close>> \in {<<"[", "]">>, <<"(", ")">>}

FindClosing(t, i, open) ==
  LET Step(acc, j) ==
        CASE acc.at # 0 \/ acc.open = <<>> \/ t[j] \notin Brackets -> acc
          [] acc.at = 0 /\ acc.open # <<>> /\ t[j] \in Opening ->
               [acc EXCEPT !.open = Append(@, t[j])]
          [] OTHER ->
               IF ~Closes(Last(acc.open), t[j]) THEN [acc EXCEPT !.open = <<>>]
               ELSE IF Len(acc.open) = 1 THEN [acc EXCEPT !.at = j]
               ELSE [acc EXCEPT !.open = Front(@)]
  IN FoldLeft(Step, [open |-> <<open>>, at |-> 0], [n \in 1..(Len(t) - i + 1) |-> i + n - 1]).at

WrappedField(t, i, sep, close) ==
  LET key == Trim(SubSeq(t, i + 1, sep - 1))
  IN IF \/ sep = 0
        \/ key = <<>>
        \/ \E k \in DOMAIN key : key[k] \in Brackets
        \/ close = 0
     THEN Skip(i + 1)
     ELSE [kind |-> "field", next |-> close + 1, wrapped |-> TRUE,
           key |-> key, value |-> Trim(SubSeq(t, sep + 1, close - 1))]

WrappedFieldAt(t, i) ==
  WrappedField(t, i, Find(t, i + 1, "::"), FindClosing(t, Find(t, i + 1, "::") + 1, t[i]))

TokenAt(t, i, emojis) ==
  CASE t[i] = "P" -> [kind |-> "priority", next |-> i + 1]
    [] t[i] = "#" -> TagAt(t, i)
    [] t[i] = "D" -> DateAt(t, i, emojis)
    [] t[i] \in Opening -> WrappedFieldAt(t, i)
    [] t[i] \in Blank \cup AsciiLetter /\ KeyEnd(t, i) # 0 -> BareFieldAt(t, i)
    [] OTHER -> Skip(i + 1)

\* All tokens of a text, each with the position it starts at.
Chosen(tokenAt) ==
  LET from[i \in 1..(Len(tokenAt) + 1)] ==
        IF i > Len(tokenAt) THEN <<>>
        ELSE (IF tokenAt[i].kind = "skip" THEN <<>> ELSE <<[token |-> tokenAt[i], at |-> i]>>)
             \o from[tokenAt[i].next]
  IN from[1]

Tokens(t, emojis) == Chosen([i \in DOMAIN t |-> TokenAt(t, i, emojis)])

(***************************************************************************)
(* The metadata of a text: its fields, a date emoji standing for the field *)
(* of its date, and its tags, which are read in a pass of their own and so *)
(* are found inside the values of fields too.                              *)
(***************************************************************************)
FieldOf(token) ==
  CASE token.kind = "date" -> << <<<<"d">>, <<token.date>>>> >>
    [] token.kind = "field" -> << <<token.key, token.value>> >>
    [] OTHER -> <<>>

ScanFields(t, emojis) ==
  FoldLeft(LAMBDA read, k : read \o FieldOf(k.token), <<>>, Tokens(t, emojis))

ScanTags(t) ==
  LET at == SelectSeq([i \in DOMAIN t |-> i], LAMBDA i : IsTagAt(t, i))
  IN [n \in DOMAIN at |-> TagNameAt(t, at[n])]

ScanMetadata(t, emojis) == [fields |-> ScanFields(t, emojis), tags |-> ScanTags(t)]

(***************************************************************************)
(* What a task takes from its text and its fields. Tokens that touch code  *)
(* are dropped after the whole text has been lexed.                        *)
(***************************************************************************)
TaskTokens(t, code) ==
  SelectSeq(Tokens(t, TRUE), LAMBDA k : k.at..(k.token.next - 1) \cap code = {})

\* The first value in `values` that Test accepts, or `none`.
FirstOf(values, Test(_), none) ==
  LET n == SelectInSeq(values, Test) IN IF n = 0 THEN none ELSE values[n]

ValuesOf(fields, key) ==
  LET own == SelectSeq(fields, LAMBDA f : f[1] = key) IN [n \in DOMAIN own |-> own[n][2]]

IsDate(v) == v \in {<<d>> : d \in Date}

\* The done date: the first emoji's, else the first date under the key "done",
\* else the first under "completion".
DoneDate(tokens, fields) ==
  LET emoji == SelectSeq(tokens, LAMBDA k : k.token.kind = "date")
      done == FirstOf(ValuesOf(fields, <<"d">>), IsDate, <<NoDate>>)
      completion == FirstOf(ValuesOf(fields, <<"c">>), IsDate, <<NoDate>>)
  IN CASE emoji # <<>> -> Head(emoji).token.date
       [] emoji = <<>> /\ done # <<NoDate>> -> done[1]
       [] OTHER -> completion[1]

\* The priority: the first emoji's, else the first level under the key
\* "priority", where the level "w" stands for normal, which is none at all.
IsPriority(v) == v \in {<<"x">>, <<"w">>}

PriorityOf(tokens, fields) ==
  LET field == FirstOf(ValuesOf(fields, <<"p">>), IsPriority, <<"w">>)
  IN IF \E n \in DOMAIN tokens : tokens[n].token.kind = "priority" THEN "P"
     ELSE IF field = <<"w">> THEN NoPriority ELSE field[1]

\* The text a task is shown with: without what stands for its priority, its
\* dates and the configured tags, each line trimmed, each blank run one blank,
\* and no empty lines.
Normalized(t) ==
  LET Step(acc, c) ==
        CASE c = "\n" -> [acc EXCEPT !.gap = <<"\n">>]
          [] c \in Blank -> [acc EXCEPT !.gap = IF @ = <<>> THEN <<" ">> ELSE @]
          [] OTHER -> [out |-> acc.out \o (IF acc.out = <<>> THEN <<>> ELSE acc.gap) \o <<c>>,
                       gap |-> <<>>]
  IN FoldLeft(Step, [out |-> <<>>, gap |-> <<>>], t).out

IsStripped(k, filters) ==
  \/ k.kind \in {"priority", "date"}
  \/ k.kind = "tag" /\ \E n \in DOMAIN filters : filters[n] = k.tag
  \/ k.kind = "field" /\ k.wrapped /\ k.key \in {<<"d">>, <<"c">>}

CleanText(t, tokens, filters) ==
  LET stripped == UNION {tokens[n].at..(tokens[n].token.next - 1) :
                           n \in {m \in DOMAIN tokens : IsStripped(tokens[m].token, filters)}}
      kept == SelectSeq([i \in DOMAIN t |-> i], LAMBDA i : i \notin stripped)
  IN Normalized([n \in DOMAIN kept |-> t[kept[n]]])
================================================================================
