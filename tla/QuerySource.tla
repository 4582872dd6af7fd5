---------------------------- MODULE QuerySource ----------------------------
(***************************************************************************)
(* How a query finds its rows (QueryService): from a WorkspaceIndex by     *)
(* matching every entry, or from the stored tables by resolving the source *)
(* to candidate paths first, reading only those rows, and matching the     *)
(* entries put together from them.                                         *)
(*                                                                         *)
(* A path is a number and numbers are in Path order.  A vault is           *)
(*   files   the paths with a file row                                     *)
(*   notes   the paths with a note row, with their notes                   *)
(*   bytes   the place of each path in byte order, that of the tables      *)
(*   lost    the paths whose file row, and whose note row, does not decode *)
(* and its tag and class tables were written from notes when all rows      *)
(* decoded.  A tag is its sequence of segments.  Inlinks go with an entry  *)
(* like its note does and are left out.                                    *)
(***************************************************************************)
EXTENDS QueryGrammar, SequencesExt

CONSTANTS
  Lower,     \* the lowercase of a word
  Extends    \* pairs of schemas, each of which extends the other

\* An atom of a source expression.
TagAtom(tag) == [axis |-> "tag", tag |-> tag]
PathAtom(paths) == [axis |-> "path", paths |-> paths]
ClassAtom(names, depth) ==
  [axis |-> "class", names |-> names, depth |-> depth, classes |-> {}]

-----------------------------------------------------------------------------
(* File Class expansion (FileClassExpander for SchemaService) *)

ChildrenNamesOf(s) == {c[1] : c \in {e \in Extends : e[2] = s}}

DescendantsOf(s) ==
  LET down[k \in 0..Cardinality(Extends)] ==
        IF k = 0 THEN {s}
        ELSE down[k - 1] \cup UNION {ChildrenNamesOf(t) : t \in down[k - 1]}
  IN  down[Cardinality(Extends)] \ {s}

ExpandClasses(atom) ==
  CASE atom.axis # "class" -> atom
    [] atom.axis = "class" ->
         [atom EXCEPT !.classes =
            atom.names \cup
            CASE atom.depth = "exact" -> {}
              [] atom.depth = "children" -> UNION {ChildrenNamesOf(s) : s \in atom.names}
              [] atom.depth = "descendants" -> UNION {DescendantsOf(s) : s \in atom.names}]

\* Without an expander the match sets stay empty.
ResolveClasses(atoms, expander) ==
  IF expander THEN [a \in DOMAIN atoms |-> ExpandClasses(atoms[a])] ELSE atoms

-----------------------------------------------------------------------------
(* Candidate paths from the tables (SourceResolver) *)

Ascending(i, j) == i < j
InBytes(v, S) == SetToSortSeq(S, LAMBDA p, q : v.bytes[p] < v.bytes[q])

Dedup(s) ==
  FoldLeft(LAMBDA kept, p : IF kept # <<>> /\ Last(kept) = p THEN kept ELSE Append(kept, p),
           <<>>, s)

Lowered(tag) == [i \in DOMAIN tag |-> Lower[tag[i]]]

\* The paths stored under a key of the tag and of the class table.
TaggedRows(v, key) ==
  {p \in DOMAIN v.notes :
     \E tag \in v.notes[p].tags : \E n \in DOMAIN tag : Lowered(SubSeq(tag, 1, n)) = key}
ClassedRows(v, key) == {p \in DOMAIN v.notes : \E c \in v.notes[p].classes : Lower[c] = key}

\* Mutant: what a table yields is taken for sorted.
SortedPathsAsStored(v, S) == InBytes(v, S)

SortedPaths(v, S) == Dedup(SortSeq(InBytes(v, S), Ascending))

AllPaths(v) == SortedPaths(v, v.files)

\* Concatenated path lists, as one set.
Merged(lists) == Dedup(SortSeq(FlattenSeq(lists), Ascending))

ResolveAtom(v, atom) ==
  CASE atom.axis = "tag" -> SortedPaths(v, TaggedRows(v, Lowered(atom.tag)))
    [] atom.axis = "class" ->
         LET names == IF atom.classes = {} THEN atom.names ELSE atom.classes
             found == [c \in names |-> SortedPaths(v, ClassedRows(v, Lower[c]))]
             order == SetToSeq(names)
         IN  Merged([i \in DOMAIN order |-> found[order[i]]])
    [] atom.axis = "path" -> SelectSeq(AllPaths(v), LAMBDA p : p \in atom.paths)

\* Two pointers over two sorted lists.
RECURSIVE IntersectSorted(_, _)
IntersectSorted(a, b) ==
  CASE a = <<>> \/ b = <<>> -> <<>>
    [] a # <<>> /\ b # <<>> /\ Head(a) < Head(b) -> IntersectSorted(Tail(a), b)
    [] a # <<>> /\ b # <<>> /\ Head(a) > Head(b) -> IntersectSorted(a, Tail(b))
    [] OTHER -> <<Head(a)>> \o IntersectSorted(Tail(a), Tail(b))

\* No candidate of a not is known: it falls back to every path.
RECURSIVE ResolveExpr(_, _, _)
ResolveExpr(v, atoms, tree) ==
  CASE tree.op = "atom" -> ResolveAtom(v, atoms[tree.atom])
    [] tree.op = "and" ->
         FoldLeft(LAMBDA acc, t : IntersectSorted(acc, ResolveExpr(v, atoms, t)),
                  ResolveExpr(v, atoms, Head(tree.args)), Tail(tree.args))
    [] tree.op = "or" -> Merged([i \in DOMAIN tree.args |-> ResolveExpr(v, atoms, tree.args[i])])
    [] tree.op = "not" -> AllPaths(v)

-----------------------------------------------------------------------------
(* Entries and rows *)

\* Rows that do not decode are skipped.
ReadBatch(paths, rows, lost) == SelectSeq(paths, LAMBDA p : p \in rows \ lost)

Entry(p, note) == [path |-> p, note |-> note]

\* The merge of two lists that are taken to be sorted by path: notes before
\* the file are dropped, a note of the file is taken.
Assemble(v, files, notes) ==
  FoldLeft(LAMBDA acc, p :
             LET k == SelectInSeq(acc.notes, LAMBDA q : q >= p)
                 rest == IF k = 0 THEN <<>> ELSE SubSeq(acc.notes, k, Len(acc.notes))
                 mine == rest # <<>> /\ Head(rest) = p
             IN  [entries |-> Append(acc.entries, Entry(p, IF mine THEN <<v.notes[p]>> ELSE <<>>)),
                  notes |-> IF mine THEN Tail(rest) ELSE rest],
           [entries |-> <<>>, notes |-> notes], files).entries

IsAtomMatch(entry, atom) ==
  CASE atom.axis = "tag" ->
         entry.note # <<>> /\ \E tag \in entry.note[1].tags : IsPrefix(atom.tag, tag)
    [] atom.axis = "path" -> entry.path \in atom.paths
    [] atom.axis = "class" ->
         entry.note # <<>> /\ entry.note[1].classes \cap atom.classes # {}

\* The atoms that hold of an entry.
Holding(entry, atoms) == {a \in DOMAIN atoms : IsAtomMatch(entry, atoms[a])}

\* A row of a page has item 0; flat holds its flattened fields.
Row(entry, item) == [entry |-> entry, item |-> item, flat |-> <<>>]

\* The rows of the entries that matched.
RowsFor(mode, base) ==
  LET Wanted(entry) ==
        LET items == IF entry.note = <<>> THEN <<>> ELSE entry.note[1].items
        IN  SelectSeq([i \in DOMAIN items |-> i], LAMBDA i : mode = "lists" \/ items[i].task)
      RowsOf(entry) ==
        IF mode = "pages" THEN <<Row(entry, 0)>>
        ELSE [i \in DOMAIN Wanted(entry) |-> Row(entry, Wanted(entry)[i])]
  IN  FlattenSeq([i \in DOMAIN base |-> RowsOf(base[i])])

\* A selector is everything (no tree) or an expression.
Everything == <<>>
IsSelected(selector, atoms, entry) ==
  selector = Everything \/ IsSatisfied(selector[1], Holding(entry, atoms))

RunOnIndex(v, mode, selector, atoms) ==
  LET files == AllPaths(v)
      entries == Assemble(v, files, SelectSeq(files, LAMBDA p : p \in DOMAIN v.notes))
  IN  RowsFor(mode, SelectSeq(entries, LAMBDA entry : IsSelected(selector, atoms, entry)))

RunFromStore(v, mode, selector, atoms) ==
  LET paths == IF selector = Everything THEN AllPaths(v) ELSE ResolveExpr(v, atoms, selector[1])
      entries == Assemble(v, ReadBatch(paths, v.files, v.lost.files),
                             ReadBatch(paths, DOMAIN v.notes, v.lost.notes))
  IN  RowsFor(mode, SelectSeq(entries, LAMBDA entry : IsSelected(selector, atoms, entry)))
=============================================================================
