----------------------------- MODULE QueryPlan -----------------------------
(***************************************************************************)
(* The pipeline of a query over its rows (ExecutionPlan): filters, sorts,  *)
(* limits, groupings and flattenings, fused before they run.               *)
(*                                                                         *)
(* A value has a kind and a sequence v of numbers: one for a scalar, its   *)
(* elements, which are texts, for a list.  "dated" is text in the shape of *)
(* a date; in the order of texts, such text comes before other text.       *)
(* Booleans, durations, links, objects and the file and list fields that   *)
(* are read like a field of these kinds are left out.                      *)
(***************************************************************************)
EXTENDS QuerySource

CONSTANT Predicates     \* the comparisons filters are built from, numbered

Value(kind, n) == [kind |-> kind, v |-> <<n>>]
Null == [kind |-> "null", v |-> <<>>]
ListOf(kind, v) == [kind |-> kind, v |-> v]

-----------------------------------------------------------------------------
(* Fields of a row: flattened ones first; tags of an item are its own; any  *)
(* other field of an item is looked up in its note when the item has none   *)

Lookup(fields, f, otherwise) == IF f \in DOMAIN fields THEN fields[f] ELSE otherwise

Resolve(row, f) ==
  LET note == IF row.entry.note = <<>> THEN <<>> ELSE row.entry.note[1].fields
      item == IF row.item = 0 THEN <<>> ELSE row.entry.note[1].items[row.item].fields
      NoTags == ListOf("tags", <<>>)
  IN  CASE f \in DOMAIN row.flat -> row.flat[f]
        [] f \notin DOMAIN row.flat /\ f = "tags" ->
             IF row.item = 0 THEN Lookup(note, f, NoTags) ELSE Lookup(item, f, NoTags)
        [] OTHER -> Lookup(item, f, Lookup(note, f, Null))

-----------------------------------------------------------------------------
(* Comparison keys: a rank of the kind, then the value *)

Rank(kind) ==
  CASE kind = "null" -> 0 [] kind = "number" -> 2 [] kind = "date" -> 4
    [] kind \in {"text", "dated"} -> 5 [] kind \in {"list", "tags"} -> 7

KeyLess(a, b) == a[1] < b[1] \/ (a[1] = b[1] /\ a[2] < b[2])

\* SortKey: lists collapse to null, and text is classified.
SortKey(x) ==
  CASE x.kind \in {"null", "list", "tags"} -> <<0, 0>>
    [] x.kind = "dated" -> <<Rank("date"), x.v[1]>>
    [] OTHER -> <<Rank(x.kind), x.v[1]>>

\* CompareOp between a field and a literal, which is classified when the
\* filter is built: a list compares by its rank with any literal.
FilterKey(x) == <<Rank(x.kind), IF x.kind = "list" THEN 0 ELSE x.v[1]>>

\* No literal is dated text, so a field that is equals none.
IsEqualToLiteral(x, literal) == x = literal

IsPredicateMatch(row, p) ==
  LET x == Resolve(row, p.field)
      Ordered == x.kind # "tags" /\ x.kind # "null" /\ p.literal.kind # "null"
  IN  CASE p.op = "==" -> IsEqualToLiteral(x, p.literal)
        [] p.op = "!=" -> ~IsEqualToLiteral(x, p.literal)
        [] p.op = "<" -> Ordered /\ KeyLess(FilterKey(x), FilterKey(p.literal))
        [] p.op = ">=" -> Ordered /\ ~KeyLess(FilterKey(x), FilterKey(p.literal))

-----------------------------------------------------------------------------
(* Sorting *)

Term(field, descending) == [field |-> field, descending |-> descending]

\* Row a before row b by the first term that tells them apart; null is the
\* smallest, so it comes last when descending.
Less(order, a, b) ==
  LET KeyA(k) == SortKey(Resolve(a, order[k].field))
      KeyB(k) == SortKey(Resolve(b, order[k].field))
  IN  \E k \in DOMAIN order :
        /\ \A m \in 1..(k - 1) : KeyA(m) = KeyB(m)
        /\ IF order[k].descending THEN KeyLess(KeyB(k), KeyA(k)) ELSE KeyLess(KeyA(k), KeyB(k))

\* Positions by key, and ties by position.
Before(order, rows, i, j) ==
  \/ Less(order, rows[i], rows[j])
  \/ ~Less(order, rows[j], rows[i]) /\ i < j

Picked(rows, order, chosen) ==
  LET positions == SetToSortSeq(chosen, LAMBDA i, j : Before(order, rows, i, j))
  IN  [k \in DOMAIN positions |-> rows[positions[k]]]

Sorted(order, rows) == IF Len(rows) <= 1 THEN rows ELSE Picked(rows, order, DOMAIN rows)

\* Mutant: of tied rows the later ones are selected.
TopRowsTied(order, rows, n) ==
  CASE n = 0 \/ rows = <<>> -> <<>>
    [] n > 0 /\ n >= Len(rows) -> Sorted(order, rows)
    [] OTHER ->
         Picked(rows, order,
           {i \in DOMAIN rows :
              Cardinality({j \in DOMAIN rows : \/ Less(order, rows[j], rows[i])
                                               \/ ~Less(order, rows[i], rows[j]) /\ j > i}) < n})

\* The n least rows are selected, then sorted.
TopRows(order, rows, n) ==
  CASE n = 0 \/ rows = <<>> -> <<>>
    [] n > 0 /\ n >= Len(rows) -> Sorted(order, rows)
    [] OTHER ->
         Picked(rows, order,
           {i \in DOMAIN rows : Cardinality({j \in DOMAIN rows : Before(order, rows, j, i)}) < n})

-----------------------------------------------------------------------------
(* Transforms *)

Filter(tree) == [op |-> "filter", tree |-> tree]
SortBy(order) == [op |-> "sort", order |-> order]
Limit(n) == [op |-> "limit", n |-> n]
GroupBy(f) == [op |-> "group_by", field |-> f]
Flatten(f) == [op |-> "flatten", field |-> f]
TopK(order, n) == [op |-> "top_k", order |-> order, n |-> n]

WithFlattened(row, f, x) ==
  [row EXCEPT !.flat = [g \in DOMAIN row.flat \cup {f} |-> IF g = f THEN x ELSE row.flat[g]]]

\* One row per element; a row without a list stays, one with an empty list
\* goes.
Flattened(row, f) ==
  LET x == Resolve(row, f)
  IN  IF x.kind \in {"list", "tags"}
      THEN [k \in DOMAIN x.v |-> WithFlattened(row, f, Value("text", x.v[k]))]
      ELSE <<row>>

Apply(t, rows) ==
  CASE t.op = "filter" ->
         SelectSeq(rows, LAMBDA row :
           IsSatisfied(t.tree, {p \in DOMAIN Predicates : IsPredicateMatch(row, Predicates[p])}))
    [] t.op = "sort" -> Sorted(t.order, rows)
    [] t.op = "limit" -> SubSeq(rows, 1, IF t.n < Len(rows) THEN t.n ELSE Len(rows))
    [] t.op = "group_by" -> Sorted(<<Term(t.field, FALSE)>>, rows)
    [] t.op = "flatten" -> FlattenSeq([i \in DOMAIN rows |-> Flattened(rows[i], t.field)])
    [] t.op = "top_k" -> TopRows(t.order, rows, t.n)

-----------------------------------------------------------------------------
(* Fusion *)

\* FilterExpr::and: the terms of a conjunction join those of the other.
Conjuncts(tree) == IF tree.op = "and" THEN tree.args ELSE <<tree>>
And(a, b) == Node("and", Conjuncts(a) \o Conjuncts(b))

\* Neighbours of the kinds given become one step.
Fused(ops, first, second, Join(_, _)) ==
  FoldLeft(LAMBDA done, t :
             IF done # <<>> /\ Last(done).op = first /\ t.op = second
             THEN Append(Front(done), Join(Last(done), t))
             ELSE Append(done, t),
           <<>>, ops)

FuseFilters(ops) == Fused(ops, "filter", "filter", LAMBDA a, b : Filter(And(a.tree, b.tree)))

FuseSorts(ops) == Fused(ops, "sort", "sort", LAMBDA a, b : SortBy(a.order \o b.order))
FuseSortLimit(ops) == Fused(ops, "sort", "limit", LAMBDA a, b : TopK(a.order, b.n))

Optimized(ops) == FuseSortLimit(FuseSorts(FuseFilters(ops)))

Steps(ops, rows) == FoldLeft(LAMBDA done, t : Apply(t, done), rows, ops)

Run(ops, rows) == Steps(Optimized(ops), rows)

-----------------------------------------------------------------------------
(* What a pipeline means: its steps one after the other, where of adjacent  *)
(* sorts the first one comes first, so they are applied from the last on    *)

SortsReversed(ops) ==
  FoldLeft(LAMBDA done, t :
             LET keep == SelectLastInSeq(done, LAMBDA u : u.op # "sort")
             IN  IF t.op = "sort" THEN InsertAt(done, keep + 1, t) ELSE Append(done, t),
           <<>>, ops)

StepByStep(ops, rows) == Steps(SortsReversed(ops), rows)
=============================================================================
