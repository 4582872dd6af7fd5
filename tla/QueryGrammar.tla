---------------------------- MODULE QueryGrammar ---------------------------
(***************************************************************************)
(* The logical grammar that source and filter expressions share            *)
(* (BooleanExprParser): not binds tighter than and, and than or, and       *)
(* parentheses override.                                                   *)
(*                                                                         *)
(* An atom token stands for all the tokens one call of parse_atom takes,   *)
(* and names its atom by a number; a bad token is one it rejects.          *)
(***************************************************************************)
EXTENDS Naturals, Sequences

Token(kind) == [kind |-> kind, atom |-> 0]
AtomToken(a) == [kind |-> "atom", atom |-> a]

Leaf(a) == [op |-> "atom", atom |-> a, args |-> <<>>]
Node(op, args) == [op |-> op, atom |-> 0, args |-> args]

\* The outcome of a parse function: a tree and the token it stopped at.
Parsed(tree, at) == [ok |-> TRUE, tree |-> tree, at |-> at]
Rejected == [ok |-> FALSE, tree |-> Leaf(0), at |-> 0]

Accepts(s, i, kind) == i <= Len(s) /\ s[i].kind = kind

RECURSIVE ParseChain(_, _, _), ParseRest(_, _, _, _), ParseNot(_, _), ParsePrimary(_, _)

\* One term of a chain of op.
ParseTerm(op, s, i) == IF op = "or" THEN ParseChain("and", s, i) ELSE ParseNot(s, i)

ParseChain(op, s, i) ==
  LET first == ParseTerm(op, s, i)
  IN  IF first.ok /\ Accepts(s, first.at, op)
      THEN ParseRest(op, s, first.at + 1, <<first.tree>>)
      ELSE first

ParseRest(op, s, i, terms) ==
  LET next == ParseTerm(op, s, i)
      longer == Append(terms, next.tree)
  IN  CASE ~next.ok -> next
        [] next.ok /\ Accepts(s, next.at, op) -> ParseRest(op, s, next.at + 1, longer)
        [] OTHER -> Parsed(Node(op, longer), next.at)

\* Mutant: repeated nots count as one.
ParseNotOnce(s, i) ==
  IF ~Accepts(s, i, "not") THEN ParsePrimary(s, i)
  ELSE LET under == ParseNot(s, i + 1)
       IN  IF under.ok /\ under.tree.op # "not"
           THEN Parsed(Node("not", <<under.tree>>), under.at)
           ELSE under

ParseNot(s, i) ==
  IF ~Accepts(s, i, "not") THEN ParsePrimary(s, i)
  ELSE LET under == ParseNot(s, i + 1)
       IN  IF under.ok THEN Parsed(Node("not", <<under.tree>>), under.at) ELSE under

ParsePrimary(s, i) ==
  CASE Accepts(s, i, "(") ->
         LET inner == ParseChain("or", s, i + 1)
         IN  IF inner.ok /\ Accepts(s, inner.at, ")")
             THEN Parsed(inner.tree, inner.at + 1)
             ELSE Rejected
    [] Accepts(s, i, "atom") -> Parsed(Leaf(s[i].atom), i + 1)
    [] OTHER -> Rejected

\* Nothing may follow the expression.
ParseBooleanExpr(s) ==
  LET r == ParseChain("or", s, 1) IN IF r.ok /\ r.at = Len(s) + 1 THEN r ELSE Rejected

-----------------------------------------------------------------------------
(* Evaluation, where T is the set of the atoms that hold *)

RECURSIVE IsSatisfied(_, _)
IsSatisfied(tree, T) ==
  CASE tree.op = "atom" -> tree.atom \in T
    [] tree.op = "and" -> \A i \in DOMAIN tree.args : IsSatisfied(tree.args[i], T)
    [] tree.op = "or" -> \E i \in DOMAIN tree.args : IsSatisfied(tree.args[i], T)
    [] tree.op = "not" -> ~IsSatisfied(tree.args[1], T)

-----------------------------------------------------------------------------
(* What an expression says, read from the text alone: split it at a         *)
(* connective outside of all parentheses, at an or if there is one; else    *)
(* take off a leading not; else the parentheses around it.                  *)

Count(s, i, kind) ==
  LET upTo[j \in 0..i] == IF j = 0 THEN 0
                          ELSE upTo[j - 1] + (IF s[j].kind = kind THEN 1 ELSE 0)
  IN  upTo[i]

\* The first place, if any, where s can be cut at kind.
Cuts(s, kind) ==
  {i \in 2..(Len(s) - 1) : s[i].kind = kind /\ Count(s, i, "(") = Count(s, i, ")")}

RECURSIVE Reading(_, _)
Reading(s, T) ==
  LET n == Len(s)
      Cut(kind, decides) ==
        LET i == CHOOSE i \in Cuts(s, kind) : TRUE
            sides == {Reading(SubSeq(s, 1, i - 1), T), Reading(SubSeq(s, i + 1, n), T)}
        IN  CASE "none" \in sides -> "none"
              [] "none" \notin sides /\ decides \in sides -> decides
              [] OTHER -> IF decides = "yes" THEN "no" ELSE "yes"
  IN  CASE n = 0 -> "none"
        [] Cuts(s, "or") # {} -> Cut("or", "yes")
        [] Cuts(s, "or") = {} /\ Cuts(s, "and") # {} -> Cut("and", "no")
        [] OTHER ->
             LET rest == Reading(SubSeq(s, 2, n), T)
             IN  CASE s[1].kind = "not" ->
                        (CASE rest = "yes" -> "no" [] rest = "no" -> "yes" [] OTHER -> "none")
                   [] s[1].kind = "(" /\ s[n].kind = ")" /\ n > 2 ->
                        Reading(SubSeq(s, 2, n - 1), T)
                   [] s[1].kind = "atom" /\ n = 1 -> IF s[1].atom \in T THEN "yes" ELSE "no"
                   [] OTHER -> "none"
=============================================================================
