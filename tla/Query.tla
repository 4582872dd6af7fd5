------------------------------- MODULE Query -------------------------------
(***************************************************************************)
(* A query from its text to its rows: the source is parsed, its classes    *)
(* are expanded, the rows are found in an index or in the store and go     *)
(* through the builder's plan; then the query sets a caller makes of them  *)
(* are transformed lazily, branch, and are read.                           *)
(*                                                                         *)
(* A question to explore has the vault, the tokens of the source with      *)
(* their atoms, the mode, whether class names are expanded, where the rows *)
(* come from, the plan of the builder, and the transforms a caller may     *)
(* push on the result.                                                     *)
(***************************************************************************)
EXTENDS QueryPlan

CONSTANTS
  Questions,    \* the questions to explore
  MaxSets       \* bound: how many query sets a caller makes

ASSUME QuestionsAssumption ==
  \A q \in Questions : /\ q.mode \in {"pages", "lists", "tasks"}
                       /\ q.via \in {"index", "store"}
                       /\ q.expander \in BOOLEAN
ASSUME MaxSetsAssumption == MaxSets \in Nat

VARIABLES
  question,   \* what is asked; no action changes it
  stage,      \* "asked", "parsed", "expanded", "served" or "refused"
  selector,   \* the parsed source
  atoms,      \* its atoms, with the match sets of classes once expanded
  sets        \* the query sets made so far: base rows, pending plan, cache

vars == <<question, stage, selector, atoms, sets>>

QuerySet(base, plan) == [base |-> base, plan |-> plan, cache |-> <<>>]

QueryInit ==
  /\ question \in Questions
  /\ stage = "asked"
  /\ selector = Everything
  /\ atoms = question.atoms
  /\ sets = <<>>

-----------------------------------------------------------------------------
(* The query *)

\* A blank source selects everything.
Parse ==
  LET r == ParseBooleanExpr(question.tokens)
  IN  /\ stage = "asked"
      /\ stage' = IF question.tokens = <<>> \/ r.ok THEN "parsed" ELSE "refused"
      /\ selector' = IF r.ok THEN <<r.tree>> ELSE Everything
      /\ UNCHANGED <<question, atoms, sets>>

ResolveSourceClasses ==
  /\ stage = "parsed"
  /\ stage' = "expanded"
  /\ atoms' = ResolveClasses(atoms, question.expander)
  /\ UNCHANGED <<question, selector, sets>>

Found ==
  IF question.via = "index"
  THEN RunOnIndex(question.vault, question.mode, selector, atoms)
  ELSE RunFromStore(question.vault, question.mode, selector, atoms)

Serve ==
  /\ stage = "expanded"
  /\ stage' = "served"
  /\ sets' = <<QuerySet(Run(question.plan, Found), <<>>)>>
  /\ UNCHANGED <<question, selector, atoms>>

-----------------------------------------------------------------------------
(* Query sets *)

Pushed(set, t) == QuerySet(set.base, Append(set.plan, t))

\* A transform makes a new set and leaves the old one as a branch.
Push ==
  /\ stage = "served" /\ Len(sets) < MaxSets
  /\ \E i \in DOMAIN sets, t \in question.pushes : sets' = Append(sets, Pushed(sets[i], t))
  /\ UNCHANGED <<question, stage, selector, atoms>>

Rows(set) == IF set.plan = <<>> THEN set.base ELSE Run(set.plan, set.base)

\* A read runs the pending plan, once.
Read ==
  /\ stage = "served"
  /\ \E i \in DOMAIN sets :
       /\ sets[i].cache = <<>>
       /\ sets' = [sets EXCEPT ![i].cache = <<Rows(sets[i])>>]
  /\ UNCHANGED <<question, stage, selector, atoms>>

QueryNext == Parse \/ ResolveSourceClasses \/ Serve \/ Push \/ Read

QuerySpec == QueryInit /\ [][QueryNext]_vars

-----------------------------------------------------------------------------
(* Properties *)

\* A source is refused exactly if its text has no reading, and otherwise the
\* tree says of every combination of true atoms what the text says: not
\* before and before or, parentheses first, nothing left over.
ParsesAsWritten ==
  LET tokens == question.tokens
  IN  stage # "asked" /\ tokens # <<>> =>
        \A T \in SUBSET DOMAIN question.atoms :
          LET reading == Reading(tokens, T)
          IN  IF stage = "refused" THEN reading = "none"
              ELSE reading = IF IsSatisfied(selector[1], T) THEN "yes" ELSE "no"

\* The schemas a class atom means, walked up instead of down.
RECURSIVE Above(_, _)
Above(s, k) ==
  IF k = 0 THEN {s} ELSE {s} \cup UNION {Above(e[2], k - 1) : e \in {e \in Extends : e[1] = s}}

Means(atom, class) ==
  CASE atom.depth = "exact" -> class \in atom.names
    [] atom.depth = "children" ->
         class \in atom.names \/ \E s \in atom.names : <<class, s>> \in Extends
    [] atom.depth = "descendants" ->
         Above(class, Cardinality(Extends)) \cap atom.names # {}

\* The rows that can be read; an index has them all.
Lost == IF question.via = "store" THEN question.vault.lost ELSE [files |-> {}, notes |-> {}]
NoteOf(p) ==
  LET notes == question.vault.notes
  IN  IF p \in DOMAIN notes \ Lost.notes THEN <<notes[p]>> ELSE <<>>

TrueAtoms(p) ==
  {a \in DOMAIN question.atoms :
     LET atom == question.atoms[a]
         note == NoteOf(p)
     IN  CASE atom.axis = "path" -> p \in atom.paths
           [] atom.axis = "tag" ->
                note # <<>> /\ \E tag \in note[1].tags : atom.tag \in Prefixes(tag)
           [] atom.axis = "class" ->
                /\ note # <<>> /\ question.expander
                /\ \E class \in note[1].classes : Means(atom, class)}

Selected(p) ==
  \/ question.tokens = <<>>
  \/ Reading(question.tokens, TrueAtoms(p)) = "yes"

ItemsOf(p) ==
  IF question.mode = "pages" THEN {0}
  ELSE IF NoteOf(p) = <<>> THEN {}
  ELSE {i \in DOMAIN NoteOf(p)[1].items :
          question.mode = "lists" \/ NoteOf(p)[1].items[i].task}

\* From the store or from an index, a query finds the same rows: those of
\* the readable paths its text selects, in path order and then in item
\* order, each once; the candidates the tables give never narrow it.
ServesMatching ==
  stage = "served" /\ question.plan = <<>> =>
    LET found == [k \in DOMAIN sets[1].base |->
                    <<sets[1].base[k].entry.path, sets[1].base[k].item>>]
        wanted == UNION {{p} \X ItemsOf(p) :
                           p \in {p \in question.vault.files \ Lost.files : Selected(p)}}
    IN  /\ ToSet(found) = wanted
        /\ \A k \in 1..(Len(found) - 1) : KeyLess(found[k], found[k + 1])
        /\ \A k \in DOMAIN found : sets[1].base[k].entry.note = NoteOf(found[k][1])

\* Whatever was pushed and read on other branches, and however steps were
\* fused, a set that is read holds what its own steps give one by one, and so
\* does the base with the steps of the builder.
ReadsItsPlan ==
  /\ stage = "served" => sets[1].base = StepByStep(question.plan, Found)
  /\ \A i \in DOMAIN sets :
       sets[i].cache # <<>> => sets[i].cache[1] = StepByStep(sets[i].plan, sets[i].base)
=============================================================================
