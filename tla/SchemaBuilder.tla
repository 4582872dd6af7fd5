--------------------------- MODULE SchemaBuilder ---------------------------
(***************************************************************************)
(* Resolution of the schema registry (SchemaBuilder::build): the Global    *)
(* Schema first, then the graph, then every schema in topological order    *)
(* with its inherited, excluded and own fields, then the hierarchy that    *)
(* class queries expand over.                                              *)
(*                                                                         *)
(* The tables of fields are those of SchemaFields.  One values file stands  *)
(* for those that select fields name: it may change while the schemas are  *)
(* merged, and what was first read of it is kept (SelectValuesFileCache).  *)
(***************************************************************************)
EXTENDS SchemaGraph, SchemaFields

CONSTANTS
  Fields,        \* field names
  Key,           \* the FieldKey a name canonicalizes to
  Inputs         \* pairs of extends lists and a Declaration to explore

All == Names \cup {Global}

\* The rest of a registry: the fields each schema declares, in order, its
\* excludes, whether there is a global.toml, and the values file as it is at
\* first and after each edit.
Declaration(own, excludes, global, file) ==
  [own |-> own, excludes |-> excludes, global |-> global, file |-> file]

Field(name, raw) == [name |-> name, raw |-> raw]

ASSUME KeyAssumption == Key \in [Fields -> Fields]

\* The tables of a schema have distinct names, and each a type or an address.
\* Numbers are integers here; one of them stands for what is not finite.
AreTables(own) ==
  /\ Len(own) \in Nat /\ DOMAIN own = 1..Len(own)
  /\ \A i, j \in DOMAIN own : own[i].name = own[j].name => i = j
  /\ \A i \in DOMAIN own :
       LET raw == own[i].raw IN
       /\ raw.type = Untyped => raw.to # <<>>
       /\ \A k \in DOMAIN raw.options : IsValue(raw.options[k])

ASSUME InputsAssumption ==
  \A input \in Inputs :
    /\ input[1] \in [Names -> Seq(Targets)]
    /\ DOMAIN input[2].own = All
    /\ \A s \in All : AreTables(input[2].own[s])
    /\ input[2].excludes \in [Names -> SUBSET Fields]

VARIABLES
  declared,     \* a Declaration
  stage,        \* "global", "graph", "merge", "sweep", "done" or "failed"
  merged,       \* how many schemas of the order were merged
  resolved,     \* the schemas resolved so far
  failures,     \* the schemas that did not resolve
  descendants,  \* the accumulator of the closure; in the end the hierarchy
  disk,         \* which version of the values file is on the disk
  cached        \* the version that was read, 0 for none

registryVars == <<merged, resolved, failures, descendants, disk, cached>>
vars == <<graphVars, declared, stage, registryVars>>

-----------------------------------------------------------------------------
(* Merging one schema *)

Schema(fields, ancestors) == [fields |-> fields, ancestors |-> ancestors]

Resolved(s) == s \in DOMAIN resolved

Override(f, g) ==
  [x \in DOMAIN f \cup DOMAIN g |-> IF x \in DOMAIN g THEN g[x] ELSE f[x]]

\* The positions in the list of n whose target resolved.  The list is the
\* raw one: a target without a file is passed over here, and the Global
\* Schema, which is no node of the graph, is found in the registry.
Live(n) == {i \in DOMAIN extends[n] : Resolved(extends[n][i])}

ParentAt(n, i) == resolved[extends[n][i]]

\* inherit_fields: among the parents the first-listed wins.
Inherited(n) ==
  LET Bears(i, f) == f \in DOMAIN ParentAt(n, i).fields
      Heirlooms == UNION {DOMAIN ParentAt(n, i).fields : i \in Live(n)}
      Giver(f) == CHOOSE i \in Live(n) :
                    Bears(i, f) /\ \A j \in Live(n) : Bears(j, f) => i <= j
  IN  [f \in Heirlooms |-> ParentAt(n, Giver(f)).fields[f]]

\* Mutant of Ancestors: the parents without theirs.
ParentsOnly(n) == {extends[n][i] : i \in Live(n)}

Ancestors(n) ==
  UNION {{extends[n][i]} \cup ParentAt(n, i).ancestors : i \in Live(n)}

\* exclude_fields
Without(fields, excluded) == [f \in DOMAIN fields \ excluded |-> fields[f]]

\* resolve_ref: the base must be in the Global Schema or an ancestor, and
\* that schema must have it.
HasBase(raw, ancestors) ==
  raw.to # <<>> =>
    /\ raw.to[1] \in ancestors \cup {Global}
    /\ Resolved(raw.to[1])
    /\ raw.to[2] \in DOMAIN resolved[raw.to[1]].fields

Base(raw) == IF raw.to = <<>> THEN <<>> ELSE <<resolved[raw.to[1]].fields[raw.to[2]]>>

\* Mutant of Version: what is read is not kept.
VersionNow == disk

\* SelectValuesFileCache::load
Version == IF cached = 0 THEN disk ELSE cached

ValuesFile == declared.file[Version]

BuildOf(s, raw) == FieldOf(s = Global, raw, Base(raw), ValuesFile)

Builds(s, i, ancestors) ==
  LET raw == declared.own[s][i].raw IN HasBase(raw, ancestors) /\ BuildOf(s, raw).ok

\* resolve_own_fields succeeds.
BuildsAll(s, ancestors) == \A i \in DOMAIN declared.own[s] : Builds(s, i, ancestors)

Built(s) ==
  [f \in {declared.own[s][i].name : i \in DOMAIN declared.own[s]} |->
     BuildOf(s, declared.own[s][CHOOSE i \in DOMAIN declared.own[s] : declared.own[s][i].name = f].raw).def]

\* Fields are built in order up to the first that fails. A load that fails is
\* not kept.
Reads(s, ancestors) ==
  /\ ValuesFile.ok
  /\ \E i \in DOMAIN declared.own[s] :
       LET raw == declared.own[s][i].raw
       IN  /\ \A j \in 1..i - 1 : Builds(s, j, ancestors)
           /\ HasBase(raw, ancestors)
           /\ ReadsFile(TagOf(raw, Base(raw)), raw.options)

\* reject_ambiguous_field_names
Ambiguous(fields) ==
  \E f, g \in DOMAIN fields : f # g /\ Key[f] = Key[g]

\* merge: the schema, or Failed if a field does not build or two collide.
Failed == [fields |-> <<>>, ancestors |-> {}, failed |-> TRUE]

Effective(s, inherited, ancestors) ==
  IF BuildsAll(s, ancestors) /\ ~Ambiguous(Override(inherited, Built(s)))
  THEN Schema(Override(inherited, Built(s)), ancestors)
  ELSE Failed

Merge(n) ==
  Effective(n, Without(Inherited(n), declared.excludes[n]), Ancestors(n))

NoFields == [f \in {} |-> {}]

-----------------------------------------------------------------------------
(* build *)

BuilderInit ==
  /\ \E input \in Inputs : extends = input[1] /\ declared = input[2]
  /\ SortInit
  /\ stage = "global"
  /\ merged = 0
  /\ resolved = <<>>
  /\ failures = {}
  /\ descendants = [n \in Names |-> {}]
  /\ disk = 1
  /\ cached = 0

With(s, schema) ==
  [t \in DOMAIN resolved \cup {s} |-> IF t = s THEN schema ELSE resolved[t]]

Remember(s, ancestors) == cached' = IF Reads(s, ancestors) THEN Version ELSE cached

\* resolve_global: its own extends list is ignored, and its error ends build.
ResolveGlobal ==
  /\ stage = "global"
  /\ \/ /\ ~declared.global
        /\ stage' = "graph"
        /\ UNCHANGED <<resolved, cached>>
     \/ /\ declared.global
        /\ Remember(Global, {})
        /\ \E schema \in {Effective(Global, NoFields, {})} :
             IF schema = Failed THEN stage' = "failed" /\ UNCHANGED resolved
             ELSE stage' = "graph" /\ resolved' = With(Global, schema)
  /\ UNCHANGED <<graphVars, declared, merged, failures, descendants, disk>>

Linearize ==
  /\ stage = "graph"
  /\ Next
  /\ stage' = CASE phase' = "sorted" -> "merge"
                [] phase' = "cyclic" -> "failed"
                [] OTHER -> stage
  /\ UNCHANGED <<declared, registryVars>>

\* One round of merge_in_topological_order.
MergeNext ==
  /\ stage = "merge"
  /\ merged < Len(visited)
  /\ LET n == visited[merged + 1] IN
     /\ Remember(n, Ancestors(n))
     /\ \E schema \in {Merge(n)} :
          IF schema = Failed THEN failures' = failures \cup {n} /\ UNCHANGED resolved
          ELSE resolved' = With(n, schema) /\ UNCHANGED failures
  /\ merged' = merged + 1
  /\ UNCHANGED <<graphVars, declared, stage, descendants, disk>>

Merged ==
  /\ stage = "merge"
  /\ merged = Len(visited)
  /\ stage' = "sweep"
  /\ UNCHANGED <<graphVars, declared, registryVars>>

\* descendant_indices: leaves first, each node takes its children and what
\* they accumulated; merged counts down.
Closure(n) == Children(n) \cup UNION {descendants[c] : c \in Children(n)}

Accumulate ==
  /\ stage = "sweep"
  /\ merged > 0
  /\ descendants' = [descendants EXCEPT ![visited[merged]] = Closure(visited[merged])]
  /\ merged' = merged - 1
  /\ UNCHANGED <<graphVars, declared, stage, resolved, failures, disk, cached>>

\* Mutant of StillDescends: only the candidate itself must have resolved.
StillThere(c, n) == Resolved(c)

\* still_descends_from: a failed link drops a schema from the hierarchy.
StillDescends(c, n) == Resolved(c) /\ n \in resolved[c].ancestors

\* compute_hierarchy
SetHierarchy ==
  /\ stage = "sweep"
  /\ merged = 0
  /\ descendants' = [n \in Names |->
       IF Resolved(n) THEN {c \in descendants[n] : StillDescends(c, n)} ELSE {}]
  /\ stage' = "done"
  /\ UNCHANGED <<graphVars, declared, merged, resolved, failures, disk, cached>>

\* Someone edits the values file. Nothing reads it while the graph is made.
EditValuesFile ==
  /\ stage \in {"global", "merge"}
  /\ disk < Len(declared.file)
  /\ disk' = disk + 1
  /\ UNCHANGED <<graphVars, declared, stage, merged, resolved, failures, descendants, cached>>

BuilderStep ==
  \/ ResolveGlobal \/ Linearize \/ MergeNext \/ Merged \/ Accumulate
  \/ SetHierarchy

BuilderNext == BuilderStep \/ EditValuesFile

BuilderSpec == BuilderInit /\ [][BuilderNext]_vars /\ WF_vars(BuilderStep)

-----------------------------------------------------------------------------
(* SchemaService: class queries *)

DescendantsOf(s) == IF s \in Names THEN descendants[s] ELSE {}

ChildrenOf(s) ==
  IF s \in Names THEN {c \in Children(s) : StillDescends(c, s)} ELSE {}

\* matches: a class without a schema still matches itself.
Matches(classes) ==
  classes \cup UNION {DescendantsOf(s) : s \in classes \cap DOMAIN resolved}

\* is_a
IsA(s, class) == s = class \/ class \in resolved[s].ancestors

-----------------------------------------------------------------------------
(* Properties *)

\* The registry is a fixpoint: merging any schema once more against the whole
\* registry gives what is stored, so the result is a function of the schema
\* set, and of its files as they are, and not of the order they were listed in.
Settled ==
  stage = "done" /\ disk = 1 =>
    \A n \in Names :
      /\ Resolved(n) => Merge(n) = resolved[n]
      /\ n \in failures <=> Merge(n) = Failed

IsRange(options) ==
  /\ \A key \in DOMAIN options : options[key] # <<Infinite>>
  /\ options.step # <<>> => options.step[1] > 0
  /\ options.min # <<>> /\ options.max # <<>> => options.min[1] <= options.max[1]

RangesHold ==
  \A s \in DOMAIN resolved : \A f \in DOMAIN resolved[s].fields :
    LET def == resolved[s].fields[f] IN def.tag = "number" => IsRange(def.options)

\* Every item is shown once, in the order the items ask for.
Shows(items, entries) ==
  LET Shown(item, entry) == \/ item = Str(entry.value)
                            \/ /\ item.shape = "object" /\ Has(item.map, "value", "string")
                               /\ item.map["value"].text = entry.value
  IN  /\ Len(entries) = Len(items)
      /\ \A i \in DOMAIN items : \E j \in DOMAIN entries : Shown(items[i], entries[j])
      /\ \A j, k \in DOMAIN entries :
           "order" \in DOMAIN entries[j].extra /\ j < k =>
             entries[j].extra["order"].n <= entries[k].extra["order"].n

\* What a table says of an option, taken at its word.
Says(key, value, got) ==
  CASE key \in {"folders", "class"} -> value = List([i \in DOMAIN got |-> Str(got[i])])
    [] key = "values" -> \/ value.shape = "object"
                         \/ value.shape = "list" /\ Shows(value.items, got)
    [] key \in {"format", "ext"} -> got # <<>> /\ value = Str(got[1])
    [] key \in {"min", "max", "step"} -> got # <<>> /\ value = Num(got[1])

\* A single value that a table without a type gives in a wrong shape. A doc says
\* that it is dropped for the base value, the code unsets the option.
Misshapen(raw, key) ==
  /\ raw.type = Untyped /\ key \in DOMAIN raw.options
  /\ \/ key \in {"format", "ext"} /\ raw.options[key].shape # "string"
     \/ key \in {"min", "max", "step"} /\ raw.options[key].shape # "number"

TableHolds(raw, def) ==
  LET base == Base(raw)
      Kept(key) == def.options[key] = IF base # <<>> /\ base[1].tag = def.tag
                                      THEN base[1].options[key] ELSE <<>>
  IN  \A key \in {k \in Attributes(def.tag) : ~Misshapen(raw, k)} :
        IF key \notin DOMAIN raw.options THEN Kept(key)
        ELSE LET value == raw.options[key] IN
             \/ Says(key, value, def.options[key])
             \/ (raw.type = Untyped \/ value = List(<<>>)) /\ Kept(key)

\* Along any chain of references an option is what the schema's own table says
\* or what the field it refers to has, if that is of the same type. A table
\* with a type of its own is taken at its word; in one without the field's
\* value stands for what is dropped. Nothing is said of a value that is
\* Misshapen, on which code and doc disagree. And the range that several
\* tables make up together is a range: it is finite and not empty.
OptionsHold ==
  /\ RangesHold
  /\ \A s \in DOMAIN resolved : \A i \in DOMAIN declared.own[s] :
       TableHolds(declared.own[s][i].raw, resolved[s].fields[declared.own[s][i].name])

\* The entries are those of the version that was read, or taken over.
ReadsOnce(raw, def) ==
  ReadsFile(def.tag, raw.options) =>
    \/ /\ cached # 0
       /\ def.options.values =
            FileEntries(raw.options["values"].map, declared.file[cached]).options
    \/ raw.type = Untyped /\ def.options.values = Base(raw)[1].options.values

\* All fields that show the entries of the values file show those of one
\* version of it, although it may be edited, broken or repaired meanwhile.
OneReading ==
  \A s \in DOMAIN resolved : \A i \in DOMAIN declared.own[s] :
    ReadsOnce(declared.own[s][i].raw, resolved[s].fields[declared.own[s][i].name])

\* A class query for n finds exactly the schemas that are n by extension: the
\* closure walked downwards agrees with the ancestors merged upwards, failed
\* links included.
MatchesIsA ==
  stage = "done" =>
    \A n \in Names \cap DOMAIN resolved :
      /\ Matches({n}) = {c \in Names \cap DOMAIN resolved : IsA(c, n)}
      /\ ChildrenOf(n) = {c \in Names \cap DOMAIN resolved : n \in Listed(extends[c])}

\* The resolved schemas that a schema of S extends, and the sets of resolved
\* schemas that have those of their members.
Ups(S) == {p \in DOMAIN resolved : \E n \in S \cap Names : p \in Listed(extends[n])}
Upward == {U \in SUBSET DOMAIN resolved : Ups(U) \subseteq U}

\* The ancestors are what a chain of extends lists of resolved schemas leads
\* to: no more, although some links failed, and no less, however long it is.
AncestorsExact ==
  LET upward == Upward
  IN  stage = "done" =>
        \A s \in Names \cap DOMAIN resolved :
          resolved[s].ancestors =
            {x \in DOMAIN resolved : \A U \in upward : Ups({s}) \subseteq U => x \in U}

\* Whatever the lists say, the build ends: neither the sort nor the search
\* goes round a cycle.
Ends == <>(stage \in {"done", "failed"})

=============================================================================
